\* A domain is added to the configuration of one machine.
CONSTANTS
    Machine = {1}
    Remote = {}
    Poller = {}
    CAs = 1
    Certificate = {1, 2, 3}
    MaxFaults = 1
    Growing = {1}
SPECIFICATION FairSpec
PROPERTY DomainsCovered
CHECK_DEADLOCK FALSE
