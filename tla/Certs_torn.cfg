\* Two machines and a poller; nothing fails.
CONSTANTS
    Machine = {1, 2}
    Remote = {}
    Poller = {2}
    CAs = 1
    Certificate = {1, 2, 3}
    MaxFaults = 0
    Growing = {}
SPECIFICATION Spec
INVARIANT ServedPairMatches
CHECK_DEADLOCK FALSE
