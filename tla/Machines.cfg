\* Two machines and their certificates; one domain and its addresses.
SPECIFICATION MachinesSpec
CONSTANTS
    Part = {"certs", "ddns"}
    \* Certs
    Machine = {1, 2}
    Remote = {}
    Poller = {}
    CAs = 1
    Certificate = {1, 2, 3}
    MaxFaults = 2
    Growing = {1}
    \* Ddns
    Domain = {"d1"}
    Address = {"a", "b"}
    Own = "own"
    MaxMoves = 1
    MaxFailures = 2
INVARIANTS MachinesTypeOK
PROPERTIES CertificatesArrive RecordsArrive
CHECK_DEADLOCK FALSE
