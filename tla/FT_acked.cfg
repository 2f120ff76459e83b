\* A client that fails over after its first server crashed.
CONSTANTS
    Node = {n1, n2, n3}
    Message = {m1}
    Entry = {n1, n2}
    NoNode = NoNode
    Peers <- EveryOtherNode
    Servers <- EveryClientKnowsEntry
    ReplicationFactor = 3
    Threshold = 1
    MaxCrashes = 1
    MaxFaults = 0
SPECIFICATION Spec
INVARIANTS AckedReachesAll
CHECK_DEADLOCK FALSE
