\* Liveness: no symmetry, fair threads.
CONSTANTS
    Node = {n1, n2}
    Message = {m1}
    Entry = {n1, n2}
    NoNode = NoNode
    Peers <- EveryOtherNode
    Servers <- EveryClientKnowsEntry
    ReplicationFactor = 2
    Threshold = 1
    MaxCrashes = 1
    MaxFaults = 1
SPECIFICATION FairSpec
PROPERTIES EventuallyReplicated ImplementsInbox
CHECK_DEADLOCK FALSE
