\* A crash while a drained row is in memory.
CONSTANTS
    Node = {n1, n2}
    Message = {m1}
    Entry = {n1}
    NoNode = NoNode
    Peers <- EveryOtherNode
    Servers <- EveryClientKnowsEntry
    ReplicationFactor = 2
    Threshold = 1
    MaxCrashes = 2
    MaxFaults = 0
SPECIFICATION Spec
PROPERTIES QueueSurvivesRestart
CHECK_DEADLOCK FALSE
