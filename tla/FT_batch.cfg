\* Two messages for one peer: batches, and drains racing handlers.
CONSTANTS
    Node = {n1, n2}
    Message = {m1, m2}
    Entry = {n1}
    NoNode = NoNode
    Peers <- EveryOtherNode
    Servers <- EveryClientKnowsEntry
    ReplicationFactor = 2
    Threshold = 1
    MaxCrashes = 1
    MaxFaults = 2
SPECIFICATION Spec
INVARIANTS TypeOK QueuedIsStored NoMessageForgotten LivePeersSettled
SYMMETRY Symmetry
CHECK_DEADLOCK FALSE
