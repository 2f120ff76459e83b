\* Reads from all three nodes, with a failing call and two crashes.
CONSTANTS
    Node = {1, 2, 3}
    Message = {m1}
    NoNode = 0
    PeerList <- InOrder
    QuorumW = 2
    QuorumR = 3
    MaxCrashes = 2
    MaxFaults = 1
SPECIFICATION Spec
INVARIANTS TypeOK CommittedIsOnDisks WideReadSeesCommitted MonotonicReads
CHECK_DEADLOCK FALSE
