\* The quorums of a cluster of three, server.py:228-229; nothing fails.
CONSTANTS
    Node = {1, 2, 3}
    Message = {m1}
    NoNode = 0
    PeerList <- InOrder
    QuorumW = 2
    QuorumR = 2
    MaxCrashes = 0
    MaxFaults = 0
SPECIFICATION Spec
INVARIANTS ReadSeesCommitted
CHECK_DEADLOCK FALSE
