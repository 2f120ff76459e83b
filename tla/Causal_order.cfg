\* Two messages among three nodes, of which copies arrive again, and events that
\* are no messages.
CONSTANTS
    Node = {n1, n2, n3}
    MessageCount = 2
    MaxExtras = 3
SPECIFICATION Spec
INVARIANTS TypeOK CausalOrder ClocksTellCausality LamportFollowsCausality DeliveredOnce WaitsForAGap
SYMMETRY Symmetry
CHECK_DEADLOCK FALSE
