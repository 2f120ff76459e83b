\* Three nodes, contested elections, a log that can diverge.
CONSTANTS
    Node = {n1, n2, n3}
    Message = {m1}
    None = None
    MaxTerm = 2
    MaxLog = 2
    MaxFaulty = 1
SPECIFICATION Spec
INVARIANTS TypeOK OneLeaderPerTerm LogMatching LeaderCompleteness StateMachineSafety CommittedOnMajority AppliedIsLogged SendToPeerIsTheLoop MatchIndexIsHeld
PROPERTIES ImplementsLog
SYMMETRY Symmetry
VIEW View
CONSTRAINT Sound
CHECK_DEADLOCK FALSE
