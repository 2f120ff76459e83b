\* Three servers with one thread each, two messages.  A tick is 2.5 seconds, so that, as with
\* the times of the code, a call to a peer lasts as long as a round of heartbeats (2 s + 3 s = 5 s).
CONSTANTS
    Server = {1, 2, 3}
    Message = {m1, m2}
    NoServer = 0
    Hanging = {3}
    Listed = {1, 2}
    Threads = 1
    HeartbeatTimeout = 1
    HeartbeatInterval = 1
    MissedThreshold = 3
    ReplicateTimeout = 2
    SendTimeout = 2
SPECIFICATION Spec
INVARIANTS TypeOK
PROPERTIES HandlersEnd HangIsDetected FalseDeathsHeal
