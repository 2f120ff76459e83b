----------------------------- MODULE MCTimeSync -----------------------------
(* Instances of TimeSync for TLC.                                          *)
EXTENDS TimeSync

\* References are numbered; their clocks are 60 ahead, 60 behind.
Skews == [r \in Reference |-> IF r = 1 THEN 60 ELSE -60]

\* A quick call, and one slow on its way back: three times as long.
QuickAndSlow == {<<2, 2>>, <<2, 10>>}

\* A sample that is far off, with a round trip of one.
CorruptSamples == {[from |-> Stub, offset |-> 500, rtt |-> 1]}
=============================================================================
