------------------------------ MODULE TimeSync ------------------------------
(***************************************************************************)
(* The clock synchronisation of one node: TimeSyncer of node/time_sync.py, *)
(* sync_once and GetTime of node/time_sync_service.py, and the change of   *)
(* reference that node/server.py makes after an election; with the faults  *)
(* that FaultInjector of node/fault_injection.py puts into it.             *)
(*                                                                         *)
(* Two threads meet here.  The sync thread asks the reference for its time,*)
(* judges the round trip, takes the sample in and adapts its interval; the *)
(* thread of the command loop changes the reference.  The sync thread holds*)
(* the lock only while it takes a sample in, so a change may fall between  *)
(* any two of its steps, each of which is an action.  A test's thread that *)
(* injects a corrupt sample takes the same steps.                          *)
(*                                                                         *)
(* Times are integers of one unit.  A clock is what the node's own clock   *)
(* shows plus a skew; skews do not drift.  Medians are kept doubled, since *)
(* the median of an even number of samples is half the sum of two.         *)
(***************************************************************************)
EXTENDS Integers, Sequences, FiniteSets

CONSTANTS
    Reference,      \* the addresses that can be the reference
    NoReference,    \* the reference before the first election
    Stub,           \* the origin of a simulated sample
    Skew,           \* Skew[r]: the clock of r minus the node's own
    Trips,          \* possible calls: <<time there, time back>>
    StubOffset,     \* the millisecond of the simulated response
    StubTimes,      \* its round trip: two readings of the clock in a row
    SampleCount,
    Multiplier,     \* RTT_REJECT_MULTIPLIER
    Threshold,      \* DRIFT_THRESHOLD_MS
    MinInterval, MaxInterval,
    Corrupt,        \* the corrupt samples that may be injected
    MaxChanges,     \* bound: changes of the reference
    MaxCorrupt      \* bound: corrupt samples

ASSUME OriginAssumption == NoReference \notin Reference /\ Stub \notin Reference \union {NoReference}
\* A call is over within its timeout (time_sync_service.py:106), so there are
\* finitely many.
ASSUME ClockAssumption ==
    /\ Skew \in [Reference -> Int] /\ StubOffset \in Int
    /\ Trips \subseteq Nat \X Nat /\ IsFiniteSet(Trips)
    /\ \A trip \in Trips : trip[1] + trip[2] > 0 /\ (trip[1] - trip[2]) % 2 = 0
    /\ StubTimes \subseteq Nat
    /\ Corrupt \subseteq [from : {Stub}, offset : Int, rtt : Nat \ {0}]
ASSUME ParameterAssumption ==
    /\ {SampleCount, Multiplier, MinInterval, MaxInterval} \subseteq Nat \ {0}
    /\ MinInterval <= MaxInterval
    /\ {Threshold, MaxChanges, MaxCorrupt} \subseteq Nat

VARIABLES
    reference,  \* reference_addr
    samples,    \* _samples; the origin of each is history
    rtts,       \* _rtt_samples, likewise
    offset2,    \* twice offset
    prev2,      \* twice _prev_offset
    interval,   \* _current_interval
    thread,     \* the sync thread: where it is, whom it asked, what it got
    reachable,  \* the references that answer within the timeout of the call
    partition,  \* the injector's partition is on
    injector,   \* the thread that injects a sample: where it is, which sample
    changes, corrupted

window == <<samples, rtts, offset2>>
outside == <<reference, reachable, partition, injector, changes, corrupted>>
vars == <<window, prev2, interval, thread, outside>>

NoSample == [from |-> NoReference, offset |-> 0, rtt |-> 0]
Idle == [pc |-> "idle", asked |-> NoReference, sample |-> NoSample]
NoInjection == [pc |-> "idle", sample |-> NoSample]

Init ==
    /\ reference = NoReference
    /\ samples = <<>> /\ rtts = <<>>
    /\ offset2 = 0 /\ prev2 = 0
    /\ interval \in MinInterval..MaxInterval
    /\ thread = Idle
    /\ reachable = Reference
    /\ partition = FALSE
    /\ injector = NoInjection
    /\ changes = 0 /\ corrupted = 0

-----------------------------------------------------------------------------
(* An operator whose name begins with Bad is a mutation of the one after   *)
(* it, used by no specification.                                           *)

\* The value at rank k of a sequence of integers.
Ranked(s, k) ==
    CHOOSE v \in {s[i] : i \in DOMAIN s} :
        /\ Cardinality({i \in DOMAIN s : s[i] < v}) < k
        /\ Cardinality({i \in DOMAIN s : s[i] <= v}) >= k

BadMedian2(s) == s[1] + s[Len(s)]

\* Twice statistics.median: the middle value twice, or the two middle ones.
Median2(s) == Ranked(s, (Len(s) + 1) \div 2) + Ranked(s, Len(s) \div 2 + 1)

Offsets(s) == [i \in DOMAIN s |-> s[i].offset]
Times(s) == [i \in DOMAIN s |-> s[i].rtt]

BadSlide(s, x) == IF Len(s) > SampleCount THEN Append(Tail(s), x) ELSE Append(s, x)

\* Append, and pop the oldest if that makes one too many.
Slide(s, x) == IF Len(s) >= SampleCount THEN Append(Tail(s), x) ELSE Append(s, x)

BadIsOutlier(rtt) == 2 * rtt > Median2(Times(rtts))

\* The last line of _is_rtt_outlier; a positive history has a positive median.
IsOutlier(rtt) == 2 * rtt > Multiplier * Median2(Times(rtts))

Abs(n) == IF n < 0 THEN -n ELSE n
Smaller(a, b) == IF a < b THEN a ELSE b
Larger(a, b) == IF a < b THEN b ELSE a

-----------------------------------------------------------------------------
(* The sync thread                                                         *)

\* The loop finds a reference, read without the lock, and calls sync_once; under
\* an injected partition the call is left out.
DoSync ==
    /\ thread.pc = "idle"
    /\ reference # NoReference
    /\ thread' = IF partition THEN [Idle EXCEPT !.pc = "adapting"]
                 ELSE [Idle EXCEPT !.pc = "calling", !.asked = reference]
    /\ UNCHANGED <<window, prev2, interval, outside>>

Got(sample) ==
    /\ thread' = [thread EXCEPT !.pc = "sampled", !.sample = sample]
    /\ UNCHANGED <<window, prev2, interval, outside>>

\* The reference reads its clock when the request arrives; the caller takes it
\* for the middle of the round trip.
Answer ==
    /\ thread.pc = "calling"
    /\ thread.asked \in reachable
    /\ \E trip \in Trips :
         LET rtt == trip[1] + trip[2]
             served == trip[1] + Skew[thread.asked]
         IN Got([from |-> thread.asked, offset |-> served - rtt \div 2, rtt |-> rtt])

\* An error makes up a response of a server one millisecond ahead.
CallFails ==
    /\ thread.pc = "calling"
    /\ thread.asked \notin reachable
    /\ \E rtt \in StubTimes : Got([from |-> Stub, offset |-> StubOffset, rtt |-> rtt])

Goto(pc) ==
    /\ thread' = [thread EXCEPT !.pc = pc]
    /\ UNCHANGED <<window, prev2, interval, outside>>

\* _is_rtt_outlier, first look: whether there is history enough.
CheckHistory ==
    /\ thread.pc = "sampled"
    /\ IF thread.sample.rtt = 0 \/ Len(rtts) < 3 THEN Goto("adding") ELSE Goto("judging")

\* Second look: the median.  statistics.median of an empty list raises, which
\* ends the thread.
Judge ==
    /\ thread.pc = "judging"
    /\ IF rtts = <<>> THEN Goto("dead")
       ELSE IF IsOutlier(thread.sample.rtt) THEN Goto("rejecting") ELSE Goto("adding")

\* Third look, for the record of the rejection: the median again.
Reject ==
    /\ thread.pc = "rejecting"
    /\ IF rtts = <<>> THEN Goto("dead") ELSE Goto("adapting")

\* The rest of _add_sample, under the lock.
TakeIn(x) ==
    /\ samples' = Slide(samples, [from |-> x.from, offset |-> x.offset])
    /\ rtts' = IF x.rtt > 0 THEN Slide(rtts, [from |-> x.from, rtt |-> x.rtt]) ELSE rtts
    /\ offset2' = Median2(Offsets(samples'))

AddSample ==
    /\ thread.pc = "adding"
    /\ TakeIn(thread.sample)
    /\ thread' = [thread EXCEPT !.pc = "adapting"]
    /\ UNCHANGED <<prev2, interval, outside>>

Adapted(drift2) ==
    IF drift2 > 2 * Threshold THEN Larger(MinInterval, interval \div 2)
    ELSE Smaller(MaxInterval, (interval * 6) \div 5)

BadAdaptInterval ==
    /\ thread.pc = "adapting"
    /\ interval' = Adapted(Abs(offset2 - prev2))
    /\ thread' = Idle
    /\ UNCHANGED <<window, prev2, outside>>

AdaptInterval ==
    /\ thread.pc = "adapting"
    /\ prev2' = offset2
    /\ interval' = Adapted(Abs(offset2 - prev2))
    /\ thread' = Idle
    /\ UNCHANGED <<window, outside>>

SyncLoop ==
    DoSync \/ Answer \/ CallFails \/ CheckHistory \/ Judge \/ Reject \/ AddSample \/ AdaptInterval

-----------------------------------------------------------------------------
(* The other thread, and the network                                       *)

BadSetReference(r) ==
    /\ changes < MaxChanges /\ changes' = changes + 1
    /\ reference' = r
    /\ samples' = <<>> /\ offset2' = 0
    /\ UNCHANGED <<rtts, prev2, interval, thread, reachable, partition, injector, corrupted>>

\* set_reference, after an election that any node may win, the one already
\* followed included.  _prev_offset stays.
SetReference(r) ==
    /\ changes < MaxChanges /\ changes' = changes + 1
    /\ reference' = r
    /\ samples' = <<>> /\ rtts' = <<>> /\ offset2' = 0
    /\ UNCHANGED <<prev2, interval, thread, reachable, partition, injector, corrupted>>

\* The nodes that answer in time become others.
Reach(S) ==
    /\ reachable' = S
    /\ UNCHANGED <<reference, window, prev2, interval, thread, partition, injector,
                   changes, corrupted>>

-----------------------------------------------------------------------------
(* FaultInjector, enabled; a test's thread calls it.                       *)

\* simulate_partition, and heal_partition or clear_all.
Partition(on) ==
    /\ partition' = on
    /\ UNCHANGED <<reference, window, prev2, interval, thread, reachable, injector,
                   changes, corrupted>>

\* corrupt_sample calls _add_sample, whose looks at the history are those of
\* CheckHistory and Judge; an exception is the caller's.
CorruptSample(x) ==
    /\ injector.pc = "idle"
    /\ corrupted < MaxCorrupt /\ corrupted' = corrupted + 1
    /\ injector' = [pc |-> IF Len(rtts) < 3 THEN "adding" ELSE "judging", sample |-> x]
    /\ UNCHANGED <<window, prev2, interval, thread, reference, reachable, partition, changes>>

JudgeCorrupt ==
    /\ injector.pc = "judging"
    /\ injector' = IF rtts = <<>> \/ IsOutlier(injector.sample.rtt) THEN NoInjection
                   ELSE [pc |-> "adding", sample |-> injector.sample]
    /\ UNCHANGED <<window, prev2, interval, thread, reference, reachable, partition,
                   changes, corrupted>>

AddCorrupt ==
    /\ injector.pc = "adding"
    /\ TakeIn(injector.sample)
    /\ injector' = NoInjection
    /\ UNCHANGED <<prev2, interval, thread, reference, reachable, partition, changes, corrupted>>

Next ==
    \/ SyncLoop
    \/ \E r \in Reference : SetReference(r)
    \/ \E S \in SUBSET Reference : Reach(S)
    \/ \E on \in BOOLEAN : Partition(on)
    \/ \E x \in Corrupt : CorruptSample(x)
    \/ JudgeCorrupt \/ AddCorrupt

Spec == Init /\ [][Next]_vars

\* The sync thread is scheduled, and a call returns within its timeout.
FairSpec == Spec /\ WF_vars(SyncLoop)

-----------------------------------------------------------------------------
(* Properties                                                              *)

Origin == Reference \union {Stub}

\* The type invariant; the windows keep to their size, and the offset is the
\* median of the window it is read with.
TypeOK ==
    /\ reference \in Reference \union {NoReference}
    /\ samples \in Seq([from : Origin, offset : Int]) /\ Len(samples) <= SampleCount
    /\ rtts \in Seq([from : Origin, rtt : Nat \ {0}]) /\ Len(rtts) <= SampleCount
    /\ offset2 = IF samples = <<>> THEN 0 ELSE Median2(Offsets(samples))
    /\ prev2 \in Int
    /\ interval \in MinInterval..MaxInterval
    /\ thread \in [pc : {"idle", "calling", "sampled", "judging", "rejecting", "adding",
                         "adapting", "dead"},
                   asked : Reference \union {NoReference},
                   sample : [from : Origin \union {NoReference}, offset : Int, rtt : Nat]]
    /\ reachable \subseteq Reference
    /\ partition \in BOOLEAN
    /\ injector \in [pc : {"idle", "judging", "adding"}, sample : Corrupt \union {NoSample}]
    /\ injector.pc # "idle" => injector.sample \in Corrupt
    /\ changes \in 0..MaxChanges /\ corrupted \in 0..MaxCorrupt

Late(s) == {i \in DOMAIN s : s[i].from \notin {reference, Stub}}

InFlight ==
    /\ thread.pc \in {"calling", "sampled", "judging", "rejecting", "adding"}
    /\ thread.asked # reference

\* A change of reference leaves at most one sample of an earlier reference to
\* disturb the new window, the one that was under way; set_reference clears the
\* rest (time_sync.py:248-260), of the round trips as of the offsets.
OneLateSample ==
    /\ Cardinality(Late(samples)) + (IF InFlight THEN 1 ELSE 0) <= 1
    /\ Cardinality(Late(rtts)) + (IF InFlight THEN 1 ELSE 0) <= 1

Own(s, r) == {i \in DOMAIN s : s[i].from = r}

LongestTrip == CHOOSE n \in {trip[1] + trip[2] : trip \in Trips} :
                   \A trip \in Trips : trip[1] + trip[2] <= n

MostlyOwn ==
    reference # NoReference /\ 2 * Cardinality(Own(samples, reference)) > Len(samples)

NearSkew(o2) == Abs(o2 - 2 * Skew[reference]) <= LongestTrip

\* Cristian's estimate with the median (time_sync.py:345-372): when more than
\* half of the window are answers of the reference, the offset is off its true
\* skew by half a round trip at most, whatever the other samples say.
MajorityAligns == MostlyOwn => NearSkew(offset2)

Follows(r) == reference = r /\ r \in reachable /\ ~partition

\* All samples are the reference's, so the offset is right.
AlignedWith(r) == samples # <<>> /\ Own(samples, r) = DOMAIN samples

\* The history of round trips is so short-timed that an answer is an outlier.
LockedOut ==
    /\ Len(rtts) >= 3
    /\ \E trip \in Trips : 2 * (trip[1] + trip[2]) > Multiplier * Median2(Times(rtts))

\* A reference that stays, and answers from some time on, ends up being the only
\* origin of the window, in spite of outages and changes before; unless simulated
\* round trips lock it out, or the race of Judge ended the thread.
EventuallyAligned ==
    \A r \in Reference :
        <>[]Follows(r) => <>[]AlignedWith(r) \/ <>[]LockedOut \/ <>(thread.pc = "dead")

\* set_reference leaves the old _prev_offset to be compared with (time_sync.py:248-260,
\* 283-292).  When most of the window is the reference's, and no round trip exceeds
\* the drift threshold, it misleads one round only: that round leaves a previous
\* offset that is right, and a round which finds one never polls faster.
MisledOnce ==
    [][LongestTrip <= Threshold /\ MostlyOwn /\ AdaptInterval =>
         /\ NearSkew(prev2)'
         /\ NearSkew(prev2) => interval' >= interval]_vars
=============================================================================
