--------------------------- MODULE TimeSyncProofs ---------------------------
(***************************************************************************)
(* Proofs about TimeSync, for any references, skews, round trips and size  *)
(* of the window: at most one sample outlives a change of reference, and   *)
(* the median is the reference's time as soon as most of the window is.    *)
(* Last, the step behind EventuallyAligned, the window of a reference that *)
(* answers turns over, and that polling settles.                           *)
(***************************************************************************)
EXTENDS TimeSync, FiniteSetTheorems, SequenceTheorems, WellFoundedInduction, TLAPS

-----------------------------------------------------------------------------
(* The least and the greatest of finitely many integers.                   *)

LEMMA Least ==
    ASSUME NEW D, IsFiniteSet(D), D # {}, NEW f, \A i \in D : f[i] \in Int
    PROVE  \E i \in D : \A j \in D : f[i] <= f[j]
<1> DEFINE Under(i) == {j \in D : f[j] < f[i]}
           Unders == {Under(i) : i \in D}
<1>1. Unders \subseteq FiniteSubsetsOf(D) /\ Unders # {}
  <2>1. Unders \subseteq SUBSET D
    OBVIOUS
  <2>2. FiniteSubsetsOf(D) = SUBSET D
    BY FS_FiniteSubsetsOfFinite
  <2>3. Unders # {}
    OBVIOUS
  <2> HIDE DEF Unders
  <2>4. QED
    BY <2>1, <2>2, <2>3
<1>2. PICK x \in Unders : \A y \in Unders : <<y, x>> \notin StrictSubsetOrdering(D)
  <2> HIDE DEF Unders
  <2>1. QED
    BY <1>1, FS_StrictSubsetOrderingWellFounded, WFMin
<1>3. PICK i \in D : x = Under(i)
  BY <1>2
<1>4. ASSUME NEW j \in D, f[j] < f[i] PROVE FALSE
  <2>1. Under(j) \subseteq Under(i) /\ j \in Under(i) /\ j \notin Under(j)
    BY <1>4
  <2>2. <<Under(j), x>> \in StrictSubsetOrdering(D)
    BY <1>3, <2>1 DEF StrictSubsetOrdering
  <2>3. QED
    BY <1>2, <2>2
<1>5. QED
  BY <1>4

LEMMA Greatest ==
    ASSUME NEW D, IsFiniteSet(D), D # {}, NEW f, \A i \in D : f[i] \in Int
    PROVE  \E i \in D : \A j \in D : f[j] <= f[i]
<1> DEFINE g == [i \in D |-> -f[i]]
<1>1. \A i \in D : g[i] \in Int /\ g[i] = -f[i]
  OBVIOUS
<1> HIDE DEF g
<1>2. \E i \in D : \A j \in D : g[i] <= g[j]
  BY <1>1, Least
<1>3. QED
  BY <1>1, <1>2

-----------------------------------------------------------------------------
(* The median.                                                             *)

LEMMA PlacesOK ==
    ASSUME NEW s \in Seq(Int)
    PROVE  /\ DOMAIN s = 1..Len(s) /\ Len(s) \in Nat /\ \A i \in DOMAIN s : s[i] \in Int
           /\ IsFiniteSet(DOMAIN s) /\ Cardinality(DOMAIN s) = Len(s)
<1>1. DOMAIN s = 1..Len(s) /\ Len(s) \in Nat /\ s \in [1..Len(s) -> Int]
  BY LenProperties
<1>2. IsFiniteSet(1..Len(s)) /\ Cardinality(1..Len(s)) = Len(s)
  BY <1>1, FS_Interval
<1>3. QED
  BY <1>1, <1>2

\* Every rank of a sequence has its value.
LEMMA RankedOK ==
    ASSUME NEW s \in Seq(Int), NEW k \in 1..Len(s)
    PROVE  /\ Ranked(s, k) \in Int
           /\ Cardinality({i \in DOMAIN s : s[i] < Ranked(s, k)}) < k
           /\ Cardinality({i \in DOMAIN s : s[i] <= Ranked(s, k)}) >= k
<1> DEFINE D == DOMAIN s
           Below(v) == {i \in D : s[i] < v}
           UpTo(v) == {i \in D : s[i] <= v}
           E == {i \in D : Cardinality(UpTo(s[i])) >= k}
<1>1. /\ k \in Nat /\ 1 <= k /\ k <= Len(s) /\ Len(s) \in Nat
      /\ IsFiniteSet(D) /\ Cardinality(D) = Len(s) /\ \A i \in D : s[i] \in Int
  BY PlacesOK
<1>2. \A T \in SUBSET D : IsFiniteSet(T) /\ Cardinality(T) \in Nat
  BY <1>1, FS_Subset, FS_CardinalityType
<1>3. D # {}
  BY <1>1, FS_EmptySet
<1>4. E # {}
  <2>1. PICK i \in D : \A j \in D : s[j] <= s[i]
    BY <1>1, <1>3, Greatest
  <2>2. UpTo(s[i]) = D
    BY <2>1
  <2>3. QED
    BY <1>1, <2>1, <2>2
<1>5. PICK i \in E : \A j \in E : s[i] <= s[j]
  <2>1. IsFiniteSet(E) /\ \A j \in E : s[j] \in Int
    BY <1>1, <1>2
  <2> HIDE DEF E
  <2>2. QED
    BY <1>4, <2>1, Least
<1>6. i \in D /\ s[i] \in Int /\ Cardinality(UpTo(s[i])) >= k
  BY <1>1, <1>5
<1>7. ASSUME Cardinality(Below(s[i])) >= k PROVE FALSE
  <2> DEFINE B == Below(s[i])
  <2>1. IsFiniteSet(B) /\ B # {} /\ \A j \in B : s[j] \in Int
    BY <1>1, <1>2, <1>7, FS_EmptySet
  <2>2. PICK h \in B : \A j \in B : s[j] <= s[h]
    <3> HIDE DEF B
    <3>1. QED
      BY <2>1, Greatest
  <2>3. UpTo(s[h]) = B
    BY <1>1, <1>6, <2>2
  <2>4. h \in E /\ s[h] < s[i]
    BY <1>7, <2>2, <2>3
  <2>5. QED
    BY <1>1, <1>5, <1>6, <2>4
<1>8. Cardinality(Below(s[i])) < k
  BY <1>1, <1>2, <1>7
<1>9. \E v \in {s[j] : j \in D} : Cardinality(Below(v)) < k /\ Cardinality(UpTo(v)) >= k
  BY <1>6, <1>8
<1>10. /\ Ranked(s, k) \in {s[j] : j \in D}
       /\ Cardinality(Below(Ranked(s, k))) < k /\ Cardinality(UpTo(Ranked(s, k))) >= k
  BY <1>9 DEF Ranked
<1>11. QED
  BY <1>1, <1>10

\* A value whose rank falls among a set of places that is large enough lies
\* between two values of that set.
LEMMA RankedAmong ==
    ASSUME NEW s \in Seq(Int), NEW k \in 1..Len(s), NEW Most \in SUBSET DOMAIN s,
           Cardinality(Most) >= k, Cardinality(Most) + k > Len(s)
    PROVE  \E i, j \in Most : s[i] <= Ranked(s, k) /\ Ranked(s, k) <= s[j]
<1> DEFINE v == Ranked(s, k)
           Below == {i \in DOMAIN s : s[i] < v}
           UpTo == {i \in DOMAIN s : s[i] <= v}
<1>1. v \in Int /\ Cardinality(Below) < k /\ Cardinality(UpTo) >= k
  BY RankedOK
<1>2. /\ Len(s) \in Nat /\ k \in Nat /\ IsFiniteSet(DOMAIN s)
      /\ Cardinality(DOMAIN s) = Len(s) /\ \A i \in DOMAIN s : s[i] \in Int
  BY PlacesOK
<1>3. \A T \in SUBSET DOMAIN s : IsFiniteSet(T) /\ Cardinality(T) \in Nat
  BY <1>2, FS_Subset, FS_CardinalityType
<1> HIDE DEF v
<1>4. \E i \in Most : s[i] <= v
  <2>1. UpTo \subseteq DOMAIN s /\ Cardinality(UpTo) \in Nat /\ Cardinality(Most) \in Nat
    BY <1>3
  <2>2. Cardinality(UpTo) + Cardinality(Most) > Cardinality(DOMAIN s)
    BY <1>1, <1>2, <2>1
  <2>3. UpTo \intersect Most # {}
    BY <1>2, <2>1, <2>2, FS_MajoritiesIntersect
  <2>4. QED
    BY <2>3
<1>5. \E j \in Most : v <= s[j]
  <2>1. SUFFICES ASSUME \A j \in Most : ~(v <= s[j]) PROVE FALSE
    OBVIOUS
  <2>2. Most \subseteq Below
    BY <1>1, <1>2, <2>1
  <2>3. Cardinality(Most) <= Cardinality(Below)
    BY <1>3, <2>2, FS_Subset
  <2>4. QED
    BY <1>1, <1>2, <1>3, <2>3
<1>6. QED
  BY <1>4, <1>5 DEF v

\* The two ranks in the middle.
LEMMA Middle ==
    ASSUME NEW s \in Seq(Int), s # <<>>
    PROVE  /\ (Len(s) + 1) \div 2 \in 1..Len(s) /\ Len(s) \div 2 + 1 \in 1..Len(s)
           /\ \A n \in Nat : 2 * n > Len(s) =>
                /\ n >= (Len(s) + 1) \div 2 /\ n + (Len(s) + 1) \div 2 > Len(s)
                /\ n >= Len(s) \div 2 + 1 /\ n + (Len(s) \div 2 + 1) > Len(s)
<1>1. Len(s) \in Nat \ {0}
  BY PlacesOK, EmptySeq
<1>2. QED
  BY <1>1

LEMMA MedianOK ==
    ASSUME NEW s \in Seq(Int), s # <<>> PROVE Median2(s) \in Int
<1>1. (Len(s) + 1) \div 2 \in 1..Len(s) /\ Len(s) \div 2 + 1 \in 1..Len(s)
  BY Middle
<1>2. \A k \in 1..Len(s) : Ranked(s, k) \in Int
  BY RankedOK
<1>3. QED
  BY <1>1, <1>2 DEF Median2

\* The median is where most of the values are.
LEMMA MajorityMedian ==
    ASSUME NEW s \in Seq(Int), NEW Most \in SUBSET DOMAIN s, 2 * Cardinality(Most) > Len(s),
           NEW c \in Int, NEW d \in Int,
           \A i \in Most : c - d <= 2 * s[i] /\ 2 * s[i] <= c + d
    PROVE  c - d <= Median2(s) /\ Median2(s) <= c + d
<1>1. Len(s) \in Nat /\ Cardinality(Most) \in Nat /\ \A i \in DOMAIN s : s[i] \in Int
  BY PlacesOK, FS_Subset, FS_CardinalityType
<1>2. s # <<>>
  <2>1. ASSUME s = <<>> PROVE FALSE
    <3>1. Most = {} /\ Len(s) = 0
      BY <2>1
    <3>2. QED
      BY <3>1, FS_EmptySet
  <2>2. QED
    BY <2>1
<1> DEFINE k1 == (Len(s) + 1) \div 2
           k2 == Len(s) \div 2 + 1
<1>3. /\ k1 \in 1..Len(s) /\ k2 \in 1..Len(s)
      /\ Cardinality(Most) >= k1 /\ Cardinality(Most) + k1 > Len(s)
      /\ Cardinality(Most) >= k2 /\ Cardinality(Most) + k2 > Len(s)
  BY <1>1, <1>2, Middle
<1>4. Median2(s) = Ranked(s, k1) + Ranked(s, k2)
  BY DEF Median2
<1> HIDE DEF k1, k2
<1>5. ASSUME NEW k \in 1..Len(s), Cardinality(Most) >= k, Cardinality(Most) + k > Len(s)
      PROVE  Ranked(s, k) \in Int /\ c - d <= 2 * Ranked(s, k) /\ 2 * Ranked(s, k) <= c + d
  <2>1. Ranked(s, k) \in Int
    BY RankedOK
  <2>2. PICK i \in Most, j \in Most : s[i] <= Ranked(s, k) /\ Ranked(s, k) <= s[j]
    BY <1>5, RankedAmong
  <2> DEFINE v == Ranked(s, k)
  <2>3. s[i] \in Int /\ s[j] \in Int
    BY <1>1
  <2>4. c - d <= 2 * s[i] /\ 2 * s[j] <= c + d
    OBVIOUS
  <2> HIDE DEF v
  <2>5. c - d <= 2 * v /\ 2 * v <= c + d
    BY <2>1, <2>2, <2>3, <2>4 DEF v
  <2>6. QED
    BY <2>1, <2>5 DEF v
<1>6. /\ Ranked(s, k1) \in Int /\ c - d <= 2 * Ranked(s, k1) /\ 2 * Ranked(s, k1) <= c + d
      /\ Ranked(s, k2) \in Int /\ c - d <= 2 * Ranked(s, k2) /\ 2 * Ranked(s, k2) <= c + d
  BY <1>3, <1>5
<1>7. QED
  BY <1>4, <1>6

-----------------------------------------------------------------------------
(* The windows.                                                            *)

LEMMA SkewsOK ==
    /\ OriginAssumption /\ Skew \in [Reference -> Int] /\ StubOffset \in Int
    /\ Trips \subseteq Nat \X Nat /\ IsFiniteSet(Trips) /\ StubTimes \subseteq Nat
    /\ Corrupt \subseteq [from : {Stub}, offset : Int, rtt : Nat \ {0}]
    /\ SampleCount \in Nat \ {0}
BY OriginAssumption, ClockAssumption, ParameterAssumption DEF ClockAssumption, ParameterAssumption

\* t has x last, behind what it keeps of s in order.
Slid(s, x, t) ==
    /\ Len(t) \in 1..SampleCount /\ t[Len(t)] = x
    /\ \E d \in {0, 1} : /\ Len(t) = Len(s) + 1 - d
                         /\ \A i \in 1..Len(t) - 1 : t[i] = s[i + d]

LEMMA SlideOK ==
    ASSUME NEW S, NEW s \in Seq(S), Len(s) <= SampleCount, NEW x \in S
    PROVE  Slide(s, x) \in Seq(S) /\ Slid(s, x, Slide(s, x))
<1>1. Len(s) \in Nat /\ SampleCount \in Nat \ {0}
  BY SkewsOK, LenProperties
<1>2. CASE Len(s) < SampleCount
  <2> DEFINE t == Append(s, x)
  <2>1. /\ t \in Seq(S) /\ Len(t) = Len(s) + 1 /\ t[Len(s) + 1] = x
        /\ \A i \in 1..Len(s) : t[i] = s[i]
    BY AppendProperties
  <2> HIDE DEF t
  <2>2. /\ Len(t) \in 1..SampleCount /\ t[Len(t)] = x
        /\ \A i \in 1..Len(t) - 1 : t[i] = s[i + 0]
        /\ Len(t) = Len(s) + 1 - 0
    BY <1>1, <1>2, <2>1
  <2>3. Slide(s, x) = t
    BY <1>1, <1>2 DEF Slide, t
  <2>4. QED
    BY <2>1, <2>2, <2>3 DEF Slid
<1>3. CASE Len(s) = SampleCount
  <2> DEFINE u == Tail(s)
             t == Append(u, x)
  <2>1. s # <<>>
    BY <1>1, <1>3
  <2>2. u \in Seq(S) /\ Len(u) = Len(s) - 1 /\ \A i \in 1..Len(u) : u[i] = s[i + 1]
    BY <2>1, HeadTailProperties
  <2> HIDE DEF u
  <2>3. /\ t \in Seq(S) /\ Len(t) = Len(u) + 1 /\ t[Len(u) + 1] = x
        /\ \A i \in 1..Len(u) : t[i] = u[i]
    BY <2>2, AppendProperties
  <2> HIDE DEF t
  <2>4. /\ Len(t) \in 1..SampleCount /\ t[Len(t)] = x
        /\ \A i \in 1..Len(t) - 1 : t[i] = s[i + 1]
        /\ Len(t) = Len(s) + 1 - 1
    BY <1>1, <1>3, <2>2, <2>3
  <2>5. Slide(s, x) = t
    BY <1>1, <1>3 DEF Slide, t, u
  <2>6. QED
    BY <2>3, <2>4, <2>5 DEF Slid
<1>4. QED
  BY <1>1, <1>2, <1>3

\* The longest round trip there is.
LEMMA LongestTripOK ==
    Trips # {} =>
        LongestTrip \in Nat /\ \A trip \in Trips : trip[1] + trip[2] <= LongestTrip
<1> SUFFICES ASSUME Trips # {}
             PROVE  LongestTrip \in Nat /\ \A trip \in Trips : trip[1] + trip[2] <= LongestTrip
  OBVIOUS
<1> DEFINE f == [trip \in Trips |-> trip[1] + trip[2]]
<1>1. \A trip \in Trips : f[trip] \in Nat /\ f[trip] = trip[1] + trip[2]
  BY SkewsOK
<1> HIDE DEF f
<1>2. PICK longest \in Trips : \A trip \in Trips : f[trip] <= f[longest]
  BY <1>1, SkewsOK, Greatest
<1>3. \E n \in {trip[1] + trip[2] : trip \in Trips} : \A trip \in Trips : trip[1] + trip[2] <= n
  BY <1>1, <1>2
<1>4. /\ LongestTrip \in {trip[1] + trip[2] : trip \in Trips}
      /\ \A trip \in Trips : trip[1] + trip[2] <= LongestTrip
  BY <1>3 DEF LongestTrip
<1>5. QED
  BY <1>4, SkewsOK

-----------------------------------------------------------------------------
(* The invariant.                                                          *)

Sample == [from : Origin, offset : Int]
RoundTrip == [from : Origin, rtt : Nat \ {0}]
Call == [from : Origin \union {NoReference}, offset : Int, rtt : Nat]

Thread ==
    [pc : {"idle", "calling", "sampled", "judging", "rejecting", "adding", "adapting", "dead"},
     asked : Reference \union {NoReference}, sample : Call]

\* An answer of a reference is off its skew by half its round trip at most.
Near(x) ==
    x.from \in Reference =>
        /\ LongestTrip \in Nat
        /\ 2 * Skew[x.from] - LongestTrip <= 2 * x.offset
        /\ 2 * x.offset <= 2 * Skew[x.from] + LongestTrip

\* The sync thread holds an answer of the reference it asked, or a simulated one.
ThreadOK ==
    /\ thread.pc \in {"calling", "sampled", "judging", "rejecting", "adding"} =>
         thread.asked \in Reference
    /\ thread.pc \in {"sampled", "judging", "rejecting", "adding"} =>
         thread.sample.from \in {thread.asked, Stub} /\ Near(thread.sample)

\* One late sample at most, and none while another is under way.
LateOK(s) ==
    /\ \A i, j \in Late(s) : i = j
    /\ InFlight => Late(s) = {}

WindowOK == \A i \in DOMAIN samples : Near(samples[i])

IInv == TypeOK /\ ThreadOK /\ WindowOK /\ LateOK(samples) /\ LateOK(rtts)

Injector == [pc : {"idle", "judging", "adding"}, sample : Corrupt \union {NoSample}]

Types ==
    /\ reference \in Reference \union {NoReference}
    /\ samples \in Seq(Sample) /\ Len(samples) <= SampleCount
    /\ rtts \in Seq(RoundTrip) /\ Len(rtts) <= SampleCount
    /\ offset2 = IF samples = <<>> THEN 0 ELSE Median2(Offsets(samples))
    /\ prev2 \in Int
    /\ interval \in MinInterval..MaxInterval
    /\ thread \in Thread
    /\ reachable \subseteq Reference
    /\ partition \in BOOLEAN
    /\ injector \in Injector
    /\ injector.pc # "idle" => injector.sample \in Corrupt
    /\ changes \in 0..MaxChanges /\ corrupted \in 0..MaxCorrupt

LEMMA TypesOK == TypeOK <=> Types
BY DEF TypeOK, Types, Sample, RoundTrip, Thread, Call, Injector

LEMMA OffsetsOK ==
    ASSUME NEW s \in Seq(Sample)
    PROVE  /\ Offsets(s) \in Seq(Int) /\ Len(Offsets(s)) = Len(s)
           /\ DOMAIN Offsets(s) = DOMAIN s /\ DOMAIN s = 1..Len(s)
           /\ \A i \in DOMAIN s : Offsets(s)[i] = s[i].offset
<1>1. Len(s) \in Nat /\ DOMAIN s = 1..Len(s) /\ s \in [1..Len(s) -> Sample]
  BY LenProperties
<1>2. Offsets(s) \in [1..Len(s) -> Int]
  BY <1>1 DEF Offsets, Sample
<1>3. Offsets(s) \in Seq(Int) /\ Len(Offsets(s)) = Len(s)
  BY <1>1, <1>2
<1>4. QED
  BY <1>1, <1>3 DEF Offsets

LEMMA OffsetIsInt == ASSUME Types PROVE offset2 \in Int
<1>1. CASE samples = <<>>
  BY <1>1 DEF Types
<1>2. CASE samples # <<>>
  <2>1. Offsets(samples) \in Seq(Int) /\ Len(Offsets(samples)) = Len(samples) /\ Len(samples) # 0
    BY <1>2, OffsetsOK, EmptySeq DEF Types
  <2>2. Offsets(samples) # <<>>
    BY <2>1
  <2>3. QED
    BY <1>2, <2>1, <2>2, MedianOK DEF Types
<1>3. QED
  BY <1>1, <1>2

-----------------------------------------------------------------------------
(* What the steps do to it.                                                *)

\* A window takes x in: one more is late at most if x is, which is then the one
\* that was under way.
LEMMA SlideKeepsLate ==
    ASSUME NEW S, NEW s \in Seq(S), Len(s) <= SampleCount, NEW x \in S, LateOK(s),
           x.from \notin {reference, Stub} => InFlight
    PROVE  /\ \A i, j \in Late(Slide(s, x)) : i = j
           /\ x.from \in {reference, Stub} /\ Late(s) = {} => Late(Slide(s, x)) = {}
<1> DEFINE t == Slide(s, x)
<1>1. /\ t \in Seq(S) /\ Len(t) \in 1..SampleCount /\ t[Len(t)] = x
      /\ \E d \in {0, 1} : /\ Len(t) = Len(s) + 1 - d
                           /\ \A i \in 1..Len(t) - 1 : t[i] = s[i + d]
  <2>1. t \in Seq(S) /\ Slid(s, x, t)
    BY SlideOK
  <2> HIDE DEF t
  <2>2. QED
    BY <2>1 DEF Slid
<1> HIDE DEF t
<1>2. PICK d \in {0, 1} : Len(t) = Len(s) + 1 - d /\ \A i \in 1..Len(t) - 1 : t[i] = s[i + d]
  BY <1>1
<1>3. /\ DOMAIN s = 1..Len(s) /\ Len(s) \in Nat /\ DOMAIN t = 1..Len(t) /\ Len(t) \in Nat
  BY <1>1, LenProperties
<1>4. \A i \in Late(t) : i = Len(t) \/ (i \in 1..Len(t) - 1 /\ i + d \in Late(s))
  BY <1>2, <1>3 DEF Late
<1>5. Len(t) \in Late(t) => x.from \notin {reference, Stub}
  BY <1>1 DEF Late
<1>6. Late(s) = {} \/ Len(t) \notin Late(t)
  BY <1>5 DEF LateOK
<1>7. \A i, j \in Late(t) : i = j
  <2>1. CASE Late(s) = {}
    BY <1>4, <2>1
  <2>2. CASE Len(t) \notin Late(t)
    <3>1. ASSUME NEW i \in Late(t), NEW j \in Late(t) PROVE i = j
      <4>1. i \in Nat /\ j \in Nat /\ i + d \in Late(s) /\ j + d \in Late(s)
        BY <1>3, <1>4, <2>2
      <4>2. i + d = j + d
        BY <4>1 DEF LateOK
      <4>3. QED
        BY <4>1, <4>2
    <3>2. QED
      BY <3>1
  <2>3. QED
    BY <1>6, <2>1, <2>2
<1>8. QED
  BY <1>4, <1>5, <1>7 DEF t

\* Both windows take x in.
LEMMA TakeInKeeps ==
    ASSUME IInv, NEW x \in Call, x.from \in Origin, Near(x), TakeIn(x),
           x.from \notin {reference, Stub} => InFlight
    PROVE  /\ samples' \in Seq(Sample) /\ Len(samples') <= SampleCount
           /\ rtts' \in Seq(RoundTrip) /\ Len(rtts') <= SampleCount
           /\ samples' # <<>> /\ offset2' = Median2(Offsets(samples'))
           /\ \A i \in DOMAIN samples' : Near(samples'[i])
           /\ \A i, j \in Late(samples') : i = j
           /\ \A i, j \in Late(rtts') : i = j
           /\ x.from \in {reference, Stub} /\ InFlight => Late(samples') = {} /\ Late(rtts') = {}
<1> DEFINE a == [from |-> x.from, offset |-> x.offset]
           b == [from |-> x.from, rtt |-> x.rtt]
<1>1. Types /\ ThreadOK /\ WindowOK /\ LateOK(samples) /\ LateOK(rtts)
  BY TypesOK DEF IInv
<1>2. a \in Sample /\ a.from = x.from /\ Near(a)
  BY DEF Call, Sample, Near
<1>3. samples' = Slide(samples, a) /\ offset2' = Median2(Offsets(samples'))
  BY DEF TakeIn
<1> HIDE DEF a
<1>4. /\ samples \in Seq(Sample) /\ Len(samples) <= SampleCount
      /\ rtts \in Seq(RoundTrip) /\ Len(rtts) <= SampleCount
  BY <1>1 DEF Types
<1>5. /\ samples' \in Seq(Sample) /\ Len(samples') \in 1..SampleCount
      /\ samples'[Len(samples')] = a
      /\ \E d \in {0, 1} : /\ Len(samples') = Len(samples) + 1 - d
                           /\ \A i \in 1..Len(samples') - 1 : samples'[i] = samples[i + d]
  <2>1. samples' \in Seq(Sample) /\ Slid(samples, a, samples')
    BY <1>2, <1>3, <1>4, SlideOK
  <2>2. QED
    BY <2>1 DEF Slid
<1>6. samples' # <<>> /\ Len(samples') <= SampleCount
  BY <1>5, EmptySeq, SkewsOK
<1>7. \A i \in DOMAIN samples' : Near(samples'[i])
  <2>1. PICK d \in {0, 1} : /\ Len(samples') = Len(samples) + 1 - d
                           /\ \A i \in 1..Len(samples') - 1 : samples'[i] = samples[i + d]
    BY <1>5
  <2>2. /\ DOMAIN samples = 1..Len(samples) /\ Len(samples) \in Nat
        /\ DOMAIN samples' = 1..Len(samples') /\ Len(samples') \in Nat
    BY <1>4, <1>5, LenProperties
  <2>3. \A i \in DOMAIN samples' :
          i = Len(samples') \/ (i \in 1..Len(samples') - 1 /\ i + d \in DOMAIN samples)
    BY <2>1, <2>2
  <2>4. QED
    BY <1>1, <1>2, <1>5, <2>1, <2>3 DEF WindowOK
<1>8. /\ \A i, j \in Late(samples') : i = j
      /\ x.from \in {reference, Stub} /\ Late(samples) = {} => Late(samples') = {}
  BY <1>1, <1>2, <1>3, <1>4, SlideKeepsLate
<1>9. CASE x.rtt > 0
  <2>1. b \in RoundTrip /\ b.from = x.from /\ rtts' = Slide(rtts, b)
    BY <1>9 DEF Call, RoundTrip, TakeIn
  <2> HIDE DEF b
  <2>2. rtts' \in Seq(RoundTrip) /\ Len(rtts') \in 1..SampleCount
    <3>1. rtts' \in Seq(RoundTrip) /\ Slid(rtts, b, rtts')
      BY <1>4, <2>1, SlideOK
    <3>2. QED
      BY <3>1 DEF Slid
  <2>3. /\ \A i, j \in Late(rtts') : i = j
        /\ x.from \in {reference, Stub} /\ Late(rtts) = {} => Late(rtts') = {}
    BY <1>1, <1>4, <2>1, SlideKeepsLate
  <2>4. Len(rtts') <= SampleCount
    BY <2>2, SkewsOK
  <2>5. QED
    BY <1>1, <1>3, <1>5, <1>6, <1>7, <1>8, <2>2, <2>3, <2>4 DEF LateOK
<1>10. CASE ~(x.rtt > 0)
  <2>1. rtts' = rtts
    BY <1>10 DEF TakeIn
  <2>2. QED
    BY <1>1, <1>3, <1>4, <1>5, <1>6, <1>7, <1>8, <2>1 DEF LateOK
<1>11. QED
  BY <1>9, <1>10

\* The windows stay, and no call is under way that was not.
LEMMA WindowsStay ==
    ASSUME IInv, UNCHANGED <<reference, window>>, Types', ThreadOK', InFlight' => InFlight
    PROVE  IInv'
<1>1. samples' = samples /\ rtts' = rtts /\ reference' = reference
  BY DEF window
<1>2. WindowOK'
  BY <1>1 DEF IInv, WindowOK, Near
<1>3. LateOK(samples)' /\ LateOK(rtts)'
  BY <1>1 DEF IInv, LateOK, Late
<1>4. TypeOK'
  BY TypesOK DEF TypeOK, Types, Sample, RoundTrip, Thread, Call, Injector
<1>5. QED
  BY <1>2, <1>3, <1>4 DEF IInv

\* A step of the sync thread that leaves the rest alone.
LEMMA ThreadMoves ==
    ASSUME IInv, UNCHANGED <<window, prev2, interval, outside>>,
           thread' \in Thread, ThreadOK', InFlight' => InFlight
    PROVE  IInv'
<1>1. Types
  BY TypesOK DEF IInv
<1>2. Types' /\ UNCHANGED <<reference, window>>
  BY <1>1 DEF Types, window, outside
<1>3. QED
  BY <1>2, WindowsStay

LEMMA IdleOK ==
    /\ Idle \in Thread /\ Idle.pc = "idle" /\ [Idle EXCEPT !.pc = "adapting"] \in Thread
    /\ [Idle EXCEPT !.pc = "adapting"].pc = "adapting"
BY DEF Idle, NoSample, Thread, Call

LEMMA DoSyncKeeps == ASSUME IInv, DoSync PROVE IInv'
<1>1. Types /\ reference # NoReference /\ UNCHANGED <<window, prev2, interval, outside>>
  BY TypesOK DEF IInv, DoSync
<1>2. CASE partition
  <2> DEFINE z == [Idle EXCEPT !.pc = "adapting"]
  <2>1. thread' = z /\ z \in Thread /\ z.pc = "adapting"
    BY <1>2, IdleOK DEF DoSync
  <2> HIDE DEF z
  <2>2. ThreadOK' /\ ~InFlight'
    BY <2>1 DEF ThreadOK, InFlight
  <2>3. QED
    BY <1>1, <2>1, <2>2, ThreadMoves
<1>3. CASE ~partition
  <2> DEFINE z == [Idle EXCEPT !.pc = "calling", !.asked = reference]
  <2>1. thread' = z /\ reference \in Reference /\ reference' = reference
    BY <1>1, <1>3 DEF DoSync, Types, outside
  <2>2. z \in Thread /\ z.pc = "calling" /\ z.asked = reference
    BY <2>1, IdleOK DEF Thread
  <2> HIDE DEF z
  <2>3. ThreadOK' /\ ~InFlight'
    BY <2>1, <2>2 DEF ThreadOK, InFlight
  <2>4. QED
    BY <1>1, <2>1, <2>2, <2>3, ThreadMoves
<1>4. QED
  BY <1>2, <1>3

\* The call under way has brought x.
LEMMA GotKeeps ==
    ASSUME IInv, thread.pc = "calling", NEW x \in Call, Got(x),
           x.from \in {thread.asked, Stub}, Near(x)
    PROVE  IInv'
<1> DEFINE z == [thread EXCEPT !.pc = "sampled", !.sample = x]
<1>1. /\ thread \in Thread /\ thread.asked \in Reference
      /\ thread' = z /\ UNCHANGED <<window, prev2, interval, outside>>
  BY TypesOK DEF IInv, Types, ThreadOK, Got
<1>2. z \in Thread /\ z.pc = "sampled" /\ z.asked = thread.asked /\ z.sample = x
  BY <1>1 DEF Thread
<1> HIDE DEF z
<1>3. ThreadOK' /\ (InFlight' => InFlight)
  BY <1>1, <1>2 DEF ThreadOK, Near, InFlight, outside
<1>4. QED
  BY <1>1, <1>2, <1>3, ThreadMoves

\* Half the difference of the two ways is the error.
LEMMA AnswerKeeps == ASSUME IInv, Answer PROVE IInv'
<1>1. thread.pc = "calling" /\ thread.asked \in Reference
  BY DEF Answer, IInv, ThreadOK
<1>2. PICK trip \in Trips :
        Got([from |-> thread.asked,
             offset |-> (trip[1] + Skew[thread.asked]) - (trip[1] + trip[2]) \div 2,
             rtt |-> trip[1] + trip[2]])
  BY DEF Answer
<1> DEFINE skew == Skew[thread.asked]
           rtt == trip[1] + trip[2]
           offset == (trip[1] + skew) - rtt \div 2
           x == [from |-> thread.asked, offset |-> offset, rtt |-> rtt]
<1>3. /\ trip[1] \in Nat /\ trip[2] \in Nat /\ (trip[1] - trip[2]) % 2 = 0 /\ skew \in Int
  BY <1>1, SkewsOK, ClockAssumption DEF ClockAssumption
<1>4. LongestTrip \in Nat /\ rtt <= LongestTrip
  BY LongestTripOK
<1>5. Got(x)
  BY <1>2
<1> HIDE DEF skew
<1>6. offset \in Int /\ rtt \in Nat /\ 2 * offset = 2 * skew + trip[1] - trip[2]
  BY <1>3
<1>7. 2 * skew - LongestTrip <= 2 * offset /\ 2 * offset <= 2 * skew + LongestTrip
  BY <1>3, <1>4, <1>6
<1> HIDE DEF offset, rtt
<1>8. x \in Call /\ x.from = thread.asked /\ x.offset = offset
  BY <1>1, <1>6 DEF Call, Origin
<1>9. Near(x)
  BY <1>1, <1>4, <1>7, <1>8 DEF Near, skew
<1> HIDE DEF x
<1>10. QED
  BY <1>1, <1>5, <1>8, <1>9, GotKeeps

LEMMA CallFailsKeeps == ASSUME IInv, CallFails PROVE IInv'
<1>1. thread.pc = "calling"
  BY DEF CallFails
<1>2. PICK rtt \in StubTimes : Got([from |-> Stub, offset |-> StubOffset, rtt |-> rtt])
  BY DEF CallFails
<1> DEFINE x == [from |-> Stub, offset |-> StubOffset, rtt |-> rtt]
<1>3. x \in Call /\ x.from = Stub
  BY SkewsOK DEF Call, Origin
<1>4. Got(x)
  BY <1>2
<1> HIDE DEF x
<1>5. Near(x)
  BY <1>3, SkewsOK DEF Near, OriginAssumption
<1>6. QED
  BY <1>1, <1>3, <1>4, <1>5, GotKeeps

\* The looks at the history of round trips, and where they lead.
LEMMA GotoKeeps ==
    ASSUME IInv, thread.pc \in {"sampled", "judging", "rejecting"},
           NEW pc \in {"judging", "rejecting", "adding", "adapting", "dead"}, Goto(pc)
    PROVE  IInv'
<1> DEFINE z == [thread EXCEPT !.pc = pc]
<1>1. /\ thread \in Thread /\ ThreadOK
      /\ thread' = z /\ UNCHANGED <<window, prev2, interval, outside>>
  BY TypesOK DEF IInv, Types, Goto
<1>2. z \in Thread /\ z.pc = pc /\ z.asked = thread.asked /\ z.sample = thread.sample
  BY <1>1 DEF Thread
<1> HIDE DEF z
<1>3. ThreadOK' /\ (InFlight' => InFlight)
  BY <1>1, <1>2 DEF ThreadOK, Near, InFlight, outside
<1>4. QED
  BY <1>1, <1>2, <1>3, ThreadMoves

LEMMA LooksKeep == ASSUME IInv, CheckHistory \/ Judge \/ Reject PROVE IInv'
<1>1. /\ thread.pc \in {"sampled", "judging", "rejecting"}
      /\ \E pc \in {"judging", "rejecting", "adding", "adapting", "dead"} : Goto(pc)
  BY DEF CheckHistory, Judge, Reject
<1>2. QED
  BY <1>1, GotoKeeps

LEMMA AddSampleKeeps == ASSUME IInv, AddSample PROVE IInv'
<1> DEFINE x == thread.sample
           z == [thread EXCEPT !.pc = "adapting"]
<1>1. /\ Types /\ thread \in Thread /\ thread.pc = "adding" /\ TakeIn(x) /\ thread' = z
      /\ UNCHANGED <<prev2, interval, outside>>
  BY TypesOK DEF IInv, Types, AddSample
<1>2. /\ x \in Call /\ thread.asked \in Reference /\ x.from \in {thread.asked, Stub} /\ Near(x)
  BY <1>1 DEF IInv, ThreadOK, Thread
<1>3. /\ x.from \in Origin /\ (x.from \notin {reference, Stub} => InFlight)
  BY <1>1, <1>2 DEF Origin, InFlight
<1>4. /\ samples' \in Seq(Sample) /\ Len(samples') <= SampleCount
      /\ rtts' \in Seq(RoundTrip) /\ Len(rtts') <= SampleCount
      /\ samples' # <<>> /\ offset2' = Median2(Offsets(samples'))
      /\ \A i \in DOMAIN samples' : Near(samples'[i])
      /\ \A i, j \in Late(samples') : i = j
      /\ \A i, j \in Late(rtts') : i = j
  BY <1>1, <1>2, <1>3, TakeInKeeps
<1>5. z \in Thread /\ z.pc = "adapting"
  BY <1>1 DEF Thread
<1> HIDE DEF z
<1>6. /\ reference' = reference /\ reachable' = reachable /\ partition' = partition
      /\ injector' = injector /\ changes' = changes /\ corrupted' = corrupted
  BY <1>1 DEF outside
<1>7. TypeOK'
  <2>1. Types'
    BY <1>1, <1>4, <1>5, <1>6 DEF Types
  <2>2. QED
    BY <2>1, TypesOK DEF TypeOK, Types, Sample, RoundTrip, Thread, Call, Injector
<1>8. ThreadOK' /\ ~InFlight'
  BY <1>1, <1>5 DEF ThreadOK, InFlight
<1>9. WindowOK'
  BY <1>4, <1>6 DEF WindowOK, Near
<1>10. LateOK(samples)' /\ LateOK(rtts)'
  BY <1>4, <1>6, <1>8 DEF LateOK, Late
<1>11. QED
  BY <1>7, <1>8, <1>9, <1>10 DEF IInv

LEMMA AdaptIntervalKeeps == ASSUME IInv, AdaptInterval PROVE IInv'
<1>1. /\ Types /\ prev2' = offset2 /\ thread' = Idle /\ UNCHANGED <<window, outside>>
      /\ interval' = Adapted(Abs(offset2 - prev2))
  BY TypesOK DEF IInv, AdaptInterval
<1>2. offset2 \in Int
  BY <1>1, OffsetIsInt
<1>3. interval' \in MinInterval..MaxInterval
  <2>1. /\ MinInterval \in Nat \ {0} /\ MaxInterval \in Nat \ {0} /\ MinInterval <= MaxInterval
        /\ interval \in Nat /\ MinInterval <= interval /\ interval <= MaxInterval
    BY <1>1, ParameterAssumption DEF Types, ParameterAssumption
  <2>2. interval \div 2 \in Nat /\ interval \div 2 <= interval
    BY <2>1
  <2>3. (interval * 6) \div 5 \in Nat /\ interval <= (interval * 6) \div 5
    BY <2>1
  <2>4. Larger(MinInterval, interval \div 2) \in MinInterval..MaxInterval
    BY <2>1, <2>2 DEF Larger
  <2>5. Smaller(MaxInterval, (interval * 6) \div 5) \in MinInterval..MaxInterval
    BY <2>1, <2>3 DEF Smaller
  <2>6. QED
    BY <1>1, <2>4, <2>5 DEF Adapted
<1>4. Types' /\ UNCHANGED <<reference, window>>
  BY <1>1, <1>2, <1>3, IdleOK DEF Types, window, outside
<1>5. ThreadOK' /\ ~InFlight'
  BY <1>1, IdleOK DEF ThreadOK, InFlight
<1>6. QED
  BY <1>4, <1>5, WindowsStay

\* Both windows start anew.
LEMMA SetReferenceKeeps == ASSUME IInv, NEW r \in Reference, SetReference(r) PROVE IInv'
<1>1. /\ Types /\ changes' \in 0..MaxChanges /\ reference' = r
      /\ samples' = <<>> /\ rtts' = <<>> /\ offset2' = 0
      /\ UNCHANGED <<prev2, interval, thread, reachable, partition, injector, corrupted>>
  BY TypesOK, ParameterAssumption DEF IInv, Types, SetReference, ParameterAssumption
<1>2. TypeOK'
  <2>1. Len(samples') <= SampleCount /\ Len(rtts') <= SampleCount
    BY <1>1, SkewsOK
  <2>2. Types'
    BY <1>1, <2>1 DEF Types
  <2>3. QED
    BY <2>2 DEF TypeOK, Types, Sample, RoundTrip, Thread, Call, Injector
<1>3. ThreadOK'
  BY <1>1 DEF IInv, ThreadOK, Near
<1>4. WindowOK' /\ LateOK(samples)' /\ LateOK(rtts)'
  BY <1>1 DEF WindowOK, LateOK, Late
<1>5. QED
  BY <1>2, <1>3, <1>4 DEF IInv

LEMMA OutsideKeeps ==
    ASSUME IInv, (\E S \in SUBSET Reference : Reach(S)) \/ (\E on \in BOOLEAN : Partition(on))
    PROVE  IInv'
<1>1. Types
  BY TypesOK DEF IInv
<1>2. /\ UNCHANGED <<reference, window, prev2, interval, thread, injector, changes,
                     corrupted>>
      /\ reachable' \in SUBSET Reference /\ partition' \in BOOLEAN
  BY <1>1 DEF Reach, Partition, Types
<1>3. Types' /\ UNCHANGED <<reference, window>>
  BY <1>1, <1>2 DEF Types, window
<1>4. ThreadOK' /\ (InFlight' => InFlight)
  BY <1>2 DEF IInv, ThreadOK, Near, InFlight
<1>5. QED
  BY <1>3, <1>4, WindowsStay

LEMMA CorruptSampleMoves ==
    ASSUME IInv, (\E x \in Corrupt : CorruptSample(x)) \/ JudgeCorrupt PROVE IInv'
<1>1. Types
  BY TypesOK DEF IInv
<1>2. UNCHANGED <<reference, window, prev2, interval, thread, reachable, partition, changes>>
  BY DEF CorruptSample, JudgeCorrupt
<1>3. /\ injector' \in Injector /\ (injector'.pc # "idle" => injector'.sample \in Corrupt)
      /\ corrupted' \in 0..MaxCorrupt
  <2>1. ASSUME NEW x \in Corrupt, CorruptSample(x) 
        PROVE  /\ injector' \in Injector /\ (injector'.pc # "idle" => injector'.sample \in Corrupt)
               /\ corrupted' \in 0..MaxCorrupt
    BY <1>1, <2>1, ParameterAssumption
    DEF CorruptSample, Injector, Types, ParameterAssumption
  <2>2. CASE JudgeCorrupt
    BY <1>1, <2>2 DEF JudgeCorrupt, Injector, NoInjection, Types
  <2>3. QED
    BY <2>1, <2>2
<1>4. Types' /\ UNCHANGED <<reference, window>>
  BY <1>1, <1>2, <1>3 DEF Types, window
<1>5. ThreadOK' /\ (InFlight' => InFlight)
  BY <1>2 DEF IInv, ThreadOK, Near, InFlight
<1>6. QED
  BY <1>4, <1>5, WindowsStay

LEMMA AddCorruptKeeps == ASSUME IInv, AddCorrupt PROVE IInv'
<1> DEFINE x == injector.sample
<1>1. /\ Types /\ x \in Corrupt /\ injector' = NoInjection
      /\ UNCHANGED <<reference, prev2, interval, thread, reachable, partition, changes,
                     corrupted>>
  BY TypesOK DEF IInv, Types, AddCorrupt
<1>2. ThreadOK' /\ (InFlight' <=> InFlight)
  BY <1>1 DEF IInv, ThreadOK, Near, InFlight
<1>3. TakeIn(x)
  BY DEF AddCorrupt
<1> HIDE DEF x
<1>4. /\ x \in Call /\ x.from = Stub /\ x.from \in Origin
  BY <1>1, SkewsOK DEF Call, Origin
<1>5. Near(x)
  BY <1>4, SkewsOK DEF Near, OriginAssumption
<1>6. /\ samples' \in Seq(Sample) /\ Len(samples') <= SampleCount
      /\ rtts' \in Seq(RoundTrip) /\ Len(rtts') <= SampleCount
      /\ samples' # <<>> /\ offset2' = Median2(Offsets(samples'))
      /\ \A i \in DOMAIN samples' : Near(samples'[i])
      /\ \A i, j \in Late(samples') : i = j
      /\ \A i, j \in Late(rtts') : i = j
      /\ InFlight => Late(samples') = {} /\ Late(rtts') = {}
  BY <1>3, <1>4, <1>5, TakeInKeeps
<1>7. TypeOK'
  <2>1. NoInjection \in Injector /\ NoInjection.pc = "idle"
    BY DEF NoInjection, Injector
  <2>2. Types'
    BY <1>1, <1>6, <2>1 DEF Types
  <2>3. QED
    BY <2>2 DEF TypeOK, Types, Sample, RoundTrip, Thread, Call, Injector
<1>8. WindowOK'
  BY <1>6 DEF WindowOK, Near
<1>9. LateOK(samples)' /\ LateOK(rtts)'
  BY <1>1, <1>2, <1>6 DEF LateOK, Late
<1>10. QED
  BY <1>2, <1>7, <1>8, <1>9 DEF IInv

-----------------------------------------------------------------------------
(* Initially, always, and what follows.                                    *)

LEMMA InitOK == Init => IInv
<1> SUFFICES ASSUME Init PROVE IInv
  OBVIOUS
<1>1. Types
  <2>1. Len(samples) <= SampleCount /\ Len(rtts) <= SampleCount
    BY SkewsOK DEF Init
  <2>2. interval \in MinInterval..MaxInterval /\ 0 \in 0..MaxChanges /\ 0 \in 0..MaxCorrupt
    BY ParameterAssumption DEF Init, ParameterAssumption
  <2>3. QED
    <3>1. samples \in Seq(Sample) /\ rtts \in Seq(RoundTrip)
      BY DEF Init
    <3>2. offset2 = 0 /\ prev2 \in Int /\ samples = <<>>
      BY DEF Init
    <3>3. injector \in Injector /\ injector.pc = "idle"
      BY DEF Init, NoInjection, Injector
    <3>4. QED
      BY <2>1, <2>2, <3>1, <3>2, <3>3, IdleOK DEF Init, Types
<1>2. ThreadOK /\ WindowOK /\ LateOK(samples) /\ LateOK(rtts)
  BY IdleOK DEF Init, ThreadOK, WindowOK, LateOK, Late
<1>3. QED
  BY <1>1, <1>2, TypesOK DEF IInv

LEMMA NextKeeps == IInv /\ [Next]_vars => IInv'
<1> SUFFICES ASSUME IInv, [Next]_vars PROVE IInv'
  OBVIOUS
<1>1. CASE SyncLoop
  BY <1>1, DoSyncKeeps, AnswerKeeps, CallFailsKeeps, LooksKeep, AddSampleKeeps,
     AdaptIntervalKeeps DEF SyncLoop
<1>2. ASSUME NEW r \in Reference, SetReference(r) PROVE IInv'
  BY <1>2, SetReferenceKeeps
<1>3. CASE (\E S \in SUBSET Reference : Reach(S)) \/ (\E on \in BOOLEAN : Partition(on))
  BY <1>3, OutsideKeeps
<1>4. CASE (\E x \in Corrupt : CorruptSample(x)) \/ JudgeCorrupt \/ AddCorrupt
  BY <1>4, CorruptSampleMoves, AddCorruptKeeps
<1>5. CASE UNCHANGED vars
  <2>1. UNCHANGED <<reference, window, prev2, interval, thread, reachable, partition,
                    injector, changes, corrupted>>
    BY <1>5 DEF vars, outside
  <2>2. Types' /\ ThreadOK' /\ (InFlight' => InFlight)
    BY <2>1, TypesOK DEF IInv, Types, ThreadOK, Near, InFlight, window
  <2>3. QED
    BY <2>1, <2>2, WindowsStay
<1>6. QED
  BY <1>1, <1>2, <1>3, <1>4, <1>5 DEF Next

THEOREM Invariant == Spec => []IInv
BY InitOK, NextKeeps, PTL DEF Spec

\* The types: the windows keep to sample_count whatever the two threads do, the
\* interval to its bounds, and the offset is the median of its window.
THEOREM TypeCorrect == Spec => []TypeOK
<1>1. IInv => TypeOK
  BY DEF IInv
<1>2. QED
  BY <1>1, Invariant, PTL

\* set_reference clears both windows, so however often the reference changes one
\* sample at most of an earlier reference is left to come in.
THEOREM AtMostOneLateSample == Spec => []OneLateSample
<1>1. ASSUME IInv, NEW s, LateOK(s)
      PROVE  Cardinality(Late(s)) + (IF InFlight THEN 1 ELSE 0) <= 1
  <2>1. CASE Late(s) = {}
    BY <2>1, FS_EmptySet
  <2>2. CASE Late(s) # {}
    <3>1. PICK i : Late(s) = {i}
      BY <1>1, <2>2 DEF LateOK
    <3>2. Cardinality(Late(s)) = 1
      BY <3>1, FS_Singleton
    <3>3. QED
      BY <1>1, <2>2, <3>2 DEF LateOK
  <2>3. QED
    BY <2>1, <2>2
<1>2. IInv => OneLateSample
  BY <1>1 DEF IInv, OneLateSample
<1>3. QED
  BY <1>2, Invariant, PTL

LEMMA MajorityHolds ==
    ASSUME IInv, MostlyOwn
    PROVE  LongestTrip \in Nat /\ Abs(offset2 - 2 * Skew[reference]) <= LongestTrip
<1> DEFINE own == Own(samples, reference)
           skew == Skew[reference]
           s == Offsets(samples)
<1>1. Types /\ WindowOK /\ reference \in Reference
  BY TypesOK DEF IInv, Types, MostlyOwn
<1>2. /\ s \in Seq(Int) /\ Len(s) = Len(samples) /\ DOMAIN s = DOMAIN samples
      /\ \A i \in DOMAIN samples : s[i] = samples[i].offset
      /\ DOMAIN samples = 1..Len(samples)
  BY <1>1, OffsetsOK DEF Types
<1>3. own \subseteq DOMAIN s /\ \A i \in own : samples[i].from = reference /\ Near(samples[i])
  BY <1>1, <1>2 DEF Own, WindowOK
<1>4. own # {} /\ samples # <<>>
  <2>1. Len(samples) \in Nat
    BY <1>1, LenProperties DEF Types
  <2>2. own # {}
    BY <2>1, FS_EmptySet DEF MostlyOwn
  <2>3. QED
    BY <1>2, <1>3, <2>2
<1>5. skew \in Int /\ LongestTrip \in Nat
  BY <1>1, <1>3, <1>4, SkewsOK DEF Near
<1> HIDE DEF s
<1>6. \A i \in own : 2 * skew - LongestTrip <= 2 * s[i] /\ 2 * s[i] <= 2 * skew + LongestTrip
  BY <1>1, <1>2, <1>3 DEF Near
<1> HIDE DEF own, skew
<1>7. 2 * skew - LongestTrip <= Median2(s) /\ Median2(s) <= 2 * skew + LongestTrip
  <2>1. 2 * Cardinality(own) > Len(s) /\ 2 * skew \in Int /\ LongestTrip \in Int
    BY <1>2, <1>5 DEF own, MostlyOwn
  <2>2. QED
    BY <1>2, <1>3, <1>6, <2>1, MajorityMedian
<1>8. offset2 = Median2(s) /\ offset2 \in Int
  BY <1>1, <1>4, OffsetIsInt DEF Types, s
<1>9. QED
  BY <1>5, <1>7, <1>8 DEF Abs, skew

\* The offset that the median gives is off the skew of the reference by half a
\* round trip at most once most samples are its answers, corrupt samples, late
\* ones and simulated ones notwithstanding.
THEOREM MajorityIsRight == Spec => []MajorityAligns
<1>1. IInv => MajorityAligns
  BY MajorityHolds DEF MajorityAligns, MostlyOwn, NearSkew
<1>2. QED
  BY <1>1, Invariant, PTL

-----------------------------------------------------------------------------
(* The steps behind EventuallyAligned, and the interval.                   *)

\* The round under way asks the reference, and has its answer.
RoundIsOwn ==
    /\ thread.pc = "calling" => thread.asked = reference
    /\ thread.pc \in {"sampled", "judging", "rejecting", "adding"} => thread.sample.from = reference

\* After n more answers of the reference nothing else is left in the window.
TurnsOver(n) ==
    \A i \in DOMAIN samples :
        samples[i].from # reference => SampleCount - (Len(samples) - i) <= n

\* As long as the reference stays and answers, a round that began with it goes on
\* with its answer only, and so do those after it; each that is not rejected brings the
\* window one answer nearer to holding nothing else, which lasts.  Nothing but a
\* corrupt sample takes any of this back (time_sync.py:258-273, 345-372).
AlignmentAdvances ==
    [][\A r \in Reference : Follows(r) /\ Follows(r)' /\ RoundIsOwn =>
         /\ RoundIsOwn'
         /\ \A n \in 0..SampleCount : TurnsOver(n) =>
              \/ TurnsOver(n)' /\ (AddSample /\ n > 0 => TurnsOver(n - 1)')
              \/ AddCorrupt]_vars

LEMMA RoundStaysOwn ==
    ASSUME IInv, [Next]_vars, NEW r \in Reference, Follows(r), reference' = r, RoundIsOwn
    PROVE  RoundIsOwn'
<1>1. Types /\ thread \in Thread /\ reference = r /\ r \in reachable /\ ~partition
  BY TypesOK DEF IInv, Types, Follows
<1>2. CASE DoSync
  <2> DEFINE z == [Idle EXCEPT !.pc = "calling", !.asked = reference]
  <2>1. thread' = z
    BY <1>1, <1>2 DEF DoSync
  <2>2. z.pc = "calling" /\ z.asked = reference
    BY DEF Idle
  <2> HIDE DEF z
  <2>3. QED
    BY <1>1, <2>1, <2>2 DEF RoundIsOwn
<1>3. ASSUME NEW x, Got(x), x.from = reference PROVE RoundIsOwn'
  <2> DEFINE z == [thread EXCEPT !.pc = "sampled", !.sample = x]
  <2>1. thread' = z /\ z.pc = "sampled" /\ z.sample = x
    BY <1>1, <1>3 DEF Got, Thread
  <2> HIDE DEF z
  <2>2. QED
    BY <1>1, <1>3, <2>1 DEF RoundIsOwn
<1>4. CASE Answer
  <2>1. thread.asked = reference
    BY <1>4 DEF Answer, RoundIsOwn
  <2>2. PICK trip \in Trips :
          Got([from |-> thread.asked,
               offset |-> (trip[1] + Skew[thread.asked]) - (trip[1] + trip[2]) \div 2,
               rtt |-> trip[1] + trip[2]])
    BY <1>4 DEF Answer
  <2>3. QED
    BY <1>3, <2>1, <2>2
<1>5. CASE CallFails
  BY <1>1, <1>5 DEF CallFails, RoundIsOwn
<1>6. ASSUME NEW pc, Goto(pc), pc # "calling",
             thread.pc \in {"sampled", "judging", "rejecting", "adding"}
      PROVE  RoundIsOwn'
  <2> DEFINE z == [thread EXCEPT !.pc = pc]
  <2>1. thread' = z /\ z.pc = pc /\ z.sample = thread.sample
    BY <1>1, <1>6 DEF Goto, Thread
  <2> HIDE DEF z
  <2>2. QED
    BY <1>1, <1>6, <2>1 DEF RoundIsOwn
<1>7. CASE CheckHistory \/ Judge \/ Reject
  BY <1>6, <1>7 DEF CheckHistory, Judge, Reject
<1>8. CASE AddSample
  <2> DEFINE z == [thread EXCEPT !.pc = "adapting"]
  <2>1. thread' = z /\ z.pc = "adapting"
    BY <1>1, <1>8 DEF AddSample, Thread
  <2> HIDE DEF z
  <2>2. QED
    BY <2>1 DEF RoundIsOwn
<1>9. CASE AdaptInterval
  BY <1>9, IdleOK DEF AdaptInterval, RoundIsOwn
<1>10. CASE UNCHANGED thread
  BY <1>1, <1>10 DEF RoundIsOwn
<1>11. QED
  BY <1>2, <1>4, <1>5, <1>7, <1>8, <1>9, <1>10
  DEF Next, SyncLoop, SetReference, Reach, Partition, CorruptSample, JudgeCorrupt,
      AddCorrupt, vars

\* An answer pushes the foreign samples one place on, the oldest of them out.
LEMMA AnswerTurns ==
    ASSUME NEW x \in Sample, x.from = reference, samples \in Seq(Sample),
           Len(samples) <= SampleCount, samples' = Slide(samples, x), reference' = reference,
           NEW n \in Nat, TurnsOver(n)
    PROVE  TurnsOver(n)' /\ TurnsOver(n - 1)'
<1> DEFINE t == Slide(samples, x)
<1>1. t \in Seq(Sample) /\ Slid(samples, x, t)
  BY SlideOK
<1> HIDE DEF t
<1>2. /\ Len(t) \in 1..SampleCount /\ t[Len(t)] = x
      /\ \E d \in {0, 1} : /\ Len(t) = Len(samples) + 1 - d
                           /\ \A i \in 1..Len(t) - 1 : t[i] = samples[i + d]
  BY <1>1 DEF Slid
<1>3. PICK d \in {0, 1} : /\ Len(t) = Len(samples) + 1 - d
                          /\ \A i \in 1..Len(t) - 1 : t[i] = samples[i + d]
  BY <1>2
<1>4. /\ DOMAIN samples = 1..Len(samples) /\ Len(samples) \in Nat
      /\ DOMAIN t = 1..Len(t) /\ Len(t) \in Nat /\ SampleCount \in Nat
  BY <1>1, LenProperties, SkewsOK
<1>5. ASSUME NEW i \in DOMAIN t, t[i].from # reference
      PROVE  SampleCount - (Len(t) - i) <= n - 1
  <2>1. i \in 1..Len(t) - 1
    BY <1>2, <1>4, <1>5
  <2>2. i + d \in DOMAIN samples /\ samples[i + d].from # reference
    <3>1. t[i] = samples[i + d] /\ Len(t) = Len(samples) + 1 - d
      BY <1>3, <2>1
    <3>2. i + d \in 1..Len(samples)
      BY <1>4, <2>1, <3>1
    <3>3. QED
      BY <1>4, <1>5, <3>1, <3>2
  <2>3. SampleCount - (Len(samples) - (i + d)) <= n
    BY <2>2 DEF TurnsOver
  <2>4. /\ d \in {0, 1} /\ i \in Int /\ Len(t) = Len(samples) + 1 - d
        /\ Len(samples) \in Int /\ SampleCount \in Int /\ n \in Int
    BY <1>3, <1>4, <2>1
  <2>5. Len(t) - i = Len(samples) - (i + d) + 1
    BY <2>4
  <2>6. QED
    BY <2>3, <2>4, <2>5
<1>6. \A i \in DOMAIN t : t[i].from # reference => SampleCount - (Len(t) - i) <= n
  <2>1. \A i \in DOMAIN t : SampleCount - (Len(t) - i) \in Int
    BY <1>4
  <2>2. QED
    BY <1>5, <2>1
<1>7. samples' = t
  BY DEF t
<1>8. QED
  BY <1>5, <1>6, <1>7 DEF TurnsOver

LEMMA AlignmentStep ==
    ASSUME IInv, [Next]_vars, NEW r \in Reference, Follows(r), Follows(r)', RoundIsOwn,
           NEW n \in 0..SampleCount, TurnsOver(n)
    PROVE  \/ TurnsOver(n)' /\ (AddSample /\ n > 0 => TurnsOver(n - 1)')
           \/ AddCorrupt
<1>1. reference = r /\ reference' = r
  BY DEF Follows
<1>2. /\ samples \in Seq(Sample) /\ Len(samples) <= SampleCount /\ thread \in Thread
      /\ n \in Nat
  BY TypesOK, SkewsOK DEF IInv, Types
<1>3. CASE AddSample
  <2> DEFINE x == [from |-> thread.sample.from, offset |-> thread.sample.offset]
  <2>1. samples' = Slide(samples, x) /\ thread.pc = "adding"
    BY <1>3 DEF AddSample, TakeIn
  <2>2. thread.sample \in Call /\ thread.sample.from = reference
    BY <1>2, <2>1 DEF Thread, RoundIsOwn
  <2>3. x \in Sample /\ x.from = reference
    BY <1>1, <2>2 DEF Sample, Call, Origin
  <2> HIDE DEF x
  <2>4. QED
    BY <1>1, <1>2, <2>1, <2>3, AnswerTurns
<1>4. CASE UNCHANGED samples /\ ~AddSample
  BY <1>1, <1>4 DEF TurnsOver
<1>5. ASSUME NEW s \in Reference, SetReference(s), ~AddSample PROVE TurnsOver(n)'
  BY <1>5 DEF SetReference, TurnsOver
<1>6. \/ AddSample \/ UNCHANGED samples
      \/ \E s \in Reference : SetReference(s)
      \/ AddCorrupt
  BY DEF Next, SyncLoop, DoSync, Answer, CallFails, Got, CheckHistory, Judge, Reject, Goto,
     AdaptInterval, Reach, Partition, CorruptSample, JudgeCorrupt, window, vars
<1>7. QED
  BY <1>3, <1>4, <1>5, <1>6

LEMMA SettlingStep ==
    ASSUME IInv, LongestTrip <= Threshold, MostlyOwn, AdaptInterval
    PROVE  /\ NearSkew(prev2)'
           /\ NearSkew(prev2) => interval' >= interval
<1>1. /\ Types /\ prev2' = offset2 /\ reference' = reference
      /\ interval' = Adapted(Abs(offset2 - prev2))
  BY TypesOK DEF IInv, AdaptInterval, outside
<1>2. /\ offset2 \in Int /\ prev2 \in Int /\ interval \in MinInterval..MaxInterval
      /\ reference \in Reference
  BY <1>1, OffsetIsInt DEF Types, MostlyOwn
<1>3. /\ MinInterval \in Nat \ {0} /\ MaxInterval \in Nat \ {0} /\ Threshold \in Nat
  BY ParameterAssumption DEF ParameterAssumption
<1>4. Abs(offset2 - 2 * Skew[reference]) <= LongestTrip
  BY MajorityHolds
<1>5. NearSkew(prev2)'
  BY <1>1, <1>4 DEF NearSkew
<1>6. LongestTrip \in Nat /\ Skew[reference] \in Int
  BY <1>2, MajorityHolds, SkewsOK DEF MostlyOwn
<1>7. ASSUME NearSkew(prev2)
      PROVE  interval' >= interval
  <2>1. Abs(offset2 - prev2) \in Int /\ Abs(offset2 - prev2) <= 2 * LongestTrip
    <3> DEFINE skew2 == 2 * Skew[reference]
    <3>1. skew2 \in Int /\ Abs(offset2 - skew2) <= LongestTrip /\ Abs(prev2 - skew2) <= LongestTrip
      BY <1>4, <1>6, <1>7 DEF NearSkew
    <3> HIDE DEF skew2
    <3>2. QED
      BY <1>2, <1>6, <3>1 DEF Abs
  <2>2. ~(Abs(offset2 - prev2) > 2 * Threshold)
    BY <1>3, <1>6, <2>1
  <2>3. interval' = Smaller(MaxInterval, (interval * 6) \div 5)
    BY <1>1, <2>2 DEF Adapted
  <2>4. interval \in Nat \ {0} /\ interval <= MaxInterval
    BY <1>2, <1>3
  <2>5. (interval * 6) \div 5 \in Nat /\ interval <= (interval * 6) \div 5
    BY <2>4
  <2>6. QED
    BY <1>3, <2>3, <2>4, <2>5 DEF Smaller
<1>8. QED
  BY <1>5, <1>7

\* AlignmentAdvances: the window of a reference that stays and answers fills with
\* its answers only, whatever was in it; what TLC adds is that rounds go on.
THEOREM AlignmentIsNotLost == Spec => AlignmentAdvances
<1>1. IInv /\ [Next]_vars
        => [\A r \in Reference : Follows(r) /\ Follows(r)' /\ RoundIsOwn =>
              /\ RoundIsOwn'
              /\ \A n \in 0..SampleCount : TurnsOver(n) =>
                   \/ TurnsOver(n)' /\ (AddSample /\ n > 0 => TurnsOver(n - 1)')
                   \/ AddCorrupt]_vars
  <2>1. ASSUME NEW r \in Reference PROVE Follows(r)' => reference' = r
    BY DEF Follows
  <2>2. QED
    BY <2>1, RoundStaysOwn, AlignmentStep
<1>2. QED
  BY <1>1, Invariant, PTL DEF Spec, AlignmentAdvances

\* MisledOnce: the old offset that a change of reference leaves misleads one
\* round, for any skews and any answers the median lets through.
THEOREM OneRoundIsMisled == Spec => MisledOnce
<1>1. IInv
        => [LongestTrip <= Threshold /\ MostlyOwn /\ AdaptInterval =>
              /\ NearSkew(prev2)'
              /\ NearSkew(prev2) => interval' >= interval]_vars
  BY SettlingStep
<1>2. QED
  BY <1>1, Invariant, PTL DEF Spec, MisledOnce
=============================================================================
