-------------------------- MODULE FrameEventsProofs --------------------------
(***************************************************************************)
(* Facts about the functions of frames: what At and ExtractCompleted list, *)
(* which stints offTrackStintEvents reports and which frames it is given.  *)
(* They hold for every list of frames; the proofs about the state machines *)
(* that call the functions rest on them.                                   *)
(***************************************************************************)
EXTENDS FrameEvents, FiniteSetTheorems, SequenceTheorems, WellFoundedInduction, TLAPS

-----------------------------------------------------------------------------
(* Laps: what At and ExtractCompleted return.                              *)

\* A set of positions has a first one.
LEMMA FirstPosition ==
    ASSUME NEW T \in SUBSET Nat, T # {}
    PROVE  \E x \in T : \A y \in T : x <= y
<1>1. PICK x \in T : \A y \in T : ~(<<y, x>> \in OpToRel(<, Nat))
  BY NatLessThanWellFounded, WFMin
<1>2. ASSUME NEW y \in T
      PROVE  x <= y
  <2>1. x \in Nat /\ y \in Nat
    BY <1>1
  <2>2. ~(y < x)
    BY <1>1, <2>1 DEF OpToRel
  <2> QED BY <2>1, <2>2
<1> QED BY <1>2

\* Every number from 1 to the size of a set of positions is the rank of one of them.
LEMMA RanksAreOnto ==
    ASSUME NEW n \in Nat, NEW P \in SUBSET (1 .. n)
    PROVE  /\ IsFiniteSet(P) /\ Cardinality(P) \in Nat
           /\ \A i \in P : Cardinality({j \in P : j <= i}) \in 1 .. Cardinality(P)
           /\ \A k \in 1 .. Cardinality(P) : \E i \in P : Cardinality({j \in P : j <= i}) = k
           /\ \A i, x \in P :
                 Cardinality({j \in P : j <= i}) = Cardinality({j \in P : j <= x}) => i = x
<1> DEFINE Upto(i) == {j \in P : j <= i}
           rank == [i \in P |-> Cardinality(Upto(i))]
           T == 1 .. Cardinality(P)
<1>1. IsFiniteSet(P) /\ Cardinality(P) \in Nat
  <2>1. IsFiniteSet(1 .. n)
    BY FS_Interval
  <2>2. IsFiniteSet(P)
    BY <2>1, FS_Subset
  <2> QED BY <2>2, FS_CardinalityType
<1>2. ASSUME NEW i \in P
      PROVE  /\ IsFiniteSet(Upto(i))
             /\ Cardinality(Upto(i)) \in T
  <2>1. Upto(i) \in SUBSET P /\ i \in Upto(i)
    OBVIOUS
  <2>2. IsFiniteSet(Upto(i)) /\ Cardinality(Upto(i)) <= Cardinality(P)
    BY <1>1, <2>1, FS_Subset
  <2>3. Cardinality(Upto(i)) \in Nat /\ Cardinality(Upto(i)) # 0
    BY <2>1, <2>2, FS_CardinalityType, FS_EmptySet
  <2> QED BY <1>1, <2>2, <2>3
<1>3. ASSUME NEW i \in P, NEW j \in P, i < j
      PROVE  Cardinality(Upto(i)) # Cardinality(Upto(j))
  <2>1. Upto(i) \in SUBSET Upto(j) /\ Upto(i) # Upto(j)
    <3>1. i \in Int /\ j \in Int /\ \A x \in P : x \in Int
      OBVIOUS
    <3>2. j \in Upto(j) /\ j \notin Upto(i)
      BY <1>3, <3>1
    <3>3. \A x \in P : x <= i => x <= j
      BY <1>3, <3>1
    <3> QED BY <3>2, <3>3
  <2> QED BY <1>2, <2>1, FS_Subset
<1>4. rank \in [P -> T]
  BY <1>2
<1>5. \A i, j \in P : i # j => rank[i] # rank[j]
  <2> SUFFICES ASSUME NEW i \in P, NEW j \in P, i # j
               PROVE  Cardinality(Upto(i)) # Cardinality(Upto(j))
    OBVIOUS
  <2>1. i < j \/ j < i
    OBVIOUS
  <2> QED BY <1>3, <2>1
<1>6. rank \in Injection(P, T)
  <2> HIDE DEF rank, T
  <2>1. DOMAIN rank = P
    BY <1>4
  <2> QED BY <1>4, <1>5, <2>1 DEF Injection, IsInjective
<1>7. IsFiniteSet(T) /\ Cardinality(T) = Cardinality(P)
  BY <1>1, FS_Interval
<1>8. rank \in Surjection(P, T)
  <2> HIDE DEF rank, T
  <2> QED BY <1>6, <1>7, FS_Injection
<1>9. \A k \in T : \E i \in P : rank[i] = k
  <2> HIDE DEF rank, T
  <2> QED BY <1>8 DEF Surjection
<1>10. \A i, x \in P : Cardinality(Upto(i)) = Cardinality(Upto(x)) => i = x
  BY <1>5
<1> QED BY <1>1, <1>2, <1>9, <1>10

\* At lists exactly the elements at the given positions.
LEMMA AtLists ==
    ASSUME NEW seq, NEW n \in Nat, NEW P \in SUBSET (1 .. n)
    PROVE  /\ Cardinality(P) \in Nat
           /\ DOMAIN At(seq, P) = 1 .. Cardinality(P)
           /\ Len(At(seq, P)) = Cardinality(P)
           /\ \A k \in 1 .. Cardinality(P) : \E i \in P : At(seq, P)[k] = seq[i]
           /\ \A i \in P : \E k \in 1 .. Cardinality(P) : At(seq, P)[k] = seq[i]
<1> DEFINE R(i) == Cardinality({j \in P : j <= i})
<1>1. /\ Cardinality(P) \in Nat
      /\ \A i \in P : R(i) \in 1 .. Cardinality(P)
      /\ \A k \in 1 .. Cardinality(P) : \E i \in P : R(i) = k
      /\ \A i, x \in P : R(i) = R(x) => i = x
  BY RanksAreOnto
<1>2. ASSUME NEW k \in 1 .. Cardinality(P)
      PROVE  Nth(P, k) \in P /\ R(Nth(P, k)) = k
  BY <1>1 DEF Nth
<1>3. /\ At(seq, P) = [k \in 1 .. Cardinality(P) |-> seq[Nth(P, k)]]
      /\ DOMAIN At(seq, P) = 1 .. Cardinality(P)
  BY DEF At
<1>4. Len(At(seq, P)) = Cardinality(P)
  BY <1>1, <1>3
<1>5. \A k \in 1 .. Cardinality(P) : \E i \in P : At(seq, P)[k] = seq[i]
  BY <1>2, <1>3
<1>6. ASSUME NEW i \in P
      PROVE  \E k \in 1 .. Cardinality(P) : At(seq, P)[k] = seq[i]
  <2>1. R(i) \in 1 .. Cardinality(P) /\ R(Nth(P, R(i))) = R(i) /\ Nth(P, R(i)) \in P
    BY <1>1, <1>2
  <2>2. Nth(P, R(i)) = i
    BY <1>1, <2>1
  <2> QED BY <1>3, <2>1, <2>2
<1> QED BY <1>1, <1>3, <1>4, <1>5, <1>6

\* The completed laps that a list of frames reports.
Completions(list) ==
    {[lap |-> list[i].lap - 1, time |-> list[i].last, at |-> list[i].ts] : i \in Reporting(list)}

\* ExtractCompleted lists reports of the frames, and one of every reported lap.
LEMMA ExtractLists ==
    ASSUME NEW list, Len(list) \in Nat, \A i \in 1 .. Len(list) : list[i].lap \in Nat
    PROVE  /\ ExtractCompleted(list) \in Seq(Completions(list))
           /\ \A i \in Reporting(list) : \E k \in 1 .. Len(ExtractCompleted(list)) :
                 ExtractCompleted(list)[k].lap = list[i].lap - 1
<1> DEFINE first == {i \in Reporting(list) :
                       \A j \in Reporting(list) : list[j].lap = list[i].lap => i <= j}
           reports == At(list, first)
           m == Cardinality(first)
           Of(f) == [lap |-> f.lap - 1, time |-> f.last, at |-> f.ts]
<1>1. Reporting(list) \in SUBSET (1 .. Len(list)) /\ first \in SUBSET (1 .. Len(list))
  BY DEF Reporting
<1>2. /\ m \in Nat /\ Len(reports) = m
      /\ \A k \in 1 .. m : \E i \in first : reports[k] = list[i]
      /\ \A i \in first : \E k \in 1 .. m : reports[k] = list[i]
  BY <1>1, AtLists
<1>3. ExtractCompleted(list) = [k \in 1 .. Len(reports) |-> Of(reports[k])]
  BY DEF ExtractCompleted
<1> HIDE DEF reports, m
<1>4. ExtractCompleted(list) = [k \in 1 .. m |-> Of(reports[k])]
  BY <1>2, <1>3
<1>5. ASSUME NEW k \in 1 .. m
      PROVE  Of(reports[k]) \in Completions(list)
  <2>1. PICK i \in first : reports[k] = list[i]
    BY <1>2
  <2> QED BY <2>1 DEF Completions
<1>6. ExtractCompleted(list) \in Seq(Completions(list)) /\ Len(ExtractCompleted(list)) = m
  BY <1>2, <1>4, <1>5
<1>7. ASSUME NEW i \in Reporting(list)
      PROVE  \E k \in 1 .. m : ExtractCompleted(list)[k].lap = list[i].lap - 1
  <2> DEFINE same == {j \in Reporting(list) : list[j].lap = list[i].lap}
  <2>1. same \in SUBSET Nat /\ same # {}
    BY <1>1
  <2>2. PICK x \in same : \A y \in same : x <= y
    <3> HIDE DEF same
    <3> QED BY <2>1, FirstPosition
  <2>3. x \in first /\ list[x].lap = list[i].lap
    BY <2>2
  <2>4. PICK k \in 1 .. m : reports[k] = list[x]
    BY <1>2, <2>3
  <2>5. ExtractCompleted(list)[k].lap = list[i].lap - 1
    BY <1>4, <2>3, <2>4
  <2> QED BY <2>5
<1> QED BY <1>6, <1>7

\* A gap count is a count.
LEMMA GapCountIsNat ==
    ASSUME NEW lap, NEW list, Len(list) \in Nat
    PROVE  CountTelemetryGaps(lap, list) \in Nat
<1> DEFINE own == OfLap(lap, list)
           times == SortSeq([i \in 1 .. Len(own) |-> own[i].ts], <)
           all == [i \in 1 .. Len(own) - 1 |-> times[i + 1] - times[i]]
           positive == {i \in 1 .. Len(own) - 1 : all[i] > 0}
           deltas == positiveTimestampDeltas(own)
<1>1. Len(own) \in Nat
  <2> DEFINE P == {i \in 1 .. Len(list) : list[i].lap = lap}
  <2>1. P \in SUBSET (1 .. Len(list))
    OBVIOUS
  <2>2. own = At(list, P)
    BY DEF OfLap
  <2> HIDE DEF P, own
  <2> QED BY <2>1, <2>2, AtLists
<1>2. deltas = At(all, positive)
  BY DEF positiveTimestampDeltas
<1>3. positive \in SUBSET (1 .. Len(own))
  <2> HIDE DEF own, all
  <2> QED BY <1>1
<1> HIDE DEF positive, all, own
<1>4. DOMAIN deltas = 1 .. Cardinality(positive) /\ Cardinality(positive) \in Nat
  BY <1>1, <1>2, <1>3, AtLists
<1> HIDE DEF deltas
<1> DEFINE wide == {i \in DOMAIN deltas : deltas[i] > telemetryGapThresholdMs(deltas)}
<1>5. IsFiniteSet(wide)
  <2>1. IsFiniteSet(1 .. Cardinality(positive))
    BY <1>4, FS_Interval
  <2>2. wide \in SUBSET (1 .. Cardinality(positive))
    BY <1>4
  <2> QED BY <2>1, <2>2, FS_Subset
<1>6. Cardinality(wide) \in Nat
  BY <1>5, FS_CardinalityType
<1>7. CountTelemetryGaps(lap, list) = IF deltas = <<>> THEN 0 ELSE Cardinality(wide)
  BY DEF CountTelemetryGaps, deltas, own
<1> QED BY <1>6, <1>7


\* The k-th of a set of positions, for every k there is, is one of them, and
\* each of them is the k-th for some k.
LEMMA NthLists ==
    ASSUME NEW n \in Nat, NEW P \in SUBSET (1 .. n)
    PROVE  /\ Cardinality(P) \in Nat
           /\ \A k \in 1 .. Cardinality(P) : Nth(P, k) \in P
           /\ \A i \in P : \E k \in 1 .. Cardinality(P) : Nth(P, k) = i
<1> DEFINE R(i) == Cardinality({j \in P : j <= i})
<1>1. /\ Cardinality(P) \in Nat
      /\ \A i \in P : R(i) \in 1 .. Cardinality(P)
      /\ \A k \in 1 .. Cardinality(P) : \E i \in P : R(i) = k
      /\ \A i, x \in P : R(i) = R(x) => i = x
  BY RanksAreOnto
<1>2. ASSUME NEW k \in 1 .. Cardinality(P)
      PROVE  Nth(P, k) \in P /\ R(Nth(P, k)) = k
  BY <1>1 DEF Nth
<1>3. ASSUME NEW i \in P
      PROVE  \E k \in 1 .. Cardinality(P) : Nth(P, k) = i
  <2>1. R(i) \in 1 .. Cardinality(P) /\ R(Nth(P, R(i))) = R(i) /\ Nth(P, R(i)) \in P
    BY <1>1, <1>2
  <2> QED BY <1>1, <2>1
<1> QED BY <1>1, <1>2, <1>3

\* Min of a set of positions is its first.
LEMMA MinIsFirst ==
    ASSUME NEW T \in SUBSET Nat, T # {}
    PROVE  Min(T) \in T /\ \A y \in T : Min(T) <= y
BY FirstPosition DEF Min

\* Max of a set of positions is its last.
LEMMA MaxIsLast ==
    ASSUME NEW n \in Nat, NEW T \in SUBSET (1 .. n), T # {}
    PROVE  Max(T) \in T /\ \A y \in T : Max(T) >= y
<1> DEFINE left == {n - t : t \in T}
<1>1. left \in SUBSET Nat /\ left # {}
  OBVIOUS
<1>2. PICK x \in left : \A y \in left : x <= y
  <2> HIDE DEF left
  <2> QED BY <1>1, FirstPosition
<1>3. PICK t \in T : x = n - t
  BY <1>2
<1>4. ASSUME NEW y \in T
      PROVE  t >= y
  <2>1. n - y \in left
    OBVIOUS
  <2> QED BY <1>2, <1>3, <2>1
<1>5. \E z \in T : \A y \in T : z >= y
  BY <1>4
<1> QED BY <1>5 DEF Max

-----------------------------------------------------------------------------
(* Stints.                                                                 *)

Off(list, i) == i \in 1 .. Len(list) /\ ~list[i].onTrack

\* From the first to the last of neighbouring frames off the track.
Run(list, a, b) ==
    /\ a \in 1 .. Len(list) /\ b \in a .. Len(list)
    /\ \A k \in a .. b : Off(list, k)
    /\ ~Off(list, a - 1) /\ ~Off(list, b + 1)

Long(list, a, b) == list[b].ts - list[a].ts >= OffTrackMinDurationMs

StintEvent(list, a, b, ref) ==
    baseFrameEvent(list[a].lap, list[b].ts, "off_track_stint", "off_track",
                   <<list[a].ts, list[b].ts>>, ref, b - a + 1)

\* A run that begins somewhere ends somewhere.
LEMMA RunEnds ==
    ASSUME NEW list, Len(list) \in Nat, NEW a \in 1 .. Len(list), Off(list, a)
    PROVE  \E b \in a .. Len(list) : ~Off(list, b + 1) /\ \A k \in a .. b : Off(list, k)
<1> DEFINE back == {k \in a .. Len(list) + 1 : ~Off(list, k)}
<1>1. back \in SUBSET Nat /\ Len(list) + 1 \in back
  BY DEF Off
<1>2. PICK x \in back : \A y \in back : x <= y
  <2> HIDE DEF back
  <2> QED BY <1>1, FirstPosition
<1>3. x \in a .. Len(list) + 1 /\ ~Off(list, x) /\ x # a
  BY <1>2
<1>4. x - 1 \in a .. Len(list) /\ (x - 1) + 1 = x
  BY <1>3
<1>5. ASSUME NEW k \in a .. x - 1
      PROVE  Off(list, k)
  <2>1. k \notin back
    BY <1>2, <1>3, <1>5
  <2> QED BY <1>3, <1>5, <2>1
<1> QED BY <1>3, <1>4, <1>5

\* Two runs that begin at the same frame are the same.
LEMMA RunEndsOnce ==
    ASSUME NEW list, Len(list) \in Nat, NEW a, NEW b, NEW c, Run(list, a, b), Run(list, a, c)
    PROVE  b = c
BY DEF Run

\* offTrackStintEvents reports the runs that last long enough, and only those.
LEMMA StintsFound ==
    ASSUME NEW list, Len(list) \in Nat, NEW ref
    PROVE  LET found == offTrackStintEvents(list, ref) IN
           /\ \E m \in Nat : found = [k \in 1 .. m |-> found[k]]
           /\ \A k \in DOMAIN found : \E a, b \in 1 .. Len(list) :
                 Run(list, a, b) /\ Long(list, a, b) /\ found[k] = StintEvent(list, a, b, ref)
           /\ \A a, b \in 1 .. Len(list) : Run(list, a, b) /\ Long(list, a, b) =>
                 \E k \in DOMAIN found : found[k] = StintEvent(list, a, b, ref)
<1> DEFINE starts == {i \in 1 .. Len(list) : Off(list, i) /\ ~Off(list, i - 1)}
           endOf(i) == CHOOSE j \in i .. Len(list) : ~Off(list, j + 1) /\ \A k \in i .. j : Off(list, k)
           stints == {i \in starts : Long(list, i, endOf(i))}
           m == Cardinality(stints)
           found == offTrackStintEvents(list, ref)
<1>1. found = [k \in 1 .. m |-> StintEvent(list, Nth(stints, k), endOf(Nth(stints, k)), ref)]
  BY DEF offTrackStintEvents, Off, Long, StintEvent
<1>2. ASSUME NEW i \in starts
      PROVE  endOf(i) \in 1 .. Len(list) /\ Run(list, i, endOf(i))
  <2>1. \E j \in i .. Len(list) : ~Off(list, j + 1) /\ \A k \in i .. j : Off(list, k)
    BY RunEnds
  <2>2. endOf(i) \in i .. Len(list) /\ ~Off(list, endOf(i) + 1) /\ \A k \in i .. endOf(i) : Off(list, k)
    BY <2>1
  <2> HIDE DEF endOf
  <2> QED BY <2>2 DEF Run
<1>3. ASSUME NEW a \in 1 .. Len(list), NEW b \in 1 .. Len(list), Run(list, a, b)
      PROVE  a \in starts /\ endOf(a) = b
  <2>1. a \in starts
    BY <1>3 DEF Run
  <2> HIDE DEF endOf
  <2> QED BY <1>2, <1>3, <2>1, RunEndsOnce
<1>4. stints \in SUBSET (1 .. Len(list))
  OBVIOUS
<1> HIDE DEF endOf, found
<1>5. /\ m \in Nat
      /\ \A k \in 1 .. m : Nth(stints, k) \in stints
      /\ \A i \in stints : \E k \in 1 .. m : Nth(stints, k) = i
  <2> HIDE DEF stints
  <2> QED BY <1>4, NthLists
<1>6. ASSUME NEW k \in 1 .. m
      PROVE  \E a, b \in 1 .. Len(list) :
                Run(list, a, b) /\ Long(list, a, b) /\ found[k] = StintEvent(list, a, b, ref)
  <2> DEFINE i == Nth(stints, k)
  <2>1. i \in starts /\ Long(list, i, endOf(i)) /\ i \in 1 .. Len(list)
    BY <1>5
  <2>2. found[k] = StintEvent(list, i, endOf(i), ref)
    BY <1>1
  <2> QED BY <1>2, <2>1, <2>2
<1>7. ASSUME NEW a \in 1 .. Len(list), NEW b \in 1 .. Len(list), Run(list, a, b), Long(list, a, b)
      PROVE  \E k \in 1 .. m : found[k] = StintEvent(list, a, b, ref)
  <2>1. a \in stints /\ endOf(a) = b
    BY <1>3, <1>7
  <2>2. PICK k \in 1 .. m : Nth(stints, k) = a
    BY <1>5, <2>1
  <2> QED BY <1>1, <2>1, <2>2
<1>8. DOMAIN found = 1 .. m /\ found = [k \in 1 .. m |-> found[k]]
  BY <1>1
<1> HIDE DEF m
<1> QED BY <1>5, <1>6, <1>7, <1>8 DEF found

-----------------------------------------------------------------------------
(* The frames that the rule is given when a batch is appended.             *)

Rising(list) ==
    /\ \A i \in 1 .. Len(list) : list[i].ts \in Int /\ list[i].onTrack \in BOOLEAN
    /\ \A i, j \in 1 .. Len(list) : i < j => list[i].ts < list[j].ts

\* The neighbouring frames off the track up to the e-th begin at s.
Suffix(list, s, e) ==
    /\ s \in 1 .. e
    /\ \A k \in s .. e : Off(list, k)
    /\ ~Off(list, s - 1)

\* Where appendOffTrackTail lets the tail begin.
TailStart(list, e) == Min({i \in 1 .. e : \A k \in i .. e : ~list[k].onTrack})

\* The search for the start of the tail finds it.
LEMMA SuffixFound ==
    ASSUME NEW list, Len(list) \in Nat, NEW e \in 1 .. Len(list), ~list[e].onTrack
    PROVE  Suffix(list, TailStart(list, e), e)
<1> DEFINE tails == {i \in 1 .. e : \A k \in i .. e : ~list[k].onTrack}
           s == Min(tails)
<1>1. tails \in SUBSET Nat /\ e \in tails
  OBVIOUS
<1>2. s \in tails /\ \A y \in tails : s <= y
  <2> HIDE DEF tails
  <2> QED BY <1>1, MinIsFirst
<1> HIDE DEF s
<1>3. s \in 1 .. e /\ \A k \in s .. e : Off(list, k)
  BY <1>2 DEF Off
<1>4. ASSUME Off(list, s - 1)
      PROVE  FALSE
  <2>1. s - 1 \in 1 .. e /\ ~list[s - 1].onTrack
    BY <1>3, <1>4 DEF Off
  <2>2. \A k \in s - 1 .. e : k = s - 1 \/ k \in s .. e
    BY <1>3
  <2>3. s - 1 \in tails
    BY <1>2, <2>1, <2>2
  <2> QED BY <1>2, <1>3, <2>3
<1> QED BY <1>3, <1>4 DEF Suffix, TailStart, s

\* A batch stored behind older frames is looked at alone, or after the stint
\* that the older frames end with; the first batch of a session possibly after
\* the stint that it ends with itself.
LEMMA TailKinds ==
    ASSUME NEW S, NEW old \in Seq(S), NEW app \in Seq(S), app # <<>>, Rising(old \o app)
    PROVE  LET all == old \o app
               n == Len(old)
               e == IF n = 0 THEN Len(all) ELSE n
               tail == appendOffTrackTail(all, app)
           IN  \/ tail = app /\ (~Off(all, Len(all)) \/ ~Off(all, e))
               \/ \E s \in 1 .. e : Suffix(all, s, e) /\ tail = SubSeq(all, s, e) \o app
<1> DEFINE all == old \o app
           n == Len(old)
           m == Len(app)
           older == {i \in 1 .. Len(all) : all[i].ts < app[1].ts}
           end == IF older = {} THEN Len(all) ELSE Max(older)
           e == IF n = 0 THEN Len(all) ELSE n
           start == Min({i \in 1 .. e : \A k \in i .. e : ~all[k].onTrack})
           tail == appendOffTrackTail(all, app)
<1>1. /\ n \in Nat /\ m \in Nat /\ m > 0
      /\ all \in Seq(S) /\ Len(all) = n + m
      /\ app[1] = all[n + 1]
  OBVIOUS
<1> HIDE DEF all, n, m
<1>2. older = 1 .. n
  <2>1. Rising(all)
    BY DEF all
  <2>2. ASSUME NEW i \in 1 .. n + m
        PROVE  all[i].ts < all[n + 1].ts <=> i <= n
    <3>1. i \in 1 .. Len(all) /\ n + 1 \in 1 .. Len(all) /\ i \in Int /\ n \in Int
      BY <1>1
    <3>2. /\ all[i].ts \in Int /\ all[n + 1].ts \in Int
          /\ i < n + 1 => all[i].ts < all[n + 1].ts
          /\ n + 1 < i => all[n + 1].ts < all[i].ts
      BY <2>1, <3>1 DEF Rising
    <3>3. i < n + 1 \/ i = n + 1 \/ n + 1 < i
      BY <3>1
    <3> QED BY <3>1, <3>2, <3>3
  <2> QED BY <1>1, <2>2
<1>3. end = e
  <2>1. CASE n = 0
    BY <1>1, <1>2, <2>1
  <2>2. CASE n > 0
    <3>1. 1 .. n \in SUBSET (1 .. n) /\ n \in 1 .. n
      BY <1>1, <2>2
    <3>2. 1 .. n # {}
      BY <3>1
    <3>3. Max(1 .. n) \in 1 .. n /\ Max(1 .. n) >= n
      BY <1>1, <3>1, <3>2, MaxIsLast
    <3>4. Max(1 .. n) = n
      BY <1>1, <3>3
    <3>5. n # 0
      BY <2>2
    <3> HIDE DEF older
    <3> QED BY <1>2, <3>2, <3>4, <3>5
  <2> QED BY <1>1, <2>1, <2>2
<1>4. e \in 1 .. Len(all)
  BY <1>1
<1>5. tail = IF all = <<>> \/ all[Len(all)].onTrack \/ all[e].onTrack
             THEN app ELSE SubSeq(all, start, e) \o app
  <2>1. tail = IF all = <<>> \/ all[Len(all)].onTrack \/ all[end].onTrack
               THEN app
               ELSE SubSeq(all, Min({i \in 1 .. end : \A k \in i .. end : ~all[k].onTrack}), end) \o app
    BY DEF appendOffTrackTail
  <2> HIDE DEF end, e, tail
  <2> QED BY <1>3, <2>1
<1>6. all # <<>>
  BY <1>1
<1> HIDE DEF e, tail
<1>7. CASE all[Len(all)].onTrack \/ all[e].onTrack
  BY <1>5, <1>7 DEF Off, all, e, n, tail
<1>8. CASE ~all[Len(all)].onTrack /\ ~all[e].onTrack
  <2>1. Suffix(all, start, e)
    <3>1. start = TailStart(all, e)
      BY DEF TailStart
    <3> HIDE DEF start
    <3>2. Len(all) \in Nat
      BY <1>1
    <3> QED BY <1>4, <1>8, <3>1, <3>2, SuffixFound
  <2> HIDE DEF start
  <2>2. tail = SubSeq(all, start, e) \o app /\ start \in 1 .. e
    BY <1>5, <1>6, <1>8, <2>1 DEF Suffix, start
  <2> QED BY <2>1, <2>2 DEF all, e, n, tail
<1> QED BY <1>7, <1>8

\* Which frame of the whole session the k-th frame is that the rule looks at,
\* when the tail begins at s and the batch is appended to the tail up to e.
LEMMA TailFrames ==
    ASSUME NEW S, NEW old \in Seq(S), NEW app \in Seq(S),
           NEW e \in 1 .. Len(old \o app), NEW s \in 1 .. e
    PROVE  LET all == old \o app
               tail == SubSeq(all, s, e) \o app
               l == e - s + 1
           IN  /\ l \in Nat /\ Len(tail) = l + Len(app)
               /\ \A k \in 1 .. l : tail[k] = all[s - 1 + k]
               /\ \A k \in 1 .. Len(app) : tail[l + k] = all[Len(old) + k]
<1> DEFINE all == old \o app
           head == SubSeq(all, s, e)
           tail == head \o app
           l == e - s + 1
<1>1. all \in Seq(S) /\ Len(all) = Len(old) + Len(app) /\ Len(old) \in Nat /\ Len(app) \in Nat
  OBVIOUS
<1>2. \A k \in 1 .. Len(app) : all[Len(old) + k] = app[k]
  BY <1>1
<1> HIDE DEF all
<1>3. s \in 1 .. Len(all) + 1 /\ e \in s - 1 .. Len(all) /\ s - 1 <= e /\ s \in Int /\ e \in Int
  BY <1>1 DEF all
<1>4. /\ head \in Seq(S) /\ Len(head) = l
      /\ \A k \in 1 .. l : head[k] = all[s - 1 + k]
  BY <1>1, <1>3, SubSeqProperties
<1>5. l \in Nat
  BY <1>3
<1> HIDE DEF head, l
<1>6. /\ Len(tail) = l + Len(app)
      /\ \A k \in 1 .. l : tail[k] = head[k]
      /\ \A k \in 1 .. Len(app) : tail[l + k] = app[k]
  <2>1. /\ Len(tail) = l + Len(app)
        /\ \A k \in 1 .. l + Len(app) : tail[k] = IF k <= l THEN head[k] ELSE app[k - l]
    BY <1>1, <1>4, <1>5, ConcatProperties
  <2> HIDE DEF tail
  <2>2. ASSUME NEW k \in 1 .. Len(app)
        PROVE  tail[l + k] = app[k]
    <3> DEFINE x == l + k
    <3>1. x \in 1 .. l + Len(app) /\ ~(x <= l) /\ x - l = k
      BY <1>1, <1>5
    <3> HIDE DEF x
    <3>2. tail[x] = app[k]
      BY <2>1, <3>1
    <3> QED BY <3>2 DEF x
  <2>3. ASSUME NEW k \in 1 .. l
        PROVE  tail[k] = head[k]
    <3>1. k \in 1 .. l + Len(app) /\ k <= l
      BY <1>1, <1>5
    <3> QED BY <2>1, <3>1
  <2> QED BY <2>1, <2>2, <2>3 DEF tail
<1> QED BY <1>2, <1>4, <1>5, <1>6 DEF all, head, l

\* What the rule reports is a stint of the whole session: the frames from the
\* first to the last one reported are off the track, all of them.
LEMMA TailIsSound ==
    ASSUME NEW S, NEW old \in Seq(S), NEW app \in Seq(S), app # <<>>, Rising(old \o app),
           NEW a, NEW b,
           Run(appendOffTrackTail(old \o app, app), a, b),
           Long(appendOffTrackTail(old \o app, app), a, b)
    PROVE  LET all == old \o app
               tail == appendOffTrackTail(all, app)
           IN  \E i \in 1 .. Len(all) : \E j \in i .. Len(all) :
                  /\ tail[a] = all[i] /\ tail[b] = all[j]
                  /\ \A k \in i .. j : Off(all, k)
<1> DEFINE all == old \o app
           n == Len(old)
           m == Len(app)
           e == IF n = 0 THEN Len(all) ELSE n
           tail == appendOffTrackTail(all, app)
<1>1. /\ n \in Nat /\ m \in Nat /\ m > 0
      /\ all \in Seq(S) /\ Len(all) = n + m
      /\ \A k \in 1 .. m : all[n + k] = app[k]
  OBVIOUS
<1>2. Rising(all) /\ Run(tail, a, b) /\ Long(tail, a, b)
  OBVIOUS
<1>3. \/ tail = app
      \/ \E s \in 1 .. e : Suffix(all, s, e) /\ tail = SubSeq(all, s, e) \o app
  BY TailKinds
<1>4. \A s \in 1 .. e :
         /\ e - s + 1 \in Nat /\ Len(SubSeq(all, s, e) \o app) = (e - s + 1) + m
         /\ \A k \in 1 .. e - s + 1 : (SubSeq(all, s, e) \o app)[k] = all[s - 1 + k]
         /\ \A k \in 1 .. m : (SubSeq(all, s, e) \o app)[e - s + 1 + k] = all[n + k]
  <2>1. e \in 1 .. Len(all)
    BY <1>1
  <2> HIDE DEF e
  <2> QED BY <2>1, TailFrames
<1>5. e \in 1 .. Len(all) /\ (n > 0 => e = n) /\ (n = 0 => e = m)
  BY <1>1
<1> HIDE DEF all, n, m, e, tail
<1> SUFFICES \E i \in 1 .. n + m : \E j \in i .. n + m :
                /\ tail[a] = all[i] /\ tail[b] = all[j]
                /\ \A k \in i .. j : Off(all, k)
  BY <1>1 DEF all, tail
<1>6. CASE tail = app
  <2>1. a \in 1 .. m /\ b \in a .. m /\ \A k \in a .. b : Off(app, k)
    BY <1>2, <1>6 DEF Run, m
  <2>2. n + a \in 1 .. n + m /\ n + b \in n + a .. n + m /\ tail[a] = all[n + a] /\ tail[b] = all[n + b]
    BY <1>1, <1>6, <2>1
  <2>3. ASSUME NEW k \in n + a .. n + b
        PROVE  Off(all, k)
    <3>1. k - n \in a .. b /\ k - n \in 1 .. m /\ k \in 1 .. n + m /\ n + (k - n) = k
      BY <1>1, <2>1
    <3>2. ~app[k - n].onTrack /\ all[k] = app[k - n]
      BY <1>1, <2>1, <3>1 DEF Off
    <3> QED BY <1>1, <3>1, <3>2 DEF Off
  <2> QED BY <2>2, <2>3
<1>7. CASE \E s \in 1 .. e : Suffix(all, s, e) /\ tail = SubSeq(all, s, e) \o app
  <2>1. PICK s \in 1 .. e : Suffix(all, s, e) /\ tail = SubSeq(all, s, e) \o app
    BY <1>7
  <2> DEFINE l == e - s + 1
  <2>2. /\ l \in Nat /\ Len(tail) = l + m /\ s \in Nat /\ s > 0 /\ e \in Nat
        /\ \A k \in 1 .. l : tail[k] = all[s - 1 + k]
        /\ \A k \in 1 .. m : tail[l + k] = all[n + k]
    BY <1>1, <1>4, <1>5, <2>1
  <2>3. /\ a \in 1 .. l + m /\ b \in a .. l + m /\ a \in Nat /\ b \in Nat
        /\ \A k \in a .. b : ~tail[k].onTrack
    BY <1>1, <1>2, <2>2 DEF Run, Off
  <2>4. \A k \in s .. e : ~all[k].onTrack
    BY <2>1 DEF Suffix, Off
  <2>5. CASE n > 0
    <3>1. e = n
      BY <1>5, <2>5
    <3>2. \A k \in 1 .. l + m : tail[k] = all[s - 1 + k]
      <4> SUFFICES ASSUME NEW k \in 1 .. l + m
                   PROVE  tail[k] = all[s - 1 + k]
        OBVIOUS
      <4>1. CASE k \in 1 .. l
        BY <2>2, <4>1
      <4>2. CASE k > l
        <5>1. k - l \in 1 .. m /\ l + (k - l) = k /\ n + (k - l) = s - 1 + k
          BY <1>1, <2>2, <3>1, <4>2
        <5> QED BY <2>2, <5>1
      <4> QED BY <2>2, <4>1, <4>2
    <3> DEFINE i == s - 1 + a
               j == s - 1 + b
    <3>3. i \in 1 .. n + m /\ j \in i .. n + m /\ tail[a] = all[i] /\ tail[b] = all[j]
      <4>1. a \in 1 .. l + m /\ b \in 1 .. l + m
        BY <2>2, <2>3
      <4>2. tail[a] = all[i] /\ tail[b] = all[j]
        BY <3>2, <4>1
      <4> QED BY <1>1, <2>2, <2>3, <3>1, <4>2
    <3>4. ASSUME NEW k \in i .. j
          PROVE  Off(all, k)
      <4>1. /\ k - s + 1 \in a .. b /\ k - s + 1 \in 1 .. l + m /\ k \in 1 .. n + m
            /\ s - 1 + (k - s + 1) = k
        BY <1>1, <2>2, <2>3, <3>1, <3>3
      <4>2. all[k] = tail[k - s + 1]
        BY <3>2, <4>1
      <4> QED BY <1>1, <2>3, <4>1, <4>2 DEF Off
    <3> HIDE DEF i, j
    <3> QED BY <3>3, <3>4
  <2>6. CASE n = 0
    <3>1. e = m /\ n + m = m /\ \A k \in 1 .. m : tail[l + k] = all[k] /\ k \in 1 .. m
      BY <1>1, <1>5, <2>2, <2>6
    <3>2. CASE a > l
      <4> DEFINE i == a - l
                 j == b - l
      <4>1. i \in 1 .. m /\ j \in i .. m /\ j \in 1 .. m /\ l + i = a /\ l + j = b
        BY <1>1, <2>2, <2>3, <3>2
      <4>2. tail[a] = all[i] /\ tail[b] = all[j]
        BY <3>1, <4>1
      <4>3. ASSUME NEW k \in i .. j
            PROVE  Off(all, k)
        <5>1. k \in Int /\ a - l <= k /\ k <= b - l /\ l \in Int /\ m \in Int
          BY <1>1, <2>2, <2>3
        <5>2. l + k \in a .. b /\ k \in 1 .. m
          <6> HIDE DEF l
          <6> QED BY <2>2, <2>3, <4>1, <5>1
        <5> QED BY <1>1, <2>3, <3>1, <5>2 DEF Off
      <4> HIDE DEF i, j
      <4> QED BY <3>1, <4>1, <4>2, <4>3
    <3>3. CASE a <= l /\ b <= l
      <4> DEFINE i == s - 1 + a
                 j == s - 1 + b
      <4>1. i \in 1 .. m /\ j \in i .. m /\ tail[a] = all[i] /\ tail[b] = all[j]
        BY <1>1, <2>2, <2>3, <3>1, <3>3
      <4>2. ASSUME NEW k \in i .. j
            PROVE  Off(all, k)
        <5>1. k \in Int /\ s - 1 + a <= k /\ k <= s - 1 + b /\ 1 <= a
          BY <2>2, <2>3
        <5>2. b <= e - s + 1 /\ e = m /\ b \in Int /\ a \in Int /\ s \in Int /\ s >= 1 /\ m \in Int
          BY <1>1, <2>2, <2>3, <3>1, <3>3
        <5>3. k \in s .. e /\ k \in 1 .. m
          BY <5>1, <5>2
        <5> QED BY <1>1, <2>4, <3>1, <5>3 DEF Off
      <4> HIDE DEF i, j
      <4> QED BY <3>1, <4>1, <4>2
    <3>4. CASE a <= l /\ b > l
      <4> DEFINE i == s - 1 + a
                 j == b - l
      <4>1. i \in 1 .. m /\ i >= s /\ j \in 1 .. m /\ tail[a] = all[i] /\ tail[b] = all[j]
        BY <1>1, <2>2, <2>3, <3>1, <3>4
      <4>2. all[j].ts - all[i].ts >= 500
        BY <1>2, <4>1 DEF Long, OffTrackMinDurationMs
      <4> HIDE DEF i, j
      <4>3. i <= j
        <5>1. i \in 1 .. Len(all) /\ j \in 1 .. Len(all) /\ i \in Int /\ j \in Int
          BY <1>1, <3>1, <4>1
        <5>2. j < i => all[j].ts < all[i].ts
          BY <1>2, <5>1 DEF Rising
        <5>3. all[i].ts \in Int /\ all[j].ts \in Int
          BY <1>2, <5>1 DEF Rising
        <5> QED BY <4>2, <5>1, <5>2, <5>3
      <4>4. ASSUME NEW k \in i .. j
            PROVE  Off(all, k)
        <5>1. k \in s .. e /\ k \in 1 .. m
          BY <1>1, <2>2, <3>1, <4>1, <4>3
        <5> QED BY <1>1, <2>4, <3>1, <5>1 DEF Off
      <4>5. i \in 1 .. n + m /\ j \in i .. n + m
        BY <1>1, <3>1, <4>1, <4>3
      <4> QED BY <4>1, <4>4, <4>5
    <3> QED BY <2>2, <2>3, <3>2, <3>3, <3>4
  <2> QED BY <1>1, <2>5, <2>6
<1> QED BY <1>3, <1>6, <1>7

\* The tail holds the stint from the i-th frame to the end of the session.
HoldsLast(tail, all, i) ==
    /\ Len(tail) \in Nat
    /\ \E a, b \in 1 .. Len(tail) :
          Run(tail, a, b) /\ tail[a] = all[i] /\ tail[b] = all[Len(all)]

\* The stint that the whole session ends with is among those that the rule
\* looks at, from its true start to its end.
LEMMA TailIsComplete ==
    ASSUME NEW S, NEW old \in Seq(S), NEW app \in Seq(S), app # <<>>, Rising(old \o app),
           NEW i, Run(old \o app, i, Len(old \o app))
    PROVE  HoldsLast(appendOffTrackTail(old \o app, app), old \o app, i)
<1> DEFINE all == old \o app
           n == Len(old)
           m == Len(app)
           N == Len(all)
           e == IF n = 0 THEN Len(all) ELSE n
           tail == appendOffTrackTail(all, app)
<1>1. /\ n \in Nat /\ m \in Nat /\ m > 0 /\ N = n + m /\ N \in Nat
      /\ \A k \in 1 .. m : all[n + k] = app[k]
  OBVIOUS
<1>2. \/ tail = app /\ (~Off(all, N) \/ ~Off(all, e))
      \/ \E s \in 1 .. e : Suffix(all, s, e) /\ tail = SubSeq(all, s, e) \o app
  BY TailKinds
<1>3. e \in 1 .. N /\ (n > 0 => e = n) /\ (n = 0 => e = N)
  BY <1>1
<1>4. \A s \in 1 .. e :
         /\ e - s + 1 \in Nat /\ Len(SubSeq(all, s, e) \o app) = (e - s + 1) + m
         /\ \A k \in 1 .. e - s + 1 : (SubSeq(all, s, e) \o app)[k] = all[s - 1 + k]
         /\ \A k \in 1 .. m : (SubSeq(all, s, e) \o app)[e - s + 1 + k] = all[n + k]
  <2> HIDE DEF e
  <2> QED BY <1>3, TailFrames
<1>5. Run(all, i, N)
  OBVIOUS
<1> HIDE DEF all, n, m, N, e, tail
<1>6. /\ i \in 1 .. N /\ i \in Nat /\ ~Off(all, i - 1)
      /\ \A k \in i .. N : Off(all, k)
  BY <1>1, <1>5 DEF Run, N
<1>7. Off(all, N)
  BY <1>1, <1>6
<1> SUFFICES /\ Len(tail) \in Nat
             /\ \E a, b \in 1 .. Len(tail) :
                   Run(tail, a, b) /\ tail[a] = all[i] /\ tail[b] = all[N]
  BY DEF all, tail, N, HoldsLast
<1>8. CASE tail = app /\ (~Off(all, N) \/ ~Off(all, e))
  <2>1. n > 0 /\ e = n /\ ~Off(all, n) /\ Len(tail) = m
    BY <1>1, <1>3, <1>7, <1>8 DEF m
  <2>2. i > n
    BY <1>1, <1>6, <2>1
  <2> DEFINE a == i - n
  <2>3. a \in 1 .. m /\ m \in a .. m /\ n + a = i /\ n + m = N
    BY <1>1, <1>6, <2>2
  <2>4. tail[a] = all[i] /\ tail[m] = all[N]
    BY <1>1, <1>8, <2>3
  <2>5. ASSUME NEW k \in a .. m
        PROVE  Off(tail, k)
    <3>1. k \in 1 .. m /\ n + k \in i .. N
      BY <1>1, <1>6, <2>3
    <3> QED BY <1>1, <1>6, <1>8, <2>1, <3>1 DEF Off
  <2>6. ASSUME Off(tail, a - 1)
        PROVE  FALSE
    <3>1. a - 1 \in 1 .. m /\ n + (a - 1) = i - 1 /\ i - 1 \in 1 .. N
      BY <1>1, <1>6, <2>1, <2>3, <2>6 DEF Off
    <3>2. tail[a - 1] = all[i - 1]
      BY <1>1, <1>8, <3>1
    <3> QED BY <1>6, <2>6, <3>1, <3>2 DEF Off, N
  <2>7. ~Off(tail, m + 1)
    BY <1>1, <2>1 DEF Off
  <2> HIDE DEF a
  <2>8. Run(tail, a, m)
    BY <2>1, <2>3, <2>5, <2>6, <2>7 DEF Run
  <2> QED BY <1>1, <2>1, <2>3, <2>4, <2>8
<1>9. CASE \E s \in 1 .. e : Suffix(all, s, e) /\ tail = SubSeq(all, s, e) \o app
  <2>1. PICK s \in 1 .. e : Suffix(all, s, e) /\ tail = SubSeq(all, s, e) \o app
    BY <1>9
  <2> DEFINE l == e - s + 1
  <2>2. /\ l \in Nat /\ Len(tail) = l + m /\ s \in Nat /\ s > 0 /\ e \in Nat
        /\ \A k \in 1 .. l : tail[k] = all[s - 1 + k]
        /\ \A k \in 1 .. m : tail[l + k] = all[n + k]
    BY <1>1, <1>3, <1>4, <2>1
  <2>3. ~Off(all, s - 1) /\ \A k \in s .. e : Off(all, k)
    BY <2>1 DEF Suffix
  <2>4. s <= i
    <3>1. ASSUME i < s
          PROVE  FALSE
      <4>1. s \in Nat /\ e \in Nat /\ s <= e
        BY <2>2
      <4>2. N \in Nat /\ e <= N
        BY <1>1, <1>3
      <4>3. i \in Nat
        BY <1>6
      <4>4. s - 1 \in i .. N
        BY <3>1, <4>1, <4>2, <4>3
      <4> QED BY <1>6, <2>3, <4>4
    <3>2. i \in Int /\ s \in Int
      BY <1>6, <2>2
    <3> QED BY <3>1, <3>2
  <2>5. CASE n > 0
    <3>1. e = n /\ N = s - 1 + (l + m)
      BY <1>1, <1>3, <2>2, <2>5
    <3>2. \A k \in 1 .. l + m : tail[k] = all[s - 1 + k]
      <4> SUFFICES ASSUME NEW k \in 1 .. l + m
                   PROVE  tail[k] = all[s - 1 + k]
        OBVIOUS
      <4>1. CASE k \in 1 .. l
        BY <2>2, <4>1
      <4>2. CASE k > l
        <5>1. k - l \in 1 .. m /\ l + (k - l) = k /\ n + (k - l) = s - 1 + k
          BY <1>1, <2>2, <3>1, <4>2
        <5> QED BY <2>2, <5>1
      <4> QED BY <2>2, <4>1, <4>2
    <3> DEFINE a == i - s + 1
               b == l + m
    <3>3. a \in 1 .. b /\ b \in a .. b /\ b \in 1 .. b /\ s - 1 + a = i /\ s - 1 + b = N
      BY <1>1, <1>6, <2>2, <2>4, <3>1
    <3>4. tail[a] = all[i] /\ tail[b] = all[N]
      BY <3>2, <3>3
    <3>5. ASSUME NEW k \in a .. b
          PROVE  Off(tail, k)
      <4>1. k \in 1 .. l + m /\ s - 1 + k \in i .. N
        BY <1>1, <1>6, <2>2, <3>3
      <4> QED BY <1>6, <2>2, <3>2, <4>1 DEF Off
    <3>6. ASSUME Off(tail, a - 1)
          PROVE  FALSE
      <4>1. a - 1 \in 1 .. l + m /\ s - 1 + (a - 1) = i - 1 /\ i - 1 \in 1 .. N
        BY <1>1, <1>6, <2>2, <3>3, <3>6 DEF Off
      <4>2. tail[a - 1] = all[i - 1]
        BY <3>2, <4>1
      <4> QED BY <1>6, <3>6, <4>1, <4>2 DEF Off, N
    <3>7. ~Off(tail, b + 1)
      BY <1>1, <2>2 DEF Off
    <3>8. b = Len(tail) /\ b \in Nat
      BY <1>1, <2>2
    <3> HIDE DEF a, b
    <3>9. Run(tail, a, b)
      BY <3>3, <3>5, <3>6, <3>7, <3>8 DEF Run
    <3> QED BY <3>3, <3>4, <3>8, <3>9
  <2>6. CASE n = 0
    <3>1. e = m /\ N = m /\ \A k \in 1 .. m : tail[l + k] = all[k]
      BY <1>1, <1>3, <2>2, <2>6
    <3>2. s = i
      BY <1>1, <1>6, <2>2, <2>3, <2>4, <3>1
    <3>3. l + m \in Nat /\ l = m - i + 1 /\ l >= 1 /\ l \in Nat
      BY <1>1, <1>6, <2>2, <3>1, <3>2
    <3>4. tail[l + m] = all[N]
      BY <1>1, <3>1
    <3>5. ~Off(tail, l + m + 1)
      BY <1>1, <2>2 DEF Off
    <3> HIDE DEF l
    <3>6. CASE i = 1
      <4>1. tail[1] = all[i] /\ l = m
        BY <1>1, <2>2, <3>2, <3>3, <3>6
      <4>2. ASSUME NEW k \in 1 .. l + m
            PROVE  Off(tail, k)
        <5>1. CASE k <= l
          <6>1. k \in 1 .. l /\ k \in i .. N /\ s - 1 + k = k
            BY <1>1, <3>1, <3>2, <3>3, <3>6, <4>1, <5>1
          <6> QED BY <1>6, <2>2, <6>1 DEF Off
        <5>2. CASE k > l
          <6>1. k - l \in 1 .. m /\ k - l \in i .. N /\ l + (k - l) = k
            BY <1>1, <3>1, <3>3, <3>6, <5>2
          <6>2. tail[k] = all[k - l]
            BY <3>1, <6>1
          <6> QED BY <1>6, <2>2, <6>1, <6>2 DEF Off
        <5> QED BY <3>3, <5>1, <5>2
      <4>3. ~Off(tail, 1 - 1)
        BY DEF Off
      <4>4. 1 \in 1 .. l + m /\ l + m \in 1 .. l + m
        BY <1>1, <3>3
      <4>5. Run(tail, 1, l + m)
        BY <2>2, <3>5, <4>2, <4>3, <4>4 DEF Run
      <4> QED BY <2>2, <3>3, <3>4, <4>1, <4>4, <4>5
    <3>7. CASE i > 1
      <4> DEFINE a == l + i
      <4>1. /\ a \in 1 .. l + m /\ l + m \in a .. l + m /\ l + m \in 1 .. l + m
            /\ i \in 1 .. m /\ i - 1 \in 1 .. m /\ a - 1 = l + (i - 1)
        BY <1>1, <1>6, <3>1, <3>3, <3>7
      <4>2. tail[a] = all[i] /\ tail[a - 1] = all[i - 1]
        BY <3>1, <4>1
      <4>3. ASSUME NEW k \in a .. l + m
            PROVE  Off(tail, k)
        <5>1. k - l \in 1 .. m /\ k - l \in i .. N /\ l + (k - l) = k /\ k \in 1 .. l + m
          BY <1>1, <3>1, <3>3, <4>1
        <5>2. tail[k] = all[k - l]
          BY <3>1, <5>1
        <5> QED BY <1>6, <2>2, <5>1, <5>2 DEF Off
      <4>4. ~Off(tail, a - 1)
        BY <1>6, <3>1, <4>1, <4>2 DEF Off, N
      <4> HIDE DEF a
      <4>5. Run(tail, a, l + m)
        BY <2>2, <3>5, <4>1, <4>3, <4>4 DEF Run
      <4> QED BY <2>2, <3>3, <3>4, <4>1, <4>2, <4>5
    <3> QED BY <1>6, <3>6, <3>7
  <2>7. n > 0 \/ n = 0
    BY <1>1
  <2> QED BY <2>5, <2>6, <2>7, Zenon
<1> QED BY <1>2, <1>8, <1>9
=============================================================================
