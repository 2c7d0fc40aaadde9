--------------------------- MODULE FunctionsProofs ---------------------------
(***************************************************************************)
(* Proofs about what MCFunctions checks on small inputs: the lap tracker,  *)
(* for every length of the layout and every choice of the tolerances, and  *)
(* the catalog, for every catalog, every list of corners and every length. *)
(***************************************************************************)
EXTENDS MCFunctions, FrameEventsProofs

-----------------------------------------------------------------------------
(* LapContinuity.                                                          *)

ContinuityInv == TypeOK /\ DistanceAccounted

\* One lap more, or one less, in metres.
LEMMA LapMetres ==
    ASSUME NEW n \in Int
    PROVE  /\ n * TotalMeters \in Int
           /\ (n + 1) * TotalMeters = n * TotalMeters + TotalMeters
           /\ (n - 1) * TotalMeters = n * TotalMeters - TotalMeters
BY LengthAssumption

\* The start line is a distance of the layout.
LEMMA ZeroInLap == 0 \in Nat /\ 0 \in 0 .. TotalMeters
BY LengthAssumption

\* A measurement is brought into the lap, whatever it was.
LEMMA CurrentInLap ==
    ASSUME NEW d \in Int, NEW c \in BOOLEAN
    PROVE  /\ CurrentDistance(d, c) \in 0 .. TotalMeters
           /\ c => CurrentDistance(d, c) < TotalMeters
<1>1. d % TotalMeters \in 0 .. TotalMeters - 1
  BY LengthAssumption
<1>2. clampOpenDistance(d) \in 0 .. TotalMeters
  BY LengthAssumption DEF clampOpenDistance
<1> QED
  BY <1>1, <1>2, LengthAssumption DEF CurrentDistance

\* Forward and Backward are the two ways round, each a whole number of metres
\* that leads from the last distance to the current one.
LEMMA BothWays ==
    ASSUME TypeOK, NEW current \in 0 .. TotalMeters
    PROVE  /\ Forward(current) \in Int /\ Backward(current) \in Int
           /\ ~closed => /\ Forward(current) = current - distance
                         /\ Backward(current) = distance - current
           /\ closed => Forward(current) \in Nat /\ Backward(current) \in Nat
           /\ closed /\ current >= distance => Forward(current) = current - distance
           /\ closed /\ current < distance => Forward(current) = current - distance + TotalMeters
           /\ closed /\ current <= distance => Backward(current) = distance - current
           /\ closed /\ current > distance => Backward(current) = distance - current + TotalMeters
BY LengthAssumption DEF TypeOK, Forward, Backward, ForwardDelta

\* An accepted step forward adds its metres and, over the line, one lap.
LEMMA AdvanceAccounted ==
    ASSUME ContinuityInv, NEW d \in Int, Advance(d)
    PROVE  ContinuityInv'
<1> DEFINE current == CurrentDistance(d, closed)
           laps == lapCount - lineBack
<1>1. current \in 0 .. TotalMeters
  BY CurrentInLap DEF ContinuityInv, TypeOK
<1>2. /\ lapCount \in Nat /\ lineBack \in Nat /\ totalForward \in Nat /\ reversed \in Nat
      /\ distance \in 0 .. TotalMeters /\ start \in 0 .. TotalMeters /\ closed \in BOOLEAN
      /\ laps \in Int
  BY DEF ContinuityInv, TypeOK
<1>3. Forward(current) \in Nat
  BY <1>1, <1>2, BothWays DEF Advance, IsForward, ContinuityInv
<1>4. /\ totalForward' = totalForward + Forward(current)
      /\ lapCount' = lapCount + (IF closed /\ current < distance THEN 1 ELSE 0)
      /\ distance' = current
      /\ UNCHANGED <<initialized, closed, start, reversed, lineBack>>
  BY DEF Advance, WrapsForward
<1> HIDE DEF current
<1>5. TypeOK'
  BY <1>1, <1>2, <1>3, <1>4 DEF ContinuityInv, TypeOK
<1>6. DistanceAccounted'
  <2>1. CASE ~closed
    BY <1>1, <1>2, <1>4, <2>1, BothWays DEF ContinuityInv, DistanceAccounted
  <2>2. CASE closed /\ current >= distance
    <3>1. Forward(current) = current - distance
      BY <1>1, <1>2, <2>2, BothWays DEF ContinuityInv
    <3>2. laps * TotalMeters \in Int
      BY <1>2, LapMetres
    <3>3. start + totalForward - reversed = distance + laps * TotalMeters
      BY <2>2 DEF ContinuityInv, DistanceAccounted
    <3>4. lapCount' - lineBack' = laps
      BY <1>1, <1>2, <1>4, <2>2
    <3> HIDE DEF laps
    <3> DEFINE metres == laps * TotalMeters
    <3>5. start' + totalForward' - reversed' = distance' + metres
      <4>1. metres \in Int /\ start + totalForward - reversed = distance + metres
        BY <3>2, <3>3
      <4> HIDE DEF metres
      <4> QED BY <1>1, <1>2, <1>4, <3>1, <4>1
    <3> QED
      BY <1>4, <2>2, <3>4, <3>5 DEF DistanceAccounted
  <2>3. CASE closed /\ current < distance
    <3>1. Forward(current) = current - distance + TotalMeters
      BY <1>1, <1>2, <2>3, BothWays DEF ContinuityInv
    <3>2. laps * TotalMeters \in Int /\ (laps + 1) * TotalMeters = laps * TotalMeters + TotalMeters
      BY <1>2, LapMetres
    <3>3. start + totalForward - reversed = distance + laps * TotalMeters
      BY <2>3 DEF ContinuityInv, DistanceAccounted
    <3>4. lapCount' - lineBack' = laps + 1
      BY <1>1, <1>2, <1>4, <2>3
    <3> HIDE DEF laps
    <3> DEFINE metres == laps * TotalMeters
    <3>5. start' + totalForward' - reversed' = distance' + (laps + 1) * TotalMeters
      <4>1. metres \in Int /\ start + totalForward - reversed = distance + metres
        BY <3>2, <3>3
      <4>2. (laps + 1) * TotalMeters = metres + TotalMeters
        BY <3>2
      <4> HIDE DEF metres
      <4>3. start' + totalForward' - reversed' = distance' + (metres + TotalMeters)
        BY <1>1, <1>2, <1>4, <3>1, <4>1, LengthAssumption
      <4> QED BY <4>2, <4>3
    <3> QED
      BY <1>4, <2>3, <3>4, <3>5 DEF DistanceAccounted
  <2> QED
    BY <1>1, <1>2, <2>1, <2>2, <2>3
<1> QED
  BY <1>5, <1>6 DEF ContinuityInv

\* A step back takes its metres off and, over the line, is remembered as one
\* lap that lapCount still has.
LEMMA ReverseAccounted ==
    ASSUME ContinuityInv, NEW d \in Int, StepBack(d)
    PROVE  ContinuityInv'
<1> DEFINE current == CurrentDistance(d, closed)
           laps == lapCount - lineBack
<1>1. current \in 0 .. TotalMeters
  BY CurrentInLap DEF ContinuityInv, TypeOK
<1>2. /\ lapCount \in Nat /\ lineBack \in Nat /\ totalForward \in Nat /\ reversed \in Nat
      /\ distance \in 0 .. TotalMeters /\ start \in 0 .. TotalMeters /\ closed \in BOOLEAN
      /\ laps \in Int
  BY DEF ContinuityInv, TypeOK
<1>3. Backward(current) \in Nat
  BY <1>1, <1>2, BothWays DEF StepBack, IsReverse, ContinuityInv
<1>4. /\ reversed' = reversed + Backward(current)
      /\ lineBack' = lineBack + (IF closed /\ current > distance THEN 1 ELSE 0)
      /\ distance' = current
      /\ UNCHANGED <<initialized, closed, lapCount, totalForward, start>>
  BY DEF StepBack
<1> HIDE DEF current
<1>5. TypeOK'
  BY <1>1, <1>2, <1>3, <1>4 DEF ContinuityInv, TypeOK
<1>6. DistanceAccounted'
  <2>1. CASE ~closed
    BY <1>1, <1>2, <1>4, <2>1, BothWays DEF ContinuityInv, DistanceAccounted
  <2>2. CASE closed /\ current <= distance
    <3>1. Backward(current) = distance - current
      BY <1>1, <1>2, <2>2, BothWays DEF ContinuityInv
    <3>2. laps * TotalMeters \in Int
      BY <1>2, LapMetres
    <3>3. start + totalForward - reversed = distance + laps * TotalMeters
      BY <2>2 DEF ContinuityInv, DistanceAccounted
    <3>4. lapCount' - lineBack' = laps
      BY <1>1, <1>2, <1>4, <2>2
    <3> HIDE DEF laps
    <3> DEFINE metres == laps * TotalMeters
    <3>5. start' + totalForward' - reversed' = distance' + metres
      <4>1. metres \in Int /\ start + totalForward - reversed = distance + metres
        BY <3>2, <3>3
      <4> HIDE DEF metres
      <4> QED BY <1>1, <1>2, <1>4, <3>1, <4>1
    <3> QED
      BY <1>4, <2>2, <3>4, <3>5 DEF DistanceAccounted
  <2>3. CASE closed /\ current > distance
    <3>1. Backward(current) = distance - current + TotalMeters
      BY <1>1, <1>2, <2>3, BothWays DEF ContinuityInv
    <3>2. laps * TotalMeters \in Int /\ (laps - 1) * TotalMeters = laps * TotalMeters - TotalMeters
      BY <1>2, LapMetres
    <3>3. start + totalForward - reversed = distance + laps * TotalMeters
      BY <2>3 DEF ContinuityInv, DistanceAccounted
    <3>4. lapCount' - lineBack' = laps - 1
      BY <1>1, <1>2, <1>4, <2>3
    <3> HIDE DEF laps
    <3> DEFINE metres == laps * TotalMeters
    <3>5. start' + totalForward' - reversed' = distance' + (laps - 1) * TotalMeters
      <4>1. metres \in Int /\ start + totalForward - reversed = distance + metres
        BY <3>2, <3>3
      <4>2. (laps - 1) * TotalMeters = metres - TotalMeters
        BY <3>2
      <4> HIDE DEF metres
      <4>3. start' + totalForward' - reversed' = distance' + (metres - TotalMeters)
        BY <1>1, <1>2, <1>4, <3>1, <4>1, LengthAssumption
      <4> QED BY <4>2, <4>3
    <3> QED
      BY <1>4, <2>3, <3>4, <3>5 DEF DistanceAccounted
  <2> QED
    BY <1>1, <1>2, <2>1, <2>2, <2>3
<1> QED
  BY <1>5, <1>6 DEF ContinuityInv

\* The invariant of the tracker, by the kinds of an update.
THEOREM TrackerInvariant == Spec => []ContinuityInv
<1>1. Init => ContinuityInv
  <2> SUFFICES ASSUME Init PROVE ContinuityInv
    OBVIOUS
  <2>1. TypeOK
    BY ZeroInLap, Zenon DEF Init, TypeOK
  <2>2. DistanceAccounted
    BY DEF Init, DistanceAccounted
  <2> QED
    BY <2>1, <2>2 DEF ContinuityInv
<1>2. ContinuityInv /\ [Next]_vars => ContinuityInv'
  <2> SUFFICES ASSUME ContinuityInv, [Next]_vars PROVE ContinuityInv'
    OBVIOUS
  <2>1. ASSUME UNCHANGED vars PROVE ContinuityInv'
    BY <2>1 DEF vars, ContinuityInv, TypeOK, DistanceAccounted
  <2>2. CASE Reset
    <3>1. TypeOK'
      BY <2>2, ZeroInLap, Zenon DEF Reset, TypeOK
    <3>2. DistanceAccounted'
      BY <2>2 DEF Reset, DistanceAccounted
    <3> QED
      BY <3>1, <3>2 DEF ContinuityInv
  <2>3. ASSUME NEW d \in Int, NEW c \in BOOLEAN, Begin(d, c) PROVE ContinuityInv'
    <3>1. CurrentDistance(d, c) \in 0 .. TotalMeters
      BY CurrentInLap
    <3>2. /\ TypeOK' /\ lapCount' = 0 /\ lineBack' = 0 /\ totalForward' = 0 /\ reversed' = 0
          /\ start' = distance' /\ distance' \in 0 .. TotalMeters
      BY <2>3, <3>1 DEF Begin, TypeOK
    <3> QED
      BY <3>2, LengthAssumption DEF ContinuityInv, DistanceAccounted
  <2>4. ASSUME NEW d \in Int, Jitter(d) \/ LargeJump(d) PROVE ContinuityInv'
    BY <2>1, <2>4 DEF Jitter, LargeJump
  <2>5. CASE Next
    BY <2>2, <2>3, <2>4, <2>5, AdvanceAccounted, ReverseAccounted, Zenon DEF Next, Update
  <2> QED
    BY <2>1, <2>5
<1> QED
  BY <1>1, <1>2, PTL DEF Spec

\* Distances stay within the layout and counters never turn negative.
THEOREM TrackerTypeCorrect == Spec => []TypeOK
BY TrackerInvariant, PTL DEF ContinuityInv

\* Every metre the tracker accepts is in totalForward or reversed, and laps are
\* counted exactly at the line: for every length and tolerance.
THEOREM TrackerAccountsDistance == Spec => []DistanceAccounted
BY TrackerInvariant, PTL DEF ContinuityInv

-----------------------------------------------------------------------------
(* The catalog.                                                            *)

IsList(s) == Len(s) \in Nat /\ DOMAIN s = 1 .. Len(s)

IsCatalog(c) ==
    /\ IsList(c.tracks)
    /\ \A i \in DOMAIN c.tracks :
          /\ IsList(c.tracks[i].layouts)
          /\ \A j \in DOMAIN c.tracks[i].layouts : c.tracks[i].layouts[j].length \in Int

\* The first place of an ID, 0 for none.
FirstID(list, id) == SelectInSeq(list, LAMBDA x : x.id = id)

\* An element whose ID no other one has is found by it.
LEMMA UniqueIsFirst ==
    ASSUME NEW list, IsList(list), NEW k \in DOMAIN list,
           \A x \in DOMAIN list : list[x].id = list[k].id => x = k
    PROVE  FirstID(list, list[k].id) = k
<1> DEFINE I == {x \in 1 .. Len(list) : list[x].id = list[k].id}
<1>1. I = {k} /\ k \in Nat /\ k # 0
  BY DEF IsList
<1>2. FirstID(list, list[k].id) = IF I # {} THEN Min(I) ELSE 0
  BY DEF FirstID, SelectInSeq
<1>3. Min({k}) = k
  BY <1>1, MinIsFirst
<1> HIDE DEF I
<1> QED BY <1>1, <1>2, <1>3

\* No two tracks of a valid catalog, and no two layouts of a track, share an ID.
LEMMA IDsAreUnique ==
    ASSUME NEW c, IsCatalog(c), ValidateCatalog(c), NEW i \in DOMAIN c.tracks
    PROVE  /\ \A x \in DOMAIN c.tracks : c.tracks[x].id = c.tracks[i].id => x = i
           /\ \A j, y \in DOMAIN c.tracks[i].layouts :
                 c.tracks[i].layouts[y].id = c.tracks[i].layouts[j].id => y = j
<1> DEFINE ids == RememberedIDs(c)
           Layouts(x) == c.tracks[x].layouts
           Corners(x, j) == Layouts(x)[j].corners
           layouts == UNION {{<<x, j, 0>> : j \in DOMAIN Layouts(x)} : x \in DOMAIN c.tracks}
           corners == UNION {{<<p[1], p[2], k>> : k \in DOMAIN Corners(p[1], p[2])} : p \in layouts}
           tracks == {<<x, 0, 0>> : x \in DOMAIN c.tracks}
           places == tracks \union layouts \union corners
<1>1. ids = [p \in places |-> IF p[2] = 0 THEN c.tracks[p[1]].id
                              ELSE IF p[3] = 0 THEN Layouts(p[1])[p[2]].id
                              ELSE Corners(p[1], p[2])[p[3]].id]
  BY DEF RememberedIDs
<1>2. \A a, b \in places : ids[a] = ids[b] => a = b
  <2>1. IsInjective(ids)
    BY DEF ValidateCatalog
  <2>2. DOMAIN ids = places
    BY <1>1
  <2> QED BY <2>1, <2>2 DEF IsInjective
<1>3. ASSUME NEW x \in DOMAIN c.tracks
      PROVE  <<x, 0, 0>> \in places /\ ids[<<x, 0, 0>>] = c.tracks[x].id
  <2>1. <<x, 0, 0>> \in places
    <3> HIDE DEF layouts, corners
    <3> QED OBVIOUS
  <2> HIDE DEF places
  <2> QED BY <1>1, <2>1
<1>4. ASSUME NEW j \in DOMAIN Layouts(i)
      PROVE  <<i, j, 0>> \in places /\ ids[<<i, j, 0>>] = Layouts(i)[j].id
  <2>1. <<i, j, 0>> \in layouts
    OBVIOUS
  <2>2. <<i, j, 0>> \in places
    <3> HIDE DEF layouts, corners, tracks
    <3> QED BY <2>1
  <2>3. j # 0
    BY DEF IsCatalog, IsList
  <2> HIDE DEF places
  <2> QED BY <1>1, <2>2, <2>3
<1> HIDE DEF ids, places
<1>5. ASSUME NEW x \in DOMAIN c.tracks, c.tracks[x].id = c.tracks[i].id
      PROVE  x = i
  <2>1. <<x, 0, 0>> = <<i, 0, 0>>
    BY <1>2, <1>3, <1>5
  <2> QED BY <2>1
<1>6. ASSUME NEW j \in DOMAIN Layouts(i), NEW y \in DOMAIN Layouts(i),
             Layouts(i)[y].id = Layouts(i)[j].id
      PROVE  y = j
  <2>1. <<i, y, 0>> = <<i, j, 0>>
    BY <1>2, <1>4, <1>6
  <2> QED BY <2>1
<1> QED BY <1>5, <1>6

\* What is found by the IDs of a layout is that layout.
LEMMA FoundByIDs ==
    ASSUME NEW c, IsCatalog(c), ValidateCatalog(c),
           NEW i \in DOMAIN c.tracks, NEW j \in DOMAIN c.tracks[i].layouts
    PROVE  FindSelectableTrackLayout(c, c.tracks[i].id, c.tracks[i].layouts[j].id)
               <=> /\ filterProductionSources(c.tracks[i].sources) # {}
                   /\ filterProductionSources(c.tracks[i].layouts[j].sources) # {}
<1> DEFINE t == c.tracks[i]
           l == t.layouts[j]
<1>1. FirstID(c.tracks, t.id) = i
  BY IDsAreUnique, UniqueIsFirst DEF IsCatalog
<1>2. FirstID(t.layouts, l.id) = j
  <2>1. /\ IsList(t.layouts) /\ j \in DOMAIN t.layouts
        /\ \A y \in DOMAIN t.layouts : t.layouts[y].id = l.id => y = j
    BY IDsAreUnique DEF IsCatalog
  <2> HIDE DEF t
  <2> QED BY <2>1, UniqueIsFirst
<1>3. i # 0 /\ j # 0
  BY DEF IsCatalog, IsList
<1>4. validateSources(t.sources) /\ validateSources(l.sources)
  BY DEF ValidateCatalog, validateLayout, Elements
<1>5. FindSelectableTrackLayout(c, t.id, l.id) =
        LET x == FirstID(c.tracks, t.id)
            y == FirstID(c.tracks[x].layouts, l.id)
        IN  /\ x # 0 /\ filterProductionSources(c.tracks[x].sources) # {}
            /\ y # 0 /\ filterProductionSources(c.tracks[x].layouts[y].sources) # {}
            /\ validateSources(c.tracks[x].sources)
            /\ validateSources(c.tracks[x].layouts[y].sources)
  BY Zenon DEF FindSelectableTrackLayout, FirstID
<1> QED BY <1>1, <1>2, <1>3, <1>4, <1>5

\* A layout of a valid catalog with a production source, in a track with one,
\* has all that a selectable layout needs.
LEMMA ValidIsSelectable ==
    ASSUME NEW c, ValidateCatalog(c), NEW t \in Elements(c.tracks), NEW l \in Elements(t.layouts),
           filterProductionSources(t.sources) # {}, filterProductionSources(l.sources) # {}
    PROVE  hasSelectableLayoutMetadata(t, l) /\ l.length > 0
BY DEF ValidateCatalog, validateLayout, filterProductionSources, hasSelectableLayoutMetadata

\* What is listed, by the sources.
LEMMA ListedBySources ==
    ASSUME NEW c, ValidateCatalog(c), NEW p
    PROVE  p \in BuildCatalogTrackLayoutSummary(c) <=>
             \E t \in Elements(c.tracks) : \E l \in Elements(t.layouts) :
                /\ p = <<t.id, l.id>>
                /\ filterProductionSources(t.sources) # {} /\ filterProductionSources(l.sources) # {}
<1>1. ASSUME p \in BuildCatalogTrackLayoutSummary(c)
      PROVE  \E t \in Elements(c.tracks) : \E l \in Elements(t.layouts) :
                /\ p = <<t.id, l.id>>
                /\ filterProductionSources(t.sources) # {} /\ filterProductionSources(l.sources) # {}
  <2>1. PICK t \in Elements(c.tracks) :
           /\ filterProductionSources(t.sources) # {}
           /\ p \in {<<t.id, l.id>> : l \in {x \in Elements(t.layouts) :
                                             /\ hasSelectableLayoutMetadata(t, x)
                                             /\ filterProductionSources(x.sources) # {}}}
    BY <1>1 DEF BuildCatalogTrackLayoutSummary
  <2>2. PICK l \in Elements(t.layouts) :
           p = <<t.id, l.id>> /\ filterProductionSources(l.sources) # {}
    BY <2>1
  <2> QED BY <2>1, <2>2
<1>2. ASSUME NEW t \in Elements(c.tracks), NEW l \in Elements(t.layouts), p = <<t.id, l.id>>,
             filterProductionSources(t.sources) # {}, filterProductionSources(l.sources) # {}
      PROVE  p \in BuildCatalogTrackLayoutSummary(c)
  <2>1. hasSelectableLayoutMetadata(t, l)
    BY <1>2, ValidIsSelectable
  <2>2. p \in {<<t.id, x.id>> : x \in {y \in Elements(t.layouts) :
                                        /\ hasSelectableLayoutMetadata(t, y)
                                        /\ filterProductionSources(y.sources) # {}}}
    BY <1>2, <2>1
  <2> QED BY <1>2, <2>2 DEF BuildCatalogTrackLayoutSummary
<1> QED BY <1>1, <1>2

\* The pairs of a catalog, by places.
LEMMA PairsByPlace ==
    ASSUME NEW c, NEW p \in CatalogPairs(c)
    PROVE  \E i \in DOMAIN c.tracks : \E j \in DOMAIN c.tracks[i].layouts :
              p = <<c.tracks[i].id, c.tracks[i].layouts[j].id>>
BY DEF CatalogPairs, Elements

\* A lap of exactly the length of a selectable layout has it as a candidate.
LEMMA ExactLapFindsLayout ==
    ASSUME NEW c, IsCatalog(c), ValidateCatalog(c),
           NEW t \in Elements(c.tracks), NEW l \in Elements(t.layouts),
           hasSelectableLayoutMetadata(t, l), l.length > 0
    PROVE  \E a \in Candidates(c, l.length) : a.track = t.id /\ a.layout = l.id
<1> DEFINE a == [track |-> t.id, layout |-> l.id, length |-> l.length,
                 difference |-> Abs(l.length - l.length)]
<1>1. l.length \in Int
  BY DEF IsCatalog, Elements
<1>2. InTolerance(Abs(l.length - l.length), l.length)
  BY <1>1 DEF InTolerance, Abs
<1>3. a \in Candidates(c, l.length)
  BY <1>2 DEF Candidates
<1>4. a.track = t.id /\ a.layout = l.id
  OBVIOUS
<1> HIDE DEF a
<1> QED BY <1>3, <1>4

\* For every catalog: what ValidateCatalog accepts is listed exactly as it can
\* be selected, and detection can find it; of what ValidateSourceOfTruth accepts
\* every layout is listed.
THEOREM EveryCatalogListsSelectable ==
    ASSUME NEW c, IsCatalog(c)
    PROVE  ListsSelectable(c)
<1> DEFINE listed == BuildCatalogTrackLayoutSummary(c)
<1>1. ASSUME ValidateCatalog(c), NEW p \in listed
      PROVE  /\ p \in CatalogPairs(c) /\ FindSelectableTrackLayout(c, p[1], p[2])
             /\ p \in Detectable(c)
  <2>1. PICK t \in Elements(c.tracks) : \E l \in Elements(t.layouts) :
           /\ p = <<t.id, l.id>>
           /\ filterProductionSources(t.sources) # {} /\ filterProductionSources(l.sources) # {}
    BY <1>1, ListedBySources
  <2>2. PICK l \in Elements(t.layouts) :
           /\ p = <<t.id, l.id>>
           /\ filterProductionSources(t.sources) # {} /\ filterProductionSources(l.sources) # {}
    BY <2>1
  <2>3. p \in CatalogPairs(c)
    BY <2>2 DEF CatalogPairs
  <2>4. FindSelectableTrackLayout(c, t.id, l.id)
    <3>1. PICK i \in DOMAIN c.tracks : t = c.tracks[i]
      BY DEF Elements
    <3>2. PICK j \in DOMAIN t.layouts : l = t.layouts[j]
      BY DEF Elements
    <3> QED BY <1>1, <2>2, <3>1, <3>2, FoundByIDs
  <2>5. \E a \in Candidates(c, l.length) : a.track = t.id /\ a.layout = l.id
    BY <1>1, <2>2, ValidIsSelectable, ExactLapFindsLayout
  <2>6. p \in Detectable(c)
    BY <2>2, <2>5 DEF Detectable
  <2>7. p[1] = t.id /\ p[2] = l.id
    BY <2>2
  <2> QED BY <2>3, <2>4, <2>6, <2>7
<1>2. ASSUME ValidateCatalog(c), NEW p \in CatalogPairs(c), FindSelectableTrackLayout(c, p[1], p[2])
      PROVE  p \in listed
  <2>1. PICK i \in DOMAIN c.tracks : \E j \in DOMAIN c.tracks[i].layouts :
           p = <<c.tracks[i].id, c.tracks[i].layouts[j].id>>
    BY PairsByPlace
  <2>2. PICK j \in DOMAIN c.tracks[i].layouts : p = <<c.tracks[i].id, c.tracks[i].layouts[j].id>>
    BY <2>1
  <2>3. p[1] = c.tracks[i].id /\ p[2] = c.tracks[i].layouts[j].id
    BY <2>2
  <2>4. /\ filterProductionSources(c.tracks[i].sources) # {}
        /\ filterProductionSources(c.tracks[i].layouts[j].sources) # {}
    BY <1>2, <2>3, FoundByIDs
  <2>5. c.tracks[i] \in Elements(c.tracks) /\ c.tracks[i].layouts[j] \in Elements(c.tracks[i].layouts)
    BY DEF Elements
  <2> QED BY <1>2, <2>2, <2>4, <2>5, ListedBySources
<1>3. ASSUME ValidateSourceOfTruth(c), NEW p \in CatalogPairs(c)
      PROVE  p \in listed
  <2>1. PICK t \in Elements(c.tracks) : \E l \in Elements(t.layouts) : p = <<t.id, l.id>>
    BY DEF CatalogPairs
  <2>2. PICK l \in Elements(t.layouts) : p = <<t.id, l.id>>
    BY <2>1
  <2>3. requireProductionSources(t.sources) /\ requireProductionSources(l.sources)
    BY <1>3 DEF ValidateSourceOfTruth
  <2>4. filterProductionSources(t.sources) # {} /\ filterProductionSources(l.sources) # {}
    BY <2>3 DEF requireProductionSources, filterProductionSources
  <2>5. ValidateCatalog(c)
    BY <1>3 DEF ValidateSourceOfTruth
  <2> QED BY <2>2, <2>4, <2>5, ListedBySources
<1>4. ValidateSourceOfTruth(c) => ValidateCatalog(c)
  BY DEF ValidateSourceOfTruth
<1> HIDE DEF listed
<1>5. ValidateCatalog(c) =>
        /\ listed = {p \in CatalogPairs(c) : FindSelectableTrackLayout(c, p[1], p[2])}
        /\ listed \subseteq Detectable(c)
  BY <1>1, <1>2
<1>6. ValidateSourceOfTruth(c) => listed = CatalogPairs(c)
  BY <1>1, <1>3, <1>4
<1> QED BY <1>5, <1>6 DEF ListsSelectable, listed

-----------------------------------------------------------------------------
(* Corners.                                                                *)

\* The facts of validateCorners about one corner with a position.
LEMMA CornerFacts ==
    ASSUME NEW list, IsList(list), NEW length \in Nat, validateCorners(list, length),
           NEW i \in DOMAIN list, IsManual(list[i])
    PROVE  /\ list[i].start \in 0 .. length /\ list[i].end \in 0 .. length
           /\ list[i].start # list[i].end
           /\ \A j \in DOMAIN list : j < i /\ IsManual(list[j]) => ~WrapsAround(list[j])
           /\ ClearOfFirst(list[i], i, list)
           /\ LET before == {j \in 1 .. i - 1 : IsManual(list[j])} IN
              before # {} => list[i].start >= list[Max(before)].end
<1> DEFINE before == {j \in 1 .. i - 1 : IsManual(list[j])}
           previousEnd == IF before = {} THEN 0 ELSE list[Max(before)].end
<1>1. /\ validateCornerRange(list[i], length)
      /\ \A j \in before : ~WrapsAround(list[j])
      /\ i > 1 => list[i].start >= previousEnd
      /\ ClearOfFirst(list[i], i, list)
  BY Zenon DEF validateCorners
<1>2. /\ list[i].start \in 0 .. length /\ list[i].end \in 0 .. length
      /\ list[i].start # list[i].end
  BY <1>1 DEF validateCornerRange
<1>3. \A j \in DOMAIN list : j < i /\ IsManual(list[j]) => j \in before
  BY DEF IsList
<1>4. before # {} => i > 1
  BY DEF IsList
<1> HIDE DEF before
<1>5. before # {} => list[i].start >= list[Max(before)].end
  BY <1>1, <1>4
<1>6. \A j \in DOMAIN list : j < i /\ IsManual(list[j]) => ~WrapsAround(list[j])
  BY <1>1, <1>3
<1> QED BY <1>1, <1>2, <1>5, <1>6 DEF before

\* A corner ends before every later one starts, not only the next.
LEMMA CornersOrdered ==
    ASSUME NEW list, IsList(list), NEW length \in Nat, validateCorners(list, length),
           NEW i \in DOMAIN list, IsManual(list[i]),
           NEW j \in DOMAIN list, IsManual(list[j]), i < j
    PROVE  list[i].end <= list[j].start
<1> DEFINE Early(k) == \E h \in DOMAIN list : h < k /\ IsManual(list[h]) /\ ~(list[h].end <= list[k].start)
           wrong == {k \in DOMAIN list : IsManual(list[k]) /\ Early(k)}
<1> SUFFICES wrong = {}
  OBVIOUS
<1> SUFFICES ASSUME wrong # {} PROVE FALSE
  OBVIOUS
<1>1. wrong \in SUBSET Nat
  BY DEF IsList
<1>2. PICK k \in wrong : \A y \in wrong : k <= y
  <2> HIDE DEF wrong
  <2> QED BY <1>1, FirstPosition
<1>3. k \in DOMAIN list /\ IsManual(list[k])
  BY <1>2
<1>4. PICK h \in DOMAIN list : h < k /\ IsManual(list[h]) /\ ~(list[h].end <= list[k].start)
  BY <1>2
<1>5. Len(list) \in Nat /\ k \in 1 .. Len(list) /\ h \in 1 .. Len(list)
  BY <1>3, <1>4 DEF IsList
<1> DEFINE before == {x \in 1 .. k - 1 : IsManual(list[x])}
           m == Max(before)
<1>6. m \in before /\ h <= m
  <2>1. h \in before /\ k - 1 \in Nat /\ before \in SUBSET (1 .. k - 1)
    BY <1>4, <1>5
  <2>2. before # {}
    BY <2>1
  <2> HIDE DEF before
  <2> QED BY <2>1, <2>2, MaxIsLast
<1>7. m \in 1 .. Len(list) /\ m < k /\ IsManual(list[m]) /\ m \in DOMAIN list
  BY <1>5, <1>6 DEF IsList
<1>8. list[k].start >= list[m].end
  <2>1. before # {}
    BY <1>6
  <2> HIDE DEF before, wrong
  <2> QED BY <1>3, <2>1, CornerFacts DEF before
<1> HIDE DEF m
<1>9. list[m].start < list[m].end /\ list[m].start \in Int /\ list[m].end \in Int
  <2> HIDE DEF wrong
  <2>1. ~WrapsAround(list[m])
    BY <1>3, <1>7, CornerFacts
  <2>2. list[m].start \in 0 .. length /\ list[m].end \in 0 .. length /\ list[m].start # list[m].end
    BY <1>7, CornerFacts
  <2> QED BY <2>1, <2>2 DEF WrapsAround
<1>10. list[k].start \in Int /\ list[h].end \in Int
  <2> HIDE DEF wrong
  <2>1. list[k].start \in 0 .. length
    BY <1>3, CornerFacts
  <2>2. list[h].end \in 0 .. length
    BY <1>4, CornerFacts
  <2> QED BY <2>1, <2>2
<1>11. CASE h = m
  BY <1>4, <1>8, <1>9, <1>10, <1>11
<1>12. CASE h < m
  <2>1. ~Early(m)
    BY <1>2, <1>5, <1>7
  <2>2. list[h].end <= list[m].start
    BY <1>4, <1>12, <2>1
  <2> QED BY <1>4, <1>8, <1>9, <1>10, <2>2
<1> QED BY <1>5, <1>6, <1>7, <1>11, <1>12

\* Two corners never contain the same distance.
LEMMA CornersApart ==
    ASSUME NEW list, IsList(list), NEW length \in Nat, validateCorners(list, length),
           NEW i \in DOMAIN list, IsManual(list[i]),
           NEW j \in DOMAIN list, IsManual(list[j]), i < j,
           NEW x \in Nat, NEW isClosed \in BOOLEAN,
           containsDistance(list[i], x, isClosed), containsDistance(list[j], x, isClosed)
    PROVE  FALSE
<1>1. i \in 1 .. Len(list) /\ j \in 1 .. Len(list) /\ Len(list) \in Nat
  BY DEF IsList
<1>2. /\ list[i].start \in 0 .. length /\ list[i].end \in 0 .. length /\ list[i].start # list[i].end
      /\ list[j].start \in 0 .. length /\ list[j].end \in 0 .. length /\ list[j].start # list[j].end
  BY CornerFacts
<1>3. ~WrapsAround(list[i])
  BY CornerFacts
<1>4. list[i].start <= x /\ x < list[i].end
  BY <1>2, <1>3 DEF WrapsAround, containsDistance
<1>5. list[i].end <= list[j].start
  BY CornersOrdered
<1>6. WrapsAround(list[j]) /\ x < list[j].end
  BY <1>2, <1>4, <1>5 DEF WrapsAround, containsDistance
<1> DEFINE manual == {k \in 1 .. j : IsManual(list[k])}
           first == Min(manual)
<1>7. first \in manual /\ first <= i
  <2>1. manual \in SUBSET Nat /\ i \in manual
    BY <1>1
  <2> HIDE DEF manual
  <2> QED BY <2>1, MinIsFirst
<1>8. first \in DOMAIN list /\ IsManual(list[first]) /\ first \in Nat /\ first < j
  BY <1>1, <1>7 DEF IsList
<1>9. list[j].end <= list[first].start
  <2>1. ClearOfFirst(list[j], j, list)
    BY CornerFacts
  <2>2. Len(list) > 1
    BY <1>1
  <2> QED BY <1>6, <2>1, <2>2 DEF ClearOfFirst
<1> HIDE DEF first
<1>10. CASE first = i
  BY <1>2, <1>4, <1>6, <1>9, <1>10
<1>11. CASE first < i
  <2>1. list[first].end <= list[i].start
    BY <1>8, <1>11, CornersOrdered
  <2>2. /\ list[first].start \in 0 .. length /\ list[first].end \in 0 .. length
        /\ list[first].start # list[first].end
    BY <1>8, CornerFacts
  <2>3. ~WrapsAround(list[first])
    BY <1>8, CornerFacts
  <2> QED BY <1>2, <1>4, <1>6, <1>9, <2>1, <2>2, <2>3 DEF WrapsAround
<1> QED BY <1>1, <1>7, <1>8, <1>10, <1>11

\* The corners that contain a distance of the lap: none, or one.
CornersAt(list, x, isClosed) ==
    {i \in DOMAIN list : IsManual(list[i]) /\ containsDistance(list[i], x, isClosed)}

\* ResolveCurrent finds the corner that contains the distance, where there is one.
LEMMA ResolvesOnlyCorner ==
    ASSUME NEW list, IsList(list), NEW length \in Nat, validateCorners(list, length),
           NEW x \in Nat, NEW isClosed \in BOOLEAN
    PROVE  LET here == CornersAt(list, x, isClosed)
               found == IF here # {} THEN Min(here) ELSE 0
           IN  Cardinality(here) <= 1 /\ here = {found} \ {0}
<1> DEFINE here == CornersAt(list, x, isClosed)
<1>1. here \in SUBSET Nat /\ 0 \notin here
  BY DEF IsList, CornersAt
<1>2. ASSUME NEW i \in here, NEW j \in here
      PROVE  i = j
  <2>1. i \in Nat /\ j \in Nat
    BY <1>1
  <2>2. /\ i \in DOMAIN list /\ IsManual(list[i]) /\ containsDistance(list[i], x, isClosed)
        /\ j \in DOMAIN list /\ IsManual(list[j]) /\ containsDistance(list[j], x, isClosed)
    BY DEF CornersAt
  <2>3. ~(i < j) /\ ~(j < i)
    BY <2>2, CornersApart
  <2> QED BY <2>1, <2>3
<1> HIDE DEF here
<1>3. CASE here = {}
  BY <1>3, FS_EmptySet DEF here
<1>4. CASE here # {}
  <2>1. Min(here) \in here
    BY <1>1, <1>4, MinIsFirst
  <2>2. here = {Min(here)}
    BY <1>2, <2>1
  <2>3. Cardinality(here) = 1
    BY <2>2, FS_Singleton
  <2>4. here = {Min(here)} \ {0}
    BY <1>1, <2>1, <2>2
  <2> QED BY <1>4, <2>3, <2>4 DEF here
<1> QED BY <1>3, <1>4

\* For every length and every list of corners that validateCorners accepts: a
\* distance lies in one corner at most, over the start line too, and the first
\* match of ResolveCurrent is that corner.
THEOREM EveryDistanceHasOneCorner ==
    ASSUME NEW list, IsList(list), list # <<>>, NEW length \in Nat \ {0},
           validateCorners(list, length), NEW d \in Nat, NEW isClosed \in BOOLEAN
    PROVE  OneCornerAt(list, length, d, isClosed)
<1> DEFINE x == d % length
           here == CornersAt(list, x, isClosed)
           first == IF here # {} THEN Min(here) ELSE 0
           found == ResolveCurrent(list, length, d, isClosed)
<1>1. x \in Nat /\ (d < length => x = d)
  OBVIOUS
<1>2. Cardinality(here) <= 1 /\ here = {first} \ {0}
  <2> HIDE DEF x
  <2> QED BY <1>1, ResolvesOnlyCorner
<1>3. isClosed \/ d < length => found = first
  <2> SUFFICES ASSUME isClosed \/ d < length PROVE found = first
    OBVIOUS
  <2> DEFINE y == IF isClosed THEN normalizeDistance(d, length) ELSE d
  <2>1. y = x
    BY <1>1 DEF normalizeDistance
  <2>2. ~(~isClosed /\ y \notin 0 .. length - 1)
    OBVIOUS
  <2>3. found = LET I == {i \in 1 .. Len(list) : IsManual(list[i]) /\ containsDistance(list[i], y, isClosed)}
                IN  IF I # {} THEN Min(I) ELSE 0
    <3> HIDE DEF x
    <3> QED BY <2>2 DEF ResolveCurrent, SelectInSeq
  <2>4. {i \in 1 .. Len(list) : IsManual(list[i]) /\ containsDistance(list[i], y, isClosed)} = here
    BY <2>1 DEF CornersAt, IsList
  <2> HIDE DEF here, found, y
  <2> QED BY <2>3, <2>4
<1>4. NoCornerReason(list, length, d, isClosed) # "catalog_has_no_corners"
  BY DEF NoCornerReason
<1>5. here = {i \in DOMAIN list : IsManual(list[i]) /\ containsDistance(list[i], d % length, isClosed)}
  BY DEF CornersAt
<1> HIDE DEF here, found, first
<1>6. isClosed \/ d < length => here = {found} \ {0}
  BY <1>2, <1>3
<1> QED BY <1>2, <1>4, <1>5, <1>6 DEF OneCornerAt, found

\* The two together, of whatever catalog or list of corners is the input.
LEMMA InputIsSound ==
    ASSUME Is("catalog") => IsCatalog(input.value),
           Is("corners") => /\ IsList(input.list) /\ input.list # <<>>
                            /\ validateCorners(input.list, LapLength)
    PROVE  CatalogIsSound
<1>1. ListedIsSelectable
  BY EveryCatalogListsSelectable DEF ListedIsSelectable
<1>2. CornersDisjoint
  <2> SUFFICES ASSUME Is("corners"), NEW d \in 0 .. 2 * LapLength, NEW isClosed \in BOOLEAN
               PROVE  OneCornerAt(Built("corners"), LapLength, d, isClosed)
    BY DEF CornersDisjoint
  <2>1. Built("corners") = input.list
    BY DEF Built, Is
  <2>2. LapLength \in Nat \ {0} /\ d \in Nat
    BY DEF LapLength
  <2> HIDE DEF LapLength
  <2> QED BY <2>1, <2>2, EveryDistanceHasOneCorner
<1> QED BY <1>1, <1>2 DEF CatalogIsSound

-----------------------------------------------------------------------------
(* The inputs of the run.                                                  *)

CornerValues == Positioned \union {Corner(0, 0, 0, "catalog_enumerated")}

InputInv ==
    /\ Is("catalog") => IsCatalog(input.value)
    /\ Is("corners") => /\ input.list \in Seq(CornerValues) /\ input.list # <<>>
                        /\ validateCorners(input.list, LapLength)

\* A sequence is a list.
LEMMA SeqIsList ==
    ASSUME NEW S, NEW s \in Seq(S)
    PROVE  IsList(s)
BY DEF IsList

\* So is a bounded one.
LEMMA SeqOfIsSeq ==
    ASSUME NEW S, NEW n \in Nat, NEW s \in SeqOf(S, n)
    PROVE  s \in Seq(S)
BY DEF SeqOf

\* PickCatalog chooses a catalog.
LEMMA CatalogInput == PickCatalog => InputInv'
<1> SUFFICES ASSUME PickCatalog PROVE InputInv'
  OBVIOUS
<1>1. PICK first \in TracksWith(SeqOf(LayoutsWith({2, 3}), 2)),
           second \in TracksWith(SeqOf(LayoutsWith({4}), 1)) :
         Pick("catalog", CatalogOf(<<first, second>>))
  BY DEF PickCatalog
<1>2. ASSUME NEW ids, NEW n \in Nat, NEW t \in TracksWith(SeqOf(LayoutsWith(ids), n))
      PROVE  IsList(t.layouts) /\ \A j \in DOMAIN t.layouts : t.layouts[j].length \in Int
  <2>1. t.layouts \in SeqOf(LayoutsWith(ids), n)
    BY DEF TracksWith
  <2>2. \A l \in LayoutsWith(ids) : l.length \in Int
    BY DEF LayoutsWith, CatalogLayout
  <2>3. t.layouts \in Seq(LayoutsWith(ids))
    BY <2>1, SeqOfIsSeq
  <2>4. \A j \in DOMAIN t.layouts : t.layouts[j] \in LayoutsWith(ids)
    BY <2>3
  <2> QED BY <2>2, <2>3, <2>4, SeqIsList
<1>3. /\ IsList(first.layouts) /\ \A j \in DOMAIN first.layouts : first.layouts[j].length \in Int
      /\ IsList(second.layouts) /\ \A j \in DOMAIN second.layouts : second.layouts[j].length \in Int
  BY <1>1, <1>2
<1> DEFINE c == CatalogOf(<<first, second>>)
<1>4. c.tracks = <<first, second>>
  BY DEF CatalogOf
<1>5. IsCatalog(c)
  <2> HIDE DEF c
  <2> QED BY <1>3, <1>4 DEF IsCatalog, IsList
<1>6. input' = [kind |-> "catalog", value |-> c]
  BY <1>1 DEF Pick
<1> HIDE DEF c
<1>7. input'.value = c /\ input'.kind = "catalog"
  BY <1>6
<1> QED BY <1>5, <1>7 DEF InputInv, Is

\* AddCorner keeps to lists that validateCorners accepts.
LEMMA CornersInput == InputInv /\ AddCorner => InputInv'
<1> SUFFICES ASSUME InputInv, AddCorner PROVE InputInv'
  OBVIOUS
<1>1. PICK c \in CornerValues : /\ validateCorners(Append(Built("corners"), c), LapLength)
                                /\ Extend("corners", MaxList, c)
  BY DEF AddCorner, CornerValues
<1>2. Built("corners") \in Seq(CornerValues)
  BY DEF Built, Is, InputInv
<1>3. /\ Append(Built("corners"), c) \in Seq(CornerValues)
      /\ Append(Built("corners"), c) # <<>>
  <2> DEFINE b == Built("corners")
  <2> HIDE DEF b, CornerValues
  <2> QED BY <1>2, AppendProperties DEF b
<1>4. input'.kind = "corners" /\ input'.list = Append(Built("corners"), c)
  BY <1>1 DEF Extend
<1> QED BY <1>1, <1>3, <1>4 DEF InputInv, Is

\* An input of another kind is none of the two.
LEMMA OtherInput ==
    ASSUME NEW kind, kind \notin {"catalog", "corners"},
           \/ \E bound, x : Extend(kind, bound, x)
           \/ \E x : Pick(kind, x)
    PROVE  InputInv'
<1>1. input'.kind = kind
  BY DEF Extend, Pick
<1> QED BY <1>1 DEF InputInv, Is

\* In every behaviour of the run, whatever its bounds, the catalogs list what
\* can be selected and detected, and a distance names one corner at most.
THEOREM CatalogSoundness == FunctionsSpec => []CatalogIsSound
<1>1. FunctionsInit => InputInv
  BY DEF FunctionsInit, NoInput, InputInv, Is
<1>2. InputInv /\ [FunctionsNext]_functionVars => InputInv'
  <2> SUFFICES ASSUME InputInv, [FunctionsNext]_functionVars PROVE InputInv'
    OBVIOUS
  <2>1. CASE UNCHANGED input
    BY <2>1 DEF InputInv, Is
  <2>2. CASE AcceptFrame
    <3>1. \E bound, x : Extend("frames", bound, x)
      BY <2>2, Zenon DEF AcceptFrame
    <3> QED BY <3>1, OtherInput
  <2>3. CASE ReceiveFrame
    <3>1. \E bound, x : Extend("body", bound, x)
      BY <2>3, Zenon DEF ReceiveFrame
    <3> QED BY <3>1, OtherInput
  <2>4. CASE ListEntry
    <3>1. \E bound, x : Extend("manifest", bound, x)
      BY <2>4, Zenon DEF ListEntry
    <3> QED BY <3>1, OtherInput
  <2>5. CASE TakeSample
    <3>1. \E bound, x : Extend("pass", bound, x)
      BY <2>5, Zenon DEF TakeSample
    <3> QED BY <3>1, OtherInput
  <2>6. CASE DriveOn
    <3>1. \E bound, x : Extend("drive", bound, x)
      BY <2>6, Zenon DEF DriveOn
    <3> QED BY <3>1, OtherInput
  <2>7. CASE StoreEvent
    <3>1. \E bound, x : Extend("events", bound, x)
      BY <2>7, Zenon DEF StoreEvent
    <3> QED BY <3>1, OtherInput
  <2>8. CASE CompleteLap
    <3>1. \E bound, x : Extend("laps", bound, x)
      BY <2>8 DEF CompleteLap
    <3> QED BY <3>1, OtherInput
  <2>9. CASE PickStore
    <3>1. \E x : Pick("store", x)
      BY <2>9, Zenon DEF PickStore
    <3> QED BY <3>1, OtherInput
  <2>10. CASE PickLap
    <3>1. \E x : Pick("lap", x)
      BY <2>10 DEF PickLap
    <3> QED BY <3>1, OtherInput
  <2>11. CASE PickSeedLap
    <3>1. \E x : Pick("seed", x)
      BY <2>11, Zenon DEF PickSeedLap
    <3> QED BY <3>1, OtherInput
  <2> QED
    BY <2>1, <2>2, <2>3, <2>4, <2>5, <2>6, <2>7, <2>8, <2>9, <2>10, <2>11,
       CatalogInput, CornersInput, Zenon DEF FunctionsNext, Drive, functionVars
<1>3. InputInv => CatalogIsSound
  BY InputIsSound, SeqIsList DEF InputInv
<1> QED BY <1>1, <1>2, <1>3, PTL DEF FunctionsSpec

-----------------------------------------------------------------------------
(* The range of a corner.                                                  *)

\* The catalog and the corner analysis check the range of a corner with code
\* of their own; they accept the same corners, for every length.
THEOREM RangeChecksAgree ==
    ASSUME NEW c, NEW length \in Nat
    PROVE  validateCornerRange(c, length) <=> validCornerRange(c, length)
<1>1. CASE {c.start, c.apex, c.end} \subseteq 0 .. length
  <2>1. c.start \in Int /\ c.apex \in Int /\ c.end \in Int
    BY <1>1
  <2> QED BY <1>1, <2>1 DEF validateCornerRange, validCornerRange, WrapsAround
<1>2. CASE ~({c.start, c.apex, c.end} \subseteq 0 .. length)
  BY <1>2 DEF validateCornerRange, validCornerRange
<1> QED BY <1>1, <1>2
====
