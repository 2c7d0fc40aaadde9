-------------------------- MODULE EventStoreProofs --------------------------
(***************************************************************************)
(* What both event repositories keep, for any number of calls, keys and    *)
(* timestamps, any cooldown and any limit of the in-memory store.          *)
(***************************************************************************)
EXTENDS EventStore, SequenceTheorems, TLAPS

Keys == {Key[c] : c \in Calls}

Events == {Event(c) : c \in Calls}

\* Only the PostgreSQL repository lets go of its mutex before it stores.
InsertsInPostgres == \A c \in Calls : pc[c] = "insert" => mode = "postgres"

\* The inductive invariant.  SeenIsNewest is what makes NeighboursApart inductive.
StoreIndInv ==
    /\ stored \in Seq(Events)
    /\ TypeOK
    /\ InsertsInPostgres
    /\ NeighboursApart
    /\ SeenIsNewest
    /\ VisibleOnce

-----------------------------------------------------------------------------
(* Events, and the lists they are kept in.                                 *)

\* What the fields of an event are.
LEMMA EventFields ==
    ASSUME NEW e \in Events
    PROVE  e.ts \in Nat /\ e.key \in Keys /\ e.id = IDOf[e.key]
BY EventsAssumption DEF Events, Event, Keys

\* Eviction keeps the end of the list: the same events, moved forward.
LEMMA EvictShifts ==
    ASSUME NEW list \in Seq(Events), Len(list) > 0
    PROVE  /\ Evict(list) \in Seq(Events)
           /\ Len(Evict(list)) <= EventLimit
           /\ \E d \in Nat :
                 /\ Len(Evict(list)) + d = Len(list)
                 /\ Len(Evict(list)) > 0
                 /\ \A i \in 1 .. Len(Evict(list)) : Evict(list)[i] = list[i + d]
<1>1. Len(list) \in Nat /\ EventLimit \in Nat /\ EventLimit > 0
  BY LimitAssumption, LenProperties
<1>2. CASE Len(list) > EventLimit
  <2> DEFINE m == Len(list) - EventLimit + 1
  <2>1. m \in Int /\ m <= Len(list) /\ m >= 1
    BY <1>1, <1>2
  <2>2. Evict(list) = SubSeq(list, m, Len(list))
    BY <1>2 DEF Evict
  <2>3. \A i \in m .. Len(list) : list[i] \in Events
    BY <1>1, <2>1, ElementOfSeq
  <2> HIDE DEF m
  <2>4. /\ Evict(list) \in Seq(Events)
        /\ Len(Evict(list)) = Len(list) - m + 1
        /\ \A i \in 1 .. Len(list) - m + 1 : Evict(list)[i] = list[m + i - 1]
    BY <1>1, <2>1, <2>2, <2>3, SubSeqProperties
  <2>5. Len(list) - m + 1 = EventLimit
    BY <1>1 DEF m
  <2>6. m - 1 \in Nat /\ EventLimit + (m - 1) = Len(list)
    BY <1>1, <2>1, <2>5
  <2>7. \A i \in 1 .. EventLimit : m + i - 1 = i + (m - 1)
    BY <1>1, <2>1
  <2> DEFINE d == m - 1
             kept == Evict(list)
  <2>8. /\ d \in Nat /\ Len(kept) = EventLimit /\ EventLimit + d = Len(list)
        /\ \A i \in 1 .. EventLimit : kept[i] = list[i + d]
    BY <2>4, <2>5, <2>6, <2>7
  <2>9. kept \in Seq(Events)
    BY <2>4
  <2> HIDE DEF d, kept
  <2>10. \E x \in Nat :
            /\ Len(kept) + x = Len(list)
            /\ Len(kept) > 0
            /\ \A i \in 1 .. Len(kept) : kept[i] = list[i + x]
    BY <1>1, <2>8
  <2>11. Len(kept) <= EventLimit
    BY <1>1, <2>8
  <2> QED BY <2>9, <2>10, <2>11 DEF kept
<1>3. CASE ~(Len(list) > EventLimit)
  <2>1. Evict(list) = list
    BY <1>3 DEF Evict
  <2>2. \A i \in 1 .. Len(list) : list[i] = list[i + 0]
    BY <1>1
  <2> QED BY <1>1, <1>3, <2>1, <2>2
<1> QED BY <1>2, <1>3

\* The list after Store(c): the new event is the last one, and what stands before
\* it stood d places further on.
LEMMA StoreShape ==
    ASSUME NEW c \in Calls, stored \in Seq(Events), Store(c)
    PROVE  /\ stored' \in Seq(Events)
           /\ Len(stored') <= EventLimit
           /\ Len(stored') \in Nat \ {0}
           /\ stored'[Len(stored')] = Event(c)
           /\ \E d \in Nat :
                 /\ Len(stored') + d = Len(stored) + 1
                 /\ \A i \in 1 .. Len(stored') - 1 :
                       i + d \in 1 .. Len(stored) /\ stored'[i] = stored[i + d]
<1> DEFINE longer == Append(stored, Event(c))
<1>1. Event(c) \in Events
  BY DEF Events
<1>2. /\ longer \in Seq(Events)
      /\ Len(longer) = Len(stored) + 1
      /\ \A i \in 1 .. Len(stored) : longer[i] = stored[i]
      /\ longer[Len(stored) + 1] = Event(c)
  BY <1>1, AppendProperties
<1>3. Len(stored) \in Nat
  BY LenProperties
<1>4. stored' = Evict(longer)
  BY DEF Store
<1> HIDE DEF longer
<1>5. Len(longer) > 0
  BY <1>2, <1>3
<1>6. /\ stored' \in Seq(Events)
      /\ Len(stored') <= EventLimit
      /\ \E d \in Nat :
            /\ Len(stored') + d = Len(longer)
            /\ Len(stored') > 0
            /\ \A i \in 1 .. Len(stored') : stored'[i] = longer[i + d]
  BY <1>2, <1>4, <1>5, EvictShifts
<1>7. Len(stored') \in Nat
  BY <1>6, LenProperties
<1>8. PICK d \in Nat :
            /\ Len(stored') + d = Len(stored) + 1
            /\ Len(stored') > 0
            /\ \A i \in 1 .. Len(stored') : stored'[i] = longer[i + d]
  BY <1>2, <1>6
<1>9. stored'[Len(stored')] = Event(c)
  BY <1>2, <1>7, <1>8
<1>10. ASSUME NEW i \in 1 .. Len(stored') - 1
       PROVE  i + d \in 1 .. Len(stored) /\ stored'[i] = stored[i + d]
  <2>1. i \in 1 .. Len(stored') /\ i + d \in 1 .. Len(stored)
    BY <1>3, <1>7, <1>8
  <2> QED BY <1>2, <1>8, <2>1
<1>11. Len(stored') \in Nat \ {0}
  BY <1>7, <1>8
<1>12. \E x \in Nat :
          /\ Len(stored') + x = Len(stored) + 1
          /\ \A i \in 1 .. Len(stored') - 1 :
                i + x \in 1 .. Len(stored) /\ stored'[i] = stored[i + x]
  BY <1>8, <1>10, Zenon
<1> QED BY <1>6, <1>9, <1>11, <1>12, Zenon

-----------------------------------------------------------------------------
(* The in-memory store.                                                    *)

\* What is stored is remembered, and eviction leaves the newest event of a key.
LEMMA StoreKeepsSeenIsNewest ==
    ASSUME StoreIndInv, NEW c \in Calls, Store(c)
    PROVE  SeenIsNewest'
<1> DEFINE n == Len(stored')
<1>1. /\ mode = "memory" /\ mode' = "memory"
      /\ seen' = Remember(seen, Key[c], Ts[c])
      /\ stored \in Seq(Events) /\ SeenIsNewest
  BY DEF Store, StoreIndInv
<1>2. /\ n \in Nat \ {0} /\ stored'[n] = Event(c)
      /\ stored' \in Seq(Events)
  BY <1>1, StoreShape
<1>3. PICK d \in Nat :
         /\ n + d = Len(stored) + 1
         /\ \A i \in 1 .. n - 1 : i + d \in 1 .. Len(stored) /\ stored'[i] = stored[i + d]
  BY <1>1, StoreShape
<1>4. Len(stored) \in Nat
  BY <1>1, LenProperties
<1>5. Event(c).key = Key[c] /\ Event(c).ts = Ts[c]
  BY DEF Event
<1>6. SUFFICES ASSUME NEW i \in 1 .. n,
                      \A j \in i + 1 .. n : stored'[i].key # stored'[j].key
               PROVE  /\ stored'[i].key \in DOMAIN seen'
                      /\ seen'[stored'[i].key] = stored'[i].ts
  BY <1>1 DEF SeenIsNewest, SameKey
<1> HIDE DEF n
<1>7. CASE i = n
  <2>1. stored'[i].key = Key[c] /\ stored'[i].ts = Ts[c]
    BY <1>2, <1>5, <1>7
  <2> QED BY <1>1, <2>1 DEF Remember
<1>8. CASE i # n
  <2>1. i \in 1 .. n - 1 /\ n \in i + 1 .. n
    BY <1>2, <1>8
  <2>2. stored'[i].key # Key[c]
    BY <1>2, <1>5, <1>6, <2>1
  <2>3. i + d \in 1 .. Len(stored) /\ stored'[i] = stored[i + d]
    BY <1>3, <2>1
  <2>4. ASSUME NEW j \in i + d + 1 .. Len(stored)
        PROVE  stored[i + d].key # stored[j].key
    <3>1. j - d \in i + 1 .. n /\ j - d \in 1 .. n - 1 /\ (j - d) + d = j
      BY <1>2, <1>3, <1>4
    <3>2. stored'[j - d] = stored[j]
      BY <1>3, <3>1
    <3> QED BY <1>6, <2>3, <3>1, <3>2
  <2>5. stored[i + d].key \in DOMAIN seen /\ seen[stored[i + d].key] = stored[i + d].ts
    BY <1>1, <2>3, <2>4 DEF SeenIsNewest, SameKey
  <2> QED BY <1>1, <2>2, <2>3, <2>5 DEF Remember
<1> QED BY <1>7, <1>8

\* What is stored was not suppressed, so it is a cooldown from the last of its key.
LEMMA StoreKeepsNeighboursApart ==
    ASSUME StoreIndInv, NEW c \in Calls, Store(c)
    PROVE  NeighboursApart'
<1> DEFINE n == Len(stored')
           Apart(x, y) == \/ y.ts - x.ts >= CooldownWindowMs
                          \/ x.ts - y.ts >= CooldownWindowMs
<1>1. /\ mode = "memory" /\ ~Suppressed(seen, Key[c], Ts[c])
      /\ stored \in Seq(Events) /\ SeenIsNewest /\ NeighboursApart
  BY DEF Store, StoreIndInv
<1>2. n \in Nat \ {0} /\ stored'[n] = Event(c)
  BY <1>1, StoreShape
<1>3. PICK d \in Nat :
         /\ n + d = Len(stored) + 1
         /\ \A i \in 1 .. n - 1 : i + d \in 1 .. Len(stored) /\ stored'[i] = stored[i + d]
  BY <1>1, StoreShape
<1>4. Len(stored) \in Nat
  BY <1>1, LenProperties
<1>5. Event(c).key = Key[c] /\ Event(c).ts = Ts[c] /\ Ts[c] \in Nat
  BY EventsAssumption DEF Event
<1>6. SUFFICES ASSUME NEW i \in 1 .. n, NEW j \in 1 .. n,
                      i < j, stored'[i].key = stored'[j].key,
                      \A k \in i + 1 .. j - 1 : stored'[i].key # stored'[k].key
               PROVE  Apart(stored'[i], stored'[j])
  BY DEF NeighboursApart, SameKey
<1> HIDE DEF n
<1>7. i \in 1 .. n - 1 /\ i + d \in 1 .. Len(stored) /\ stored'[i] = stored[i + d]
  BY <1>2, <1>3, <1>6
<1>8. stored[i + d] \in Events
  BY <1>1, <1>4, <1>7, ElementOfSeq
<1>9. stored[i + d].ts \in Nat
  BY <1>8, EventFields
<1>10. CASE j = n
  <2>1. ASSUME NEW k \in i + d + 1 .. Len(stored)
        PROVE  stored[i + d].key # stored[k].key
    <3>1. k - d \in i + 1 .. j - 1 /\ k - d \in 1 .. n - 1 /\ (k - d) + d = k
      BY <1>2, <1>3, <1>4, <1>10
    <3>2. stored'[k - d] = stored[k]
      BY <1>3, <3>1
    <3> QED BY <1>6, <1>7, <3>1, <3>2
  <2>2. stored[i + d].key \in DOMAIN seen /\ seen[stored[i + d].key] = stored[i + d].ts
    BY <1>1, <1>7, <2>1 DEF SeenIsNewest, SameKey
  <2>3. stored[i + d].key = Key[c] /\ stored'[j].ts = Ts[c]
    BY <1>2, <1>5, <1>6, <1>7, <1>10
  <2>4. /\ Key[c] \in DOMAIN seen /\ seen[Key[c]] = stored[i + d].ts
    BY <2>2, <2>3
  <2>5. \/ ~(Ts[c] - stored[i + d].ts < CooldownWindowMs)
        \/ ~(stored[i + d].ts - Ts[c] < CooldownWindowMs)
    BY <1>1, <2>4 DEF Suppressed
  <2>6. \/ Ts[c] - stored[i + d].ts >= CooldownWindowMs
        \/ stored[i + d].ts - Ts[c] >= CooldownWindowMs
    BY <1>5, <1>9, <2>5, CooldownAssumption
  <2> QED BY <1>7, <2>3, <2>6
<1>11. CASE j # n
  <2>1. j \in 1 .. n - 1 /\ j + d \in 1 .. Len(stored) /\ stored'[j] = stored[j + d]
    BY <1>2, <1>3, <1>11
  <2>2. i + d < j + d /\ stored[i + d].key = stored[j + d].key
    BY <1>6, <1>7, <2>1
  <2>3. ASSUME NEW k \in (i + d) + 1 .. (j + d) - 1
        PROVE  stored[i + d].key # stored[k].key
    <3>1. k - d \in i + 1 .. j - 1 /\ k - d \in 1 .. n - 1 /\ (k - d) + d = k
      BY <1>2, <1>3, <1>4, <2>1
    <3>2. stored'[k - d] = stored[k]
      BY <1>3, <3>1
    <3> QED BY <1>6, <1>7, <3>1, <3>2
  <2>4. Apart(stored[i + d], stored[j + d])
    BY <1>1, <1>7, <2>1, <2>2, <2>3 DEF NeighboursApart, SameKey
  <2> QED BY <1>7, <2>1, <2>4
<1> QED BY <1>10, <1>11

-----------------------------------------------------------------------------
(* The PostgreSQL repository.                                              *)

\* An insert adds its event at the end.
LEMMA InsertShape ==
    ASSUME NEW c \in Calls, stored \in Seq(Events), stored' = Append(stored, Event(c))
    PROVE  /\ stored' \in Seq(Events)
           /\ Len(stored') = Len(stored) + 1
           /\ Len(stored) \in Nat
           /\ stored'[Len(stored) + 1] = Event(c)
           /\ \A i \in 1 .. Len(stored) : stored'[i] = stored[i]
<1>1. Event(c) \in Events
  BY DEF Events
<1> QED BY <1>1, AppendProperties, LenProperties

\* A row is never taken away and never comes twice.
LEMMA InsertKeepsVisibleOnce ==
    ASSUME StoreIndInv, NEW c \in Calls, Insert(c)
    PROVE  VisibleOnce'
<1>1. /\ mode = "postgres" /\ stored \in Seq(Events) /\ VisibleOnce
      /\ result \in [Calls -> {"none", "suppressed", "accepted", "conflict", "error"}]
  BY DEF StoreIndInv, InsertsInPostgres, Insert, TypeOK
<1>2. Event(c).id = IDOf[Key[c]]
  BY DEF Event
<1>3. CASE /\ ~Visible(IDOf[Key[c]])
           /\ stored' = Append(stored, Event(c))
           /\ Return(c, "accepted")
  <2> DEFINE n == Len(stored)
  <2>1. /\ Len(stored') = n + 1 /\ n \in Nat /\ stored'[n + 1] = Event(c)
        /\ \A i \in 1 .. n : stored'[i] = stored[i]
    BY <1>1, <1>3, InsertShape
  <2>2. ASSUME NEW i \in 1 .. n + 1, NEW j \in 1 .. n + 1, i # j
        PROVE  stored'[i].id # stored'[j].id
    <3>1. \A k \in 1 .. n : stored[k].id # IDOf[Key[c]]
      BY <1>3 DEF Visible
    <3>2. CASE i = n + 1
      <4>1. j \in 1 .. n
        BY <2>1, <2>2, <3>2
      <4> QED BY <1>2, <2>1, <3>1, <3>2, <4>1
    <3>3. CASE j = n + 1
      <4>1. i \in 1 .. n
        BY <2>1, <2>2, <3>3
      <4> QED BY <1>2, <2>1, <3>1, <3>3, <4>1
    <3>4. CASE i # n + 1 /\ j # n + 1
      <4>1. i \in 1 .. n /\ j \in 1 .. n
        BY <2>1, <3>4
      <4> QED BY <1>1, <2>1, <2>2, <4>1 DEF VisibleOnce
    <3> QED BY <3>2, <3>3, <3>4
  <2>3. ASSUME NEW x \in Calls, result'[x] \in {"accepted", "conflict"}
        PROVE  Visible(IDOf[Key[x]])'
    <3>1. CASE x = c
      <4>1. n + 1 \in 1 .. Len(stored') /\ stored'[n + 1].id = IDOf[Key[x]]
        BY <1>2, <2>1, <3>1
      <4> QED BY <4>1 DEF Visible
    <3>2. CASE x # c
      <4>1. result[x] \in {"accepted", "conflict"}
        BY <1>1, <1>3, <2>3, <3>2 DEF Return
      <4>2. PICK i \in 1 .. n : stored[i].id = IDOf[Key[x]]
        BY <1>1, <4>1 DEF VisibleOnce, Visible
      <4>3. i \in 1 .. Len(stored') /\ stored'[i].id = IDOf[Key[x]]
        BY <2>1, <4>2
      <4> QED BY <4>3 DEF Visible
    <3> QED BY <3>1, <3>2
  <2> QED BY <2>1, <2>2, <2>3 DEF VisibleOnce
<1>4. CASE /\ Visible(IDOf[Key[c]])
           /\ Return(c, "conflict")
           /\ UNCHANGED stored
  BY <1>1, <1>4 DEF VisibleOnce, Visible, Return
<1> QED BY <1>3, <1>4 DEF Insert

-----------------------------------------------------------------------------
(* The invariant.                                                          *)

\* Both repositories start in order.
LEMMA InitStore == Init => StoreIndInv
<1> SUFFICES ASSUME Init PROVE StoreIndInv
  OBVIOUS
<1>1. stored = <<>> /\ stored \in Seq(Events) /\ Len(stored) = 0
  BY EmptySeq DEF Init
<1>2. TypeOK
  BY <1>1, LimitAssumption DEF Init, TypeOK, NothingSeen
<1>3. InsertsInPostgres
  BY DEF Init, InsertsInPostgres
<1>4. NeighboursApart /\ SeenIsNewest /\ VisibleOnce
  BY <1>1 DEF Init, NeighboursApart, SeenIsNewest, VisibleOnce
<1> QED BY <1>1, <1>2, <1>3, <1>4 DEF StoreIndInv

\* A step that keeps the list and the mode keeps everything that is said of them.
LEMMA SameRows ==
    ASSUME StoreIndInv, UNCHANGED <<stored, mode>>
    PROVE  /\ NeighboursApart'
           /\ seen' = seen => SeenIsNewest'
           /\ (\A c \in Calls : result'[c] \in {"accepted", "conflict"} =>
                                result[c] \in {"accepted", "conflict"}) => VisibleOnce'
<1>1. NeighboursApart'
  BY DEF StoreIndInv, NeighboursApart, SameKey
<1>2. seen' = seen => SeenIsNewest'
  BY DEF StoreIndInv, SeenIsNewest, SameKey
<1>3. (\A c \in Calls : result'[c] \in {"accepted", "conflict"} =>
                        result[c] \in {"accepted", "conflict"}) => VisibleOnce'
  BY DEF StoreIndInv, VisibleOnce, Visible
<1> QED BY <1>1, <1>2, <1>3

\* A call that returns without storing anything.
LEMMA ReturnKeepsInvariant ==
    ASSUME StoreIndInv, NEW c \in Calls, NEW value \in {"suppressed", "error"},
           Return(c, value), UNCHANGED <<stored, seen, mode>>
    PROVE  StoreIndInv'
<1>1. TypeOK'
  BY DEF StoreIndInv, TypeOK, Return
<1>2. InsertsInPostgres'
  BY DEF StoreIndInv, InsertsInPostgres, TypeOK, Return
<1>3. \A x \in Calls : result'[x] \in {"accepted", "conflict"} =>
                       result[x] \in {"accepted", "conflict"}
  BY DEF StoreIndInv, TypeOK, Return
<1> QED BY <1>1, <1>2, <1>3, SameRows DEF StoreIndInv

\* Storing in memory keeps the invariant.
LEMMA StoreKeepsInvariant ==
    ASSUME StoreIndInv, NEW c \in Calls, Store(c)
    PROVE  StoreIndInv'
<1>1. stored \in Seq(Events) /\ TypeOK /\ mode = "memory" /\ mode' = "memory"
  BY DEF StoreIndInv, Store
<1>2. stored' \in Seq(Events) /\ Len(stored') <= EventLimit /\ Len(stored') \in Nat
  BY <1>1, StoreShape
<1>3. TypeOK'
  <2>1. \A i \in 1 .. Len(stored') : stored'[i] \in Events
    BY <1>2, ElementOfSeq
  <2>2. \A k \in DOMAIN seen' : k \in {Key[x] : x \in Calls} /\ seen'[k] \in Nat
    BY <1>1, EventsAssumption DEF Store, Remember, TypeOK
  <2>3. /\ pc' \in [Calls -> {"idle", "insert", "done"}]
        /\ result' \in [Calls -> {"none", "suppressed", "accepted", "conflict", "error"}]
    BY <1>1 DEF Store, Return, TypeOK
  <2> QED BY <1>2, <2>1, <2>2, <2>3 DEF TypeOK, Events, Event
<1>4. InsertsInPostgres'
  BY <1>1 DEF StoreIndInv, InsertsInPostgres, Store, Return, TypeOK
<1>5. NeighboursApart' /\ SeenIsNewest'
  BY StoreKeepsNeighboursApart, StoreKeepsSeenIsNewest
<1>6. VisibleOnce'
  BY <1>1 DEF VisibleOnce
<1> QED BY <1>2, <1>3, <1>4, <1>5, <1>6 DEF StoreIndInv

\* So does a decision of the deduplicator in PostgreSQL,
LEMMA PassKeepsInvariant ==
    ASSUME StoreIndInv, NEW c \in Calls, Pass(c)
    PROVE  StoreIndInv'
<1>1. mode = "postgres" /\ UNCHANGED <<stored, result, mode>> /\ TypeOK
  BY DEF Pass, StoreIndInv
<1>2. TypeOK'
  <2>1. \A k \in DOMAIN seen' : k \in {Key[x] : x \in Calls} /\ seen'[k] \in Nat
    BY <1>1, EventsAssumption DEF Pass, Remember, TypeOK
  <2>2. pc' \in [Calls -> {"idle", "insert", "done"}]
    BY <1>1 DEF Pass, TypeOK
  <2> QED BY <1>1, <2>1, <2>2 DEF TypeOK, Event
<1>3. InsertsInPostgres'
  BY <1>1 DEF InsertsInPostgres
<1>4. SeenIsNewest'
  BY <1>1 DEF SeenIsNewest
<1> QED BY <1>1, <1>2, <1>3, <1>4, SameRows DEF StoreIndInv

\* the insert that follows it,
LEMMA InsertKeepsInvariant ==
    ASSUME StoreIndInv, NEW c \in Calls, Insert(c)
    PROVE  StoreIndInv'
<1>1. /\ mode = "postgres" /\ UNCHANGED <<mode, seen>> /\ TypeOK
      /\ stored \in Seq(Events)
  BY DEF StoreIndInv, InsertsInPostgres, Insert
<1>2. stored' \in Seq(Events)
  BY <1>1, InsertShape DEF Insert
<1>3. TypeOK'
  <2>1. \A i \in 1 .. Len(stored') : stored'[i] \in Events
    BY <1>2, ElementOfSeq
  <2>2. /\ pc' \in [Calls -> {"idle", "insert", "done"}]
        /\ result' \in [Calls -> {"none", "suppressed", "accepted", "conflict", "error"}]
    BY <1>1 DEF Insert, Return, TypeOK
  <2> QED BY <1>1, <2>1, <2>2 DEF TypeOK, Events, Event
<1>4. InsertsInPostgres' /\ NeighboursApart' /\ SeenIsNewest'
  BY <1>1 DEF InsertsInPostgres, NeighboursApart, SeenIsNewest
<1> QED BY <1>2, <1>3, <1>4, InsertKeepsVisibleOnce DEF StoreIndInv

\* a repeated call
LEMMA RetryKeepsInvariant ==
    ASSUME StoreIndInv, NEW c \in Calls, Retry(c)
    PROVE  StoreIndInv'
<1>1. UNCHANGED <<stored, seen, mode>>
  BY DEF Retry
<1>2. TypeOK'
  BY DEF StoreIndInv, TypeOK, Retry
<1>3. InsertsInPostgres'
  BY DEF StoreIndInv, InsertsInPostgres, TypeOK, Retry
<1>4. \A x \in Calls : result'[x] \in {"accepted", "conflict"} =>
                       result[x] \in {"accepted", "conflict"}
  BY DEF StoreIndInv, TypeOK, Retry
<1> QED BY <1>1, <1>2, <1>3, <1>4, SameRows DEF StoreIndInv

\* and a restart, which empties the deduplicator and the store in memory.
LEMMA RestartKeepsInvariant ==
    ASSUME StoreIndInv, Restart
    PROVE  StoreIndInv'
<1>1. InsertsInPostgres'
  BY DEF StoreIndInv, InsertsInPostgres, TypeOK, Restart
<1>2. \A x \in Calls : result'[x] \in {"accepted", "conflict"} =>
                       result[x] \in {"accepted", "conflict"}
  BY DEF StoreIndInv, TypeOK, Restart
<1>3. CASE mode = "memory"
  <2>1. stored' = <<>> /\ mode' = "memory" /\ stored' \in Seq(Events) /\ Len(stored') = 0
    BY <1>3, EmptySeq DEF Restart
  <2>2. TypeOK'
    BY <2>1, LimitAssumption DEF StoreIndInv, TypeOK, Restart, NothingSeen
  <2>3. NeighboursApart' /\ SeenIsNewest' /\ VisibleOnce'
    BY <2>1 DEF NeighboursApart, SeenIsNewest, VisibleOnce
  <2> QED BY <1>1, <2>1, <2>2, <2>3 DEF StoreIndInv
<1>4. CASE mode # "memory"
  <2>1. UNCHANGED <<stored, mode>>
    BY <1>4 DEF Restart
  <2>2. TypeOK'
    BY <2>1 DEF StoreIndInv, TypeOK, Restart, NothingSeen
  <2>3. SeenIsNewest'
    BY <1>4, <2>1 DEF SeenIsNewest
  <2> QED BY <1>1, <1>2, <2>1, <2>2, <2>3, SameRows DEF StoreIndInv
<1> QED BY <1>3, <1>4

\* Every step of either repository keeps the inductive invariant.
THEOREM StoreInductive == Spec => []StoreIndInv
<1>1. ASSUME StoreIndInv, [Next]_vars PROVE StoreIndInv'
  <2>1. ASSUME NEW c \in Calls, Suppress(c) PROVE StoreIndInv'
    BY <1>1, <2>1, ReturnKeepsInvariant DEF Suppress
  <2>2. ASSUME NEW c \in Calls, FailInsert(c) PROVE StoreIndInv'
    BY <1>1, <2>2, ReturnKeepsInvariant DEF FailInsert
  <2>3. CASE UNCHANGED vars
    <3>1. UNCHANGED <<mode, stored, seen, pc, result>>
      BY <2>3 DEF vars
    <3>2. TypeOK' /\ InsertsInPostgres'
      BY <1>1, <3>1 DEF StoreIndInv, TypeOK, InsertsInPostgres
    <3> QED BY <1>1, <3>1, <3>2, SameRows DEF StoreIndInv
  <2> QED BY <1>1, <2>1, <2>2, <2>3, StoreKeepsInvariant, PassKeepsInvariant,
             InsertKeepsInvariant, RetryKeepsInvariant, RestartKeepsInvariant DEF Next
<1> QED BY <1>1, InitStore, PTL DEF Spec

\* Both repositories keep the types of their state, and the in-memory one its limit.
THEOREM EventStoreTyped == Spec => []TypeOK
<1>1. StoreIndInv => TypeOK
  BY DEF StoreIndInv
<1> QED BY <1>1, StoreInductive, PTL

\* Two events of one key that follow each other in the in-memory store are at least
\* a cooldown apart, in whichever order their timestamps are, also after eviction.
THEOREM CooldownBetweenNeighbours == Spec => []NeighboursApart
<1>1. StoreIndInv => NeighboursApart
  BY DEF StoreIndInv
<1> QED BY <1>1, StoreInductive, PTL

\* The deduplicator agrees with the in-memory store about the newest event of a key.
THEOREM DeduplicatorAgrees == Spec => []SeenIsNewest
<1>1. StoreIndInv => SeenIsNewest
  BY DEF StoreIndInv
<1> QED BY <1>1, StoreInductive, PTL

\* In PostgreSQL an event ID is visible once and what was accepted stays visible,
\* across failing inserts, retries and any number of restarts.
THEOREM EventsVisibleOnce == Spec => []VisibleOnce
<1>1. StoreIndInv => VisibleOnce
  BY DEF StoreIndInv
<1> QED BY <1>1, StoreInductive, PTL
=============================================================================
