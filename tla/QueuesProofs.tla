------------------------------ MODULE QueuesProofs ------------------------------
(***************************************************************************)
(* Proofs about the queue of scheduled messages and the outbox, for any    *)
(* number of items, messages, replicas and faults.                         *)
(***************************************************************************)
EXTENDS Queues, FiniteSetTheorems, SequenceTheorems, TLAPS

USE ReplicasAssumption, LoopFaultsAssumption, BatchAssumption

-------------------------------------------------------------------------------
(* Rounds.                                                                 *)

Distinct(s) == \A j, k \in DOMAIN s : s[j] = s[k] => j = k
Elements(s) == {s[k] : k \in DOMAIN s}

\* Dropping the head of a sequence without repetitions takes just it away.
LEMMA TailElements ==
  ASSUME NEW S, NEW s \in Seq(S), s # << >>, Distinct(s)
  PROVE  /\ Tail(s) \in Seq(S) /\ Distinct(Tail(s))
         /\ Elements(Tail(s)) = Elements(s) \ {Head(s)}
         /\ Head(s) \in S /\ Head(s) \in Elements(s)
         /\ Tail(s) = << >> <=> Len(s) = 1
  <1>1. /\ Tail(s) \in Seq(S) /\ Len(Tail(s)) = Len(s) - 1 /\ Len(s) \in Nat \ {0}
        /\ \A k \in 1 .. Len(s) - 1 : Tail(s)[k] = s[k + 1]
        /\ DOMAIN s = 1 .. Len(s) /\ DOMAIN Tail(s) = 1 .. Len(s) - 1
        /\ Head(s) = s[1]
    OBVIOUS
  <1>2. Distinct(Tail(s))
    BY <1>1 DEF Distinct
  <1>3. ASSUME NEW x \in Elements(Tail(s))
        PROVE  x \in Elements(s) \ {Head(s)}
    <2>1. PICK k \in 1 .. Len(s) - 1 : x = s[k + 1]
      BY <1>1 DEF Elements
    <2>2. k + 1 \in DOMAIN s /\ 1 \in DOMAIN s /\ k + 1 # 1
      BY <1>1, <2>1
    <2> QED
      BY <1>1, <2>1, <2>2 DEF Elements, Distinct
  <1>4. ASSUME NEW x \in Elements(s) \ {Head(s)}
        PROVE  x \in Elements(Tail(s))
    <2>1. PICK k \in 1 .. Len(s) : x = s[k]
      BY <1>1 DEF Elements
    <2>2. k # 1
      BY <1>1, <2>1
    <2>3. k - 1 \in 1 .. Len(s) - 1 /\ (k - 1) + 1 = k
      BY <1>1, <2>1, <2>2
    <2> QED
      BY <1>1, <2>1, <2>3 DEF Elements
  <1>5. Head(s) \in S /\ Head(s) \in Elements(s)
    BY <1>1 DEF Elements
  <1>6. Tail(s) = << >> <=> Len(s) = 1
    BY <1>1
  <1> QED
    BY <1>1, <1>2, <1>3, <1>4, <1>5, <1>6

-------------------------------------------------------------------------------
(* The invariant.                                                          *)

ScheduledTypeOK ==
  /\ itemStatus \in [Items -> {"none", "pending", "sent", "cancelled"}]
  /\ due \subseteq Items /\ IsFiniteSet(due)
  /\ loopAt \in [Replicas -> {"sleep", "member", "store", "announce", "mark"}]
  /\ round \in [Replicas -> Seq(Items)]
  /\ copies \in [Items -> Nat]
  /\ loopFaults \in Nat

\* A replica awake has an item at hand, and no item twice.
RoundsApart ==
  \A r \in Replicas :
    (loopAt[r] = "sleep" <=> round[r] = << >>) /\ Distinct(round[r])

\* Replicas that may have stored the item and have not marked it yet, and
\* replicas that have still to come to it.
PastStore(i) ==
  {r \in Replicas : loopAt[r] \in {"announce", "mark"} /\ Head(round[r]) = i}
Ahead(i) == {r \in Replicas : i \in Elements(round[r])} \ PastStore(i)

\* Before the first mark a copy belongs to a replica about to mark, or to a
\* fault; after it no replica takes the item up anew.
CopiesCounted ==
  \A i \in Items :
    /\ itemStatus[i] = "none" =>
         copies[i] = 0 /\ \A r \in Replicas : i \notin Elements(round[r])
    /\ itemStatus[i] \in {"pending", "cancelled"} =>
         copies[i] <= Cardinality(PastStore(i)) + loopFaults
    /\ itemStatus[i] = "sent" =>
         copies[i] + Cardinality(Ahead(i)) <= Cardinality(Replicas) + loopFaults

ScheduledInv == ScheduledTypeOK /\ RoundsApart /\ CopiesCounted

LEMMA ScheduledInitInv == ScheduledInit => ScheduledInv
  BY FS_EmptySet
     DEF ScheduledInit, ScheduledInv, ScheduledTypeOK, RoundsApart, CopiesCounted,
         Distinct, Elements

\* No replica is counted twice.
LEMMA Counts ==
  ASSUME NEW i
  PROVE  /\ IsFiniteSet(PastStore(i)) /\ Cardinality(PastStore(i)) \in Nat
         /\ IsFiniteSet(Ahead(i)) /\ Cardinality(Ahead(i)) \in Nat
         /\ Cardinality(Replicas) \in Nat
         /\ Cardinality(PastStore(i)) + Cardinality(Ahead(i)) <= Cardinality(Replicas)
  <1>1. PastStore(i) \in SUBSET Replicas /\ Ahead(i) \in SUBSET Replicas
    BY DEF PastStore, Ahead
  <1>2. IsFiniteSet(PastStore(i)) /\ IsFiniteSet(Ahead(i))
    BY <1>1, FS_Subset
  <1>3. PastStore(i) \cap Ahead(i) = {}
    BY DEF Ahead
  <1>4. PastStore(i) \cup Ahead(i) \in SUBSET Replicas
    BY <1>1
  <1>5. /\ Cardinality(PastStore(i)) \in Nat /\ Cardinality(Ahead(i)) \in Nat
        /\ Cardinality(Replicas) \in Nat
    BY <1>2, FS_CardinalityType
  <1>6. Cardinality(PastStore(i) \cup Ahead(i))
          = Cardinality(PastStore(i)) + Cardinality(Ahead(i)) - Cardinality(PastStore(i) \cap Ahead(i))
    BY <1>2, FS_Union
  <1>7. Cardinality(PastStore(i) \cap Ahead(i)) = 0
    BY <1>3, FS_EmptySet
  <1>8. Cardinality(PastStore(i) \cup Ahead(i)) <= Cardinality(Replicas)
    BY <1>4, FS_Subset
  <1> QED
    BY <1>2, <1>5, <1>6, <1>7, <1>8

\* The same of the next state.
LEMMA CountsNext ==
  ASSUME NEW i
  PROVE  /\ IsFiniteSet(PastStore(i)') /\ Cardinality(PastStore(i)') \in Nat
         /\ IsFiniteSet(Ahead(i)') /\ Cardinality(Ahead(i)') \in Nat
  <1>1. PastStore(i)' \in SUBSET Replicas /\ Ahead(i)' \in SUBSET Replicas
    BY DEF PastStore, Ahead
  <1>2. IsFiniteSet(PastStore(i)') /\ IsFiniteSet(Ahead(i)')
    BY <1>1, FS_Subset
  <1> QED
    BY <1>2, FS_CardinalityType

\* A step that stores nothing and changes no status may move replicas on towards
\* their marks, and take up pending items.
LEMMA MovesCounted ==
  ASSUME ScheduledInv, UNCHANGED <<itemStatus, copies, loopFaults>>,
         \A i \in Items : PastStore(i) \subseteq PastStore(i)',
         \A i \in Items : itemStatus[i] # "pending" =>
           /\ Ahead(i)' \subseteq Ahead(i)
           /\ \A r \in Replicas : i \in Elements(round'[r]) => i \in Elements(round[r])
  PROVE  CopiesCounted'
  <1> SUFFICES ASSUME NEW i \in Items
               PROVE  /\ itemStatus[i] = "none" =>
                           copies[i] = 0 /\ \A r \in Replicas : i \notin Elements(round'[r])
                      /\ itemStatus[i] \in {"pending", "cancelled"} =>
                           copies[i] <= Cardinality(PastStore(i)') + loopFaults
                      /\ itemStatus[i] = "sent" =>
                           copies[i] + Cardinality(Ahead(i)')
                             <= Cardinality(Replicas) + loopFaults
    BY DEF CopiesCounted
  <1>1. Cardinality(PastStore(i)) <= Cardinality(PastStore(i)')
    BY CountsNext, FS_Subset
  <1>2. itemStatus[i] = "sent" => Cardinality(Ahead(i)') <= Cardinality(Ahead(i))
    BY Counts, FS_Subset
  <1>3. copies[i] \in Nat /\ loopFaults \in Nat
    BY DEF ScheduledInv, ScheduledTypeOK
  <1> QED
    BY <1>1, <1>2, <1>3, Counts, CountsNext DEF ScheduledInv, CopiesCounted

\* Requests of the author, and time, move no replica.
LEMMA RequestInv ==
  ASSUME ScheduledInv, NEW i \in Items, Create(i) \/ FallDue(i) \/ Cancel(i)
  PROVE  ScheduledInv'
  <1>1. IsFiniteSet(due \union {i})
    BY FS_AddElement DEF ScheduledInv, ScheduledTypeOK
  <1>2. ScheduledTypeOK' /\ RoundsApart'
    BY <1>1 DEF ScheduledInv, ScheduledTypeOK, RoundsApart, Create, FallDue, Cancel
  <1>3. \A j \in Items : PastStore(j)' = PastStore(j) /\ Ahead(j)' = Ahead(j)
    BY DEF Create, FallDue, Cancel, PastStore, Ahead
  <1>4. CASE Create(i)
    <2>1. copies[i] <= Cardinality(PastStore(i)) + loopFaults
      BY <1>4, Counts DEF Create, ScheduledInv, ScheduledTypeOK, CopiesCounted
    <2> QED
      BY <1>2, <1>3, <1>4, <2>1
         DEF Create, ScheduledInv, ScheduledTypeOK, CopiesCounted
  <1>5. CASE FallDue(i)
    BY <1>2, <1>3, <1>5 DEF FallDue, ScheduledInv, CopiesCounted
  <1>6. CASE Cancel(i)
    BY <1>2, <1>3, <1>6 DEF Cancel, ScheduledInv, ScheduledTypeOK, CopiesCounted
  <1> QED
    BY <1>4, <1>5, <1>6

\* A round is some of the waiting items, none twice.
LEMMA RoundsType ==
  ASSUME ScheduledInv, Waiting # {}, NEW t \in Rounds
  PROVE  t \in Seq(Items) /\ t # << >> /\ Distinct(t) /\ Elements(t) \subseteq Waiting
  <1>1. Waiting \in SUBSET due /\ IsFiniteSet(due)
    BY DEF Waiting, ScheduledInv, ScheduledTypeOK
  <1>2. IsFiniteSet(Waiting)
    BY <1>1, FS_Subset
  <1>3. Cardinality(Waiting) \in Nat \ {0}
    BY <1>2, FS_CardinalityType, FS_EmptySet
  <1>4. RoundSize \in Nat \ {0}
    BY <1>3 DEF RoundSize
  <1>5. t \in [1 .. RoundSize -> Items] /\ \A k \in 1 .. RoundSize : t[k] \in Waiting
    BY DEF Rounds, Waiting, ScheduledInv, ScheduledTypeOK
  <1>6. t \in Seq(Items) /\ Len(t) = RoundSize
    BY <1>4, <1>5
  <1>7. t # << >>
    BY <1>4, <1>6
  <1>8. Distinct(t) /\ Elements(t) \subseteq Waiting
    BY <1>5 DEF Rounds, Distinct, Elements
  <1> QED
    BY <1>6, <1>7, <1>8

LEMMA FetchInv ==
  ASSUME ScheduledInv, NEW r \in Replicas, Fetch(r)
  PROVE  ScheduledInv'
  <1>1. PICK t \in Rounds : round' = [round EXCEPT ![r] = t]
    BY DEF Fetch
  <1>2. t \in Seq(Items) /\ t # << >> /\ Distinct(t) /\ Elements(t) \subseteq Waiting
    BY <1>1, RoundsType DEF Fetch
  <1>3. /\ loopAt[r] = "sleep" /\ loopAt' = [loopAt EXCEPT ![r] = "member"]
        /\ round[r] = << >>
    BY DEF Fetch, ScheduledInv, RoundsApart
  <1>4. ScheduledTypeOK'
    BY <1>1, <1>2, <1>3 DEF Fetch, itemVars, ScheduledInv, ScheduledTypeOK
  <1>5. RoundsApart'
    BY <1>1, <1>2, <1>3 DEF ScheduledInv, ScheduledTypeOK, RoundsApart
  <1>6. \A i \in Items : PastStore(i)' = PastStore(i)
    BY <1>1, <1>3 DEF PastStore, ScheduledInv, ScheduledTypeOK
  <1>7. \A i \in Items : itemStatus[i] # "pending" =>
          \A q \in Replicas : i \in Elements(round'[q]) => i \in Elements(round[q])
    BY <1>1, <1>2 DEF Waiting, ScheduledInv, ScheduledTypeOK
  <1>8. \A i \in Items : itemStatus[i] # "pending" => Ahead(i)' \subseteq Ahead(i)
    BY <1>6, <1>7 DEF Ahead
  <1>9. CopiesCounted'
    BY <1>6, <1>7, <1>8, MovesCounted DEF Fetch, itemVars
  <1> QED
    BY <1>4, <1>5, <1>9 DEF ScheduledInv

\* Steps within an item that store nothing.
LEMMA WalkInv ==
  ASSUME ScheduledInv, NEW r \in Replicas,
         CheckMember(r) \/ Announce(r) \/ DeliveryFails(r)
  PROVE  ScheduledInv'
  <1>1. /\ UNCHANGED <<itemStatus, due, round, copies, loopFaults>>
        /\ \E step \in {"store", "mark"} :
             /\ loopAt' = [loopAt EXCEPT ![r] = step]
             /\ loopAt[r] \notin {"sleep", "mark"}
             /\ loopAt[r] = "announce" => step = "mark"
    BY DEF CheckMember, Announce, DeliveryFails, AfterDelivery, LoopGo, itemVars
  <1>2. ScheduledTypeOK' /\ RoundsApart'
    BY <1>1 DEF ScheduledInv, ScheduledTypeOK, RoundsApart
  <1>3. \A i \in Items : PastStore(i) \subseteq PastStore(i)'
    BY <1>1 DEF PastStore, ScheduledInv, ScheduledTypeOK
  <1>4. \A i \in Items : Ahead(i)' \subseteq Ahead(i)
    BY <1>1, <1>3 DEF Ahead
  <1>5. CopiesCounted'
    BY <1>1, <1>3, <1>4, MovesCounted
  <1> QED
    BY <1>2, <1>5 DEF ScheduledInv

LEMMA StoreInv ==
  ASSUME ScheduledInv, NEW r \in Replicas, Store(r)
  PROVE  ScheduledInv'
  <1>0. /\ round[r] \in Seq(Items) /\ round[r] # << >> /\ Distinct(round[r])
    BY DEF Store, ScheduledInv, ScheduledTypeOK, RoundsApart
  <1>2. PICK i \in Items : i = Head(round[r]) /\ i \in Elements(round[r])
    BY <1>0, TailElements
  <1>1. /\ UNCHANGED <<itemStatus, due, round, loopFaults>>
        /\ loopAt[r] = "store" /\ loopAt' = [loopAt EXCEPT ![r] = "announce"]
        /\ copies' = [copies EXCEPT ![i] = @ + 1]
    BY <1>2 DEF Store, LoopGo, itemVars
  <1>3. ScheduledTypeOK' /\ RoundsApart'
    BY <1>1, <1>2 DEF ScheduledInv, ScheduledTypeOK, RoundsApart
  <1>4. /\ PastStore(i)' = PastStore(i) \cup {r} /\ r \notin PastStore(i)
        /\ Ahead(i)' = Ahead(i) \ {r} /\ r \in Ahead(i)
    BY <1>1, <1>2 DEF PastStore, Ahead, ScheduledInv, ScheduledTypeOK
  <1>5. \A j \in Items \ {i} : PastStore(j)' = PastStore(j) /\ Ahead(j)' = Ahead(j)
    BY <1>1, <1>2 DEF PastStore, Ahead, ScheduledInv, ScheduledTypeOK
  <1>6. /\ Cardinality(PastStore(i)') = Cardinality(PastStore(i)) + 1
        /\ Cardinality(Ahead(i)') = Cardinality(Ahead(i)) - 1
    <2>1. IsFiniteSet(PastStore(i)) /\ IsFiniteSet(Ahead(i))
      BY Counts
    <2>2. Cardinality(PastStore(i) \cup {r}) = Cardinality(PastStore(i)) + 1
      BY <1>4, <2>1, FS_AddElement
    <2>3. Cardinality(Ahead(i) \ {r}) = Cardinality(Ahead(i)) - 1
      BY <1>4, <2>1, FS_RemoveElement
    <2> QED
      BY <1>4, <2>2, <2>3
  <1>7. /\ copies[i] \in Nat /\ loopFaults \in Nat /\ copies'[i] = copies[i] + 1
        /\ \A j \in Items \ {i} : copies'[j] = copies[j]
    BY <1>1, <1>2 DEF ScheduledInv, ScheduledTypeOK
  <1>8. itemStatus[i] # "none"
    BY <1>2 DEF ScheduledInv, CopiesCounted
  <1>9. CopiesCounted'
    <2> SUFFICES ASSUME NEW j \in Items
                 PROVE  /\ itemStatus[j] = "none" =>
                             copies'[j] = 0 /\ \A q \in Replicas : j \notin Elements(round[q])
                        /\ itemStatus[j] \in {"pending", "cancelled"} =>
                             copies'[j] <= Cardinality(PastStore(j)') + loopFaults
                        /\ itemStatus[j] = "sent" =>
                             copies'[j] + Cardinality(Ahead(j)')
                               <= Cardinality(Replicas) + loopFaults
      BY <1>1 DEF CopiesCounted
    <2>1. CASE j = i
      <3>1. /\ itemStatus[i] \in {"pending", "cancelled"} =>
                 copies[i] <= Cardinality(PastStore(i)) + loopFaults
            /\ itemStatus[i] = "sent" =>
                 copies[i] + Cardinality(Ahead(i)) <= Cardinality(Replicas) + loopFaults
        BY DEF ScheduledInv, CopiesCounted
      <3>2. /\ Cardinality(PastStore(i)) \in Nat /\ Cardinality(Ahead(i)) \in Nat
            /\ Cardinality(Replicas) \in Nat
        BY Counts
      <3> QED
        BY <1>6, <1>7, <1>8, <2>1, <3>1, <3>2
    <2>2. CASE j # i
      BY <2>2, <1>5, <1>7 DEF ScheduledInv, CopiesCounted
    <2> QED
      BY <2>1, <2>2
  <1> QED
    BY <1>3, <1>9 DEF ScheduledInv

LEMMA MarkInv ==
  ASSUME ScheduledInv, NEW r \in Replicas, Mark(r)
  PROVE  ScheduledInv'
  <1>0. /\ round[r] \in Seq(Items) /\ round[r] # << >> /\ Distinct(round[r])
    BY DEF Mark, ScheduledInv, ScheduledTypeOK, RoundsApart
  <1>2. PICK i \in Items :
          /\ i = Head(round[r]) /\ i \in Elements(round[r])
          /\ Tail(round[r]) \in Seq(Items) /\ Distinct(Tail(round[r]))
          /\ Elements(Tail(round[r])) = Elements(round[r]) \ {i}
          /\ Tail(round[r]) = << >> <=> Len(round[r]) = 1
    BY <1>0, TailElements
  <1>1. /\ UNCHANGED <<due, copies, loopFaults>>
        /\ loopAt[r] = "mark"
        /\ loopAt' = [loopAt EXCEPT ![r] = IF Len(round[r]) = 1 THEN "sleep" ELSE "member"]
        /\ round' = [round EXCEPT ![r] = Tail(round[r])]
        /\ itemStatus' = [itemStatus EXCEPT ![i] = "sent"]
    BY <1>2 DEF Mark, LoopGo, RoundOver
  <1>3. ScheduledTypeOK'
    BY <1>1, <1>2 DEF ScheduledInv, ScheduledTypeOK
  <1>4. RoundsApart'
    BY <1>1, <1>2 DEF ScheduledInv, ScheduledTypeOK, RoundsApart
  <1>5. \A q \in Replicas : Elements(round'[q]) \subseteq Elements(round[q])
    BY <1>1, <1>2 DEF ScheduledInv, ScheduledTypeOK
  <1>6. \A j \in Items \ {i} : PastStore(j)' = PastStore(j) /\ Ahead(j)' \subseteq Ahead(j)
    BY <1>1, <1>2, <1>5 DEF PastStore, Ahead, ScheduledInv, ScheduledTypeOK
  <1>7. Ahead(i)' \subseteq Ahead(i)
    <2>1. r \notin Ahead(i)'
      BY <1>1, <1>2 DEF Ahead, ScheduledInv, ScheduledTypeOK
    <2>2. \A q \in Replicas \ {r} : q \in PastStore(i) => q \in PastStore(i)'
      BY <1>1 DEF PastStore, ScheduledInv, ScheduledTypeOK
    <2> QED
      BY <1>5, <2>1, <2>2 DEF Ahead
  <1>8. ASSUME NEW j \in Items
        PROVE  Cardinality(Ahead(j)') <= Cardinality(Ahead(j))
    <2>1. Ahead(j)' \in SUBSET Ahead(j)
      BY <1>6, <1>7
    <2> QED
      BY <2>1, Counts, FS_Subset
  <1>9. itemStatus[i] # "none"
    BY <1>2 DEF ScheduledInv, CopiesCounted
  <1>10. CopiesCounted'
    <2> SUFFICES ASSUME NEW j \in Items
                 PROVE  /\ itemStatus'[j] = "none" =>
                             copies[j] = 0 /\ \A q \in Replicas : j \notin Elements(round'[q])
                        /\ itemStatus'[j] \in {"pending", "cancelled"} =>
                             copies[j] <= Cardinality(PastStore(j)') + loopFaults
                        /\ itemStatus'[j] = "sent" =>
                             copies[j] + Cardinality(Ahead(j)')
                               <= Cardinality(Replicas) + loopFaults
      BY <1>1 DEF CopiesCounted
    <2>1. /\ copies[j] \in Nat /\ loopFaults \in Nat
          /\ itemStatus[j] \in {"none", "pending", "sent", "cancelled"}
      BY DEF ScheduledInv, ScheduledTypeOK
    <2>2. Cardinality(Ahead(j)') <= Cardinality(Ahead(j)) /\ Cardinality(Ahead(j)') \in Nat
      BY <1>8, CountsNext
    <2>3. CASE j = i
      <3>1. itemStatus'[j] = "sent"
        BY <1>1, <1>2, <2>3 DEF ScheduledInv, ScheduledTypeOK
      <3>2. copies[j] + Cardinality(Ahead(j)) <= Cardinality(Replicas) + loopFaults
        BY <1>9, <2>1, <2>3, Counts DEF ScheduledInv, CopiesCounted
      <3> QED
        BY <2>1, <2>2, <3>1, <3>2, Counts
    <2>4. CASE j # i
      <3>1. itemStatus'[j] = itemStatus[j]
        BY <1>1, <1>2, <2>4 DEF ScheduledInv, ScheduledTypeOK
      <3> QED
        BY <1>5, <1>6, <2>1, <2>2, <2>4, <3>1, Counts DEF ScheduledInv, CopiesCounted
    <2> QED
      BY <2>3, <2>4
  <1> QED
    BY <1>3, <1>4, <1>10 DEF ScheduledInv

\* A round cut short may leave one copy unmarked: the fault accounts for it.
LEMMA GiveUpInv ==
  ASSUME ScheduledInv, NEW r \in Replicas, GiveUp(r)
  PROVE  ScheduledInv'
  <1>1. /\ UNCHANGED <<itemStatus, due, copies>> /\ loopFaults' = loopFaults + 1
        /\ loopAt' = [loopAt EXCEPT ![r] = "sleep"]
        /\ round' = [round EXCEPT ![r] = << >>]
    BY DEF GiveUp, LoopGo, itemVars
  <1>2. Distinct(<< >>) /\ Elements(<< >>) = {} /\ << >> \in Seq(Items)
    BY DEF Distinct, Elements
  <1>3. ScheduledTypeOK' /\ RoundsApart'
    BY <1>1, <1>2 DEF ScheduledInv, ScheduledTypeOK, RoundsApart
  <1>4. \A i \in Items : /\ PastStore(i)' = PastStore(i) \ {r}
                         /\ Ahead(i)' = Ahead(i) \ {r}
    BY <1>1, <1>2 DEF PastStore, Ahead, ScheduledInv, ScheduledTypeOK
  <1>5. \A q \in Replicas : Elements(round'[q]) \subseteq Elements(round[q])
    BY <1>1, <1>2 DEF ScheduledInv, ScheduledTypeOK
  <1>6. ASSUME NEW i \in Items
        PROVE  /\ Cardinality(PastStore(i)) <= Cardinality(PastStore(i)') + 1
               /\ Cardinality(Ahead(i)') <= Cardinality(Ahead(i))
    <2>1. /\ IsFiniteSet(PastStore(i)) /\ Cardinality(PastStore(i)) \in Nat
          /\ IsFiniteSet(Ahead(i)) /\ Cardinality(Ahead(i)) \in Nat
      BY Counts
    <2>2. Cardinality(PastStore(i) \ {r}) \in {Cardinality(PastStore(i)),
                                              Cardinality(PastStore(i)) - 1}
      BY <2>1, FS_RemoveElement
    <2>3. Cardinality(Ahead(i) \ {r}) \in {Cardinality(Ahead(i)), Cardinality(Ahead(i)) - 1}
      BY <2>1, FS_RemoveElement
    <2>4. PastStore(i)' = PastStore(i) \ {r} /\ Ahead(i)' = Ahead(i) \ {r}
      BY <1>4
    <2> QED
      BY <2>1, <2>2, <2>3, <2>4
  <1>7. CopiesCounted'
    <2> SUFFICES ASSUME NEW i \in Items
                 PROVE  /\ itemStatus[i] = "none" =>
                             copies[i] = 0 /\ \A q \in Replicas : i \notin Elements(round'[q])
                        /\ itemStatus[i] \in {"pending", "cancelled"} =>
                             copies[i] <= Cardinality(PastStore(i)') + loopFaults + 1
                        /\ itemStatus[i] = "sent" =>
                             copies[i] + Cardinality(Ahead(i)')
                               <= Cardinality(Replicas) + loopFaults + 1
      <3>1. loopFaults \in Nat
        BY DEF ScheduledInv, ScheduledTypeOK
      <3>2. \A i \in Items : Cardinality(PastStore(i)') \in Nat /\ Cardinality(Ahead(i)') \in Nat
        BY CountsNext
      <3>3. Cardinality(Replicas) \in Nat
        BY Counts
      <3> QED
        BY <1>1, <3>1, <3>2, <3>3 DEF CopiesCounted
    <2>1. copies[i] \in Nat /\ loopFaults \in Nat
      BY DEF ScheduledInv, ScheduledTypeOK
    <2>2. /\ Cardinality(PastStore(i)) \in Nat /\ Cardinality(Ahead(i)) \in Nat
          /\ Cardinality(PastStore(i)') \in Nat /\ Cardinality(Ahead(i)') \in Nat
          /\ Cardinality(Replicas) \in Nat
      BY Counts, CountsNext
    <2>3. /\ itemStatus[i] = "none" =>
               copies[i] = 0 /\ \A q \in Replicas : i \notin Elements(round[q])
          /\ itemStatus[i] \in {"pending", "cancelled"} =>
               copies[i] <= Cardinality(PastStore(i)) + loopFaults
          /\ itemStatus[i] = "sent" =>
               copies[i] + Cardinality(Ahead(i)) <= Cardinality(Replicas) + loopFaults
      BY DEF ScheduledInv, CopiesCounted
    <2> QED
      BY <1>5, <1>6, <2>1, <2>2, <2>3
  <1> QED
    BY <1>3, <1>7 DEF ScheduledInv

LEMMA ScheduledNextInv == ScheduledInv /\ [ScheduledNext]_scheduledVars => ScheduledInv'
  <1> SUFFICES ASSUME ScheduledInv, [ScheduledNext]_scheduledVars
               PROVE  ScheduledInv'
    OBVIOUS
  <1>1. ASSUME UNCHANGED scheduledVars
        PROVE  ScheduledInv'
    BY <1>1
       DEF scheduledVars, ScheduledInv, ScheduledTypeOK, RoundsApart, CopiesCounted,
           PastStore, Ahead
  <1>2. ASSUME NEW s \in Standings, SetStanding(s)
        PROVE  ScheduledInv'
    BY <1>2
       DEF SetStanding, itemVars, ScheduledInv, ScheduledTypeOK, RoundsApart,
           CopiesCounted, PastStore, Ahead
  <1>3. ASSUME NEW r \in Replicas, QueryFails(r) \/ Crash(r)
        PROVE  ScheduledInv'
    BY <1>3, GiveUpInv DEF QueryFails, Crash
  <1> QED
    BY <1>1, <1>2, <1>3, RequestInv, FetchInv, WalkInv, StoreInv, MarkInv
       DEF ScheduledNext, LoopStep

\* ScheduledInv is inductive.
THEOREM ScheduledInvariance == ScheduledSpec => []ScheduledInv
  BY ScheduledInitInv, ScheduledNextInv, PTL DEF ScheduledSpec

\* Whatever the interleaving of replicas, cancellations and faults, an item is
\* stored at most once per replica and once more per round cut short.
THEOREM ScheduledCopies == ScheduledSpec => []CopiesExplained
  <1>1. ScheduledInv => CopiesExplained
    <2> SUFFICES ASSUME ScheduledInv, NEW i \in Items
                 PROVE  copies[i] <= Cardinality(Replicas) + loopFaults
      BY DEF CopiesExplained
    <2>1. /\ copies[i] \in Nat /\ loopFaults \in Nat
          /\ itemStatus[i] \in {"none", "pending", "sent", "cancelled"}
      BY DEF ScheduledInv, ScheduledTypeOK
    <2> QED
      BY <2>1, Counts DEF ScheduledInv, CopiesCounted
  <1> QED
    BY <1>1, ScheduledInvariance, PTL

\* Without faults an item that reads "cancelled" when no round holds it was never
\* stored.
THEOREM ScheduledCancellation == ScheduledSpec => []CancelledUnsent
  <1>1. ScheduledInv => CancelledUnsent
    <2> SUFFICES ASSUME ScheduledInv, NEW i \in Items, itemStatus[i] = "cancelled",
                        \A r \in Replicas : i \notin Held(r), loopFaults = 0
                 PROVE  copies[i] = 0
      BY DEF CancelledUnsent
    <2>2. PastStore(i) = {}
      <3> SUFFICES ASSUME NEW r \in PastStore(i) PROVE FALSE
        OBVIOUS
      <3>1. /\ r \in Replicas /\ Head(round[r]) = i
            /\ round[r] \in Seq(Items) /\ round[r] # << >> /\ Distinct(round[r])
        BY DEF PastStore, ScheduledInv, ScheduledTypeOK, RoundsApart
      <3>2. i \in Elements(round[r])
        BY <3>1, TailElements
      <3> QED
        BY <3>1, <3>2 DEF Held, Elements
    <2> QED
      <3>1. copies[i] <= Cardinality(PastStore(i)) + loopFaults
        BY DEF ScheduledInv, CopiesCounted
      <3>2. copies[i] \in Nat /\ Cardinality(PastStore(i)) = 0
        BY <2>2, FS_EmptySet DEF ScheduledInv, ScheduledTypeOK
      <3> QED
        BY <3>1, <3>2
  <1> QED
    BY <1>1, ScheduledInvariance, PTL

-------------------------------------------------------------------------------
(* The outbox.                                                             *)

Item == [id : Msgs, attempts : Nat]
Reply == [name : {"auth.ok"}] \union [name : {"ok", "error"}, id : Msgs]

\* The queue, the frames and the answers are sequences, requests are records, and
\* whatever was answered "ok" is stored.
OutboxInv ==
  /\ queue \in Seq(Item) /\ frames \in Seq(Msgs) /\ replies \in Seq(Reply)
  /\ \A q \in rest : q = [by |-> q.by, id |-> q.id, answer |-> q.answer]
  /\ \A k \in DOMAIN replies : replies[k].name = "ok" => replies[k].id \in stored
  /\ \A q \in rest : q.answer = "ok" => q.id \in stored

\* The items at the positions kept are all that filter returns, and it returns no other.
LEMMA Filtered ==
  ASSUME queue \in Seq(Item), NEW kept \in SUBSET DOMAIN queue
  PROVE  /\ Keeping(kept) \in Seq(Item)
         /\ \A k \in kept : \E n \in DOMAIN Keeping(kept) : Keeping(kept)[n] = queue[k]
         /\ \A n \in DOMAIN Keeping(kept) : \E k \in kept : Keeping(kept)[n] = queue[k]
  <1> DEFINE place == [k \in kept |-> Cardinality({j \in kept : j <= k})]
             c == Cardinality(kept)
             pick == [n \in 1 .. c |-> CHOOSE k \in kept : place[k] = n]
  <1>1. /\ Len(queue) \in Nat /\ DOMAIN queue = 1 .. Len(queue)
        /\ \A k \in 1 .. Len(queue) : queue[k] \in Item
    OBVIOUS
  <1>2. kept \subseteq Nat /\ IsFiniteSet(kept) /\ c \in Nat
    <2>1. kept \in SUBSET (1 .. Len(queue)) /\ kept \subseteq Nat
      BY <1>1
    <2>2. IsFiniteSet(1 .. Len(queue))
      BY <1>1, FS_Interval
    <2>3. IsFiniteSet(kept)
      BY <2>1, <2>2, FS_Subset
    <2> QED
      BY <2>1, <2>3, FS_CardinalityType
  <1>3. ASSUME NEW i \in kept
        PROVE  place[i] \in 1 .. c
    <2> DEFINE L == {j \in kept : j <= i}
    <2>1. L \in SUBSET kept /\ i \in L
      BY <1>2
    <2>2. IsFiniteSet(L) /\ Cardinality(L) <= c /\ Cardinality(L) \in Nat
      BY <1>2, <2>1, FS_Subset, FS_CardinalityType
    <2>3. Cardinality(L) # 0
      BY <2>1, <2>2, FS_EmptySet
    <2> QED
      BY <1>2, <2>2, <2>3
  <1>4. ASSUME NEW i \in kept, NEW j \in kept, i < j
        PROVE  place[i] # place[j]
    <2> DEFINE L == {h \in kept : h <= i}
               M == {h \in kept : h <= j}
    <2>1. L \in SUBSET M /\ j \in M /\ j \notin L /\ M \in SUBSET kept
      BY <1>2, <1>4
    <2>2. IsFiniteSet(M)
      BY <1>2, <2>1, FS_Subset
    <2>3. Cardinality(L) # Cardinality(M)
      BY <2>1, <2>2, FS_Subset
    <2> QED
      BY <2>3
  <1>5. place \in Injection(kept, 1 .. c)
    <2>1. place \in [kept -> 1 .. c]
      BY <1>3
    <2>2. \A i \in kept, j \in kept : i < j => place[i] # place[j]
      BY <1>4
    <2> HIDE DEF place
    <2>3. \A i \in kept, j \in kept : place[i] = place[j] => i = j
      BY <1>2, <2>2
    <2> QED
      BY <2>1, <2>3 DEF Injection, IsInjective
  <1>6. IsFiniteSet(1 .. c) /\ Cardinality(1 .. c) = c
    BY <1>2, FS_Interval
  <1>7. place \in Surjection(kept, 1 .. c)
    BY <1>5, <1>6, FS_Injection
  <1> HIDE DEF place
  <1>8. ASSUME NEW n \in 1 .. c
        PROVE  pick[n] \in kept /\ place[pick[n]] = n
    <2>1. \E k \in kept : place[k] = n
      BY <1>7 DEF Surjection
    <2> QED
      BY <2>1
  <1>9. ASSUME NEW k \in kept
        PROVE  place[k] \in 1 .. c /\ pick[place[k]] = k
    <2>1. place[k] \in 1 .. c
      BY <1>5 DEF Injection
    <2> QED
      BY <1>5, <1>8, <2>1 DEF Injection, IsInjective
  <1>10. Keeping(kept) = [n \in 1 .. c |-> queue[pick[n]]]
    BY DEF Keeping, place
  <1> HIDE DEF pick, c
  <1>11. Keeping(kept) \in Seq(Item)
    BY <1>1, <1>2, <1>8, <1>10
  <1>12. ASSUME NEW k \in kept
         PROVE  \E n \in DOMAIN Keeping(kept) : Keeping(kept)[n] = queue[k]
    BY <1>9, <1>10
  <1>13. ASSUME NEW n \in DOMAIN Keeping(kept)
         PROVE  \E k \in kept : Keeping(kept)[n] = queue[k]
    BY <1>8, <1>10
  <1> QED
    BY <1>11, <1>12, <1>13

\* What is eligible is a sequence of messages, whatever the attempts it asks for.
LEMMA Eligible ==
  ASSUME queue \in Seq(Item)
  PROVE  RestEligible \in Seq(Msgs) /\ WsEligible \in Seq(Msgs)
  <1>1. ASSUME NEW kept \in SUBSET DOMAIN queue
        PROVE  Ids(Keeping(kept)) \in Seq(Msgs)
    <2>1. PICK s \in Seq(Item) : s = Keeping(kept)
      BY Filtered
    <2>2. /\ Len(s) \in Nat /\ DOMAIN s = 1 .. Len(s)
          /\ \A k \in 1 .. Len(s) : s[k].id \in Msgs
      <3>1. \A k \in 1 .. Len(s) : s[k] \in Item
        OBVIOUS
      <3>2. \A i \in Item : i.id \in Msgs
        BY DEF Item
      <3> QED
        BY <3>1, <3>2
    <2>3. Ids(s) = [k \in 1 .. Len(s) |-> s[k].id]
      BY <2>2 DEF Ids
    <2>4. Ids(s) \in Seq(Msgs)
      BY <2>2, <2>3
    <2> QED
      BY <2>1, <2>4
  <1> QED
    BY <1>1 DEF RestEligible, WsEligible

\* A queue without one message's items still has all other messages.
LEMMA RemovedKeeps ==
  ASSUME queue \in Seq(Item), NEW x, queue' = Removed(x)
  PROVE  /\ queue' \in Seq(Item)
         /\ \A m : m # x /\ IsQueued(m) => IsQueued(m)'
  <1> DEFINE kept == {k \in DOMAIN queue : queue[k].id # x}
  <1>1. kept \in SUBSET DOMAIN queue /\ queue' = Keeping(kept)
    BY DEF Removed
  <1>2. /\ queue' \in Seq(Item)
        /\ \A k \in kept : \E n \in DOMAIN queue' : queue'[n] = queue[k]
    <2> HIDE DEF kept
    <2>1. /\ Keeping(kept) \in Seq(Item)
          /\ \A k \in kept : \E n \in DOMAIN Keeping(kept) : Keeping(kept)[n] = queue[k]
      BY <1>1, Filtered
    <2> QED
      BY <1>1, <2>1
  <1>3. ASSUME NEW m, m # x, IsQueued(m)
        PROVE  IsQueued(m)'
    <2>1. PICK k \in DOMAIN queue : queue[k].id = m
      BY <1>3 DEF IsQueued
    <2>2. PICK n \in DOMAIN queue' : queue'[n] = queue[k]
      BY <1>2, <1>3, <2>1
    <2> QED
      BY <2>1, <2>2 DEF IsQueued
  <1> QED
    BY <1>2, <1>3

\* An attempt counted drops nothing, and nor does a message appended.
LEMMA BumpedKeeps ==
  ASSUME queue \in Seq(Item), NEW x, queue' = Bumped(x)
  PROVE  /\ queue' \in Seq(Item)
         /\ \A m : IsQueued(m) => IsQueued(m)'
  <1>1. /\ Len(queue) \in Nat /\ DOMAIN queue = 1 .. Len(queue)
        /\ \A k \in 1 .. Len(queue) : queue[k] \in Item
    OBVIOUS
  <1>2. queue' = [k \in 1 .. Len(queue) |->
           IF queue[k].id = x THEN [queue[k] EXCEPT !.attempts = @ + 1] ELSE queue[k]]
    BY <1>1 DEF Bumped
  <1>3. \A k \in 1 .. Len(queue) : queue'[k] \in Item /\ queue'[k].id = queue[k].id
    BY <1>1, <1>2 DEF Item
  <1> QED
    BY <1>1, <1>2, <1>3 DEF IsQueued

LEMMA AppendedKeeps ==
  ASSUME queue \in Seq(Item), NEW i \in Item, queue' = Append(queue, i)
  PROVE  /\ queue' \in Seq(Item)
         /\ \A m : IsQueued(m) => IsQueued(m)'
  <1>1. /\ queue' \in Seq(Item) /\ Len(queue) \in Nat /\ DOMAIN queue = 1 .. Len(queue)
        /\ DOMAIN queue' = 1 .. Len(queue) + 1
        /\ \A k \in 1 .. Len(queue) : queue'[k] = queue[k]
    OBVIOUS
  <1> QED
    BY <1>1 DEF IsQueued

LEMMA RequestFresh ==
  ASSUME NEW by, NEW ids, NEW q \in Request(by, ids)
  PROVE  q = [by |-> q.by, id |-> q.id, answer |-> q.answer] /\ q.answer = "none"
  BY DEF Request

LEMMA ServeStores ==
  ASSUME NEW m, NEW a, Serve(m, a)
  PROVE  stored \subseteq stored' /\ (a = "ok" => m \in stored')
  BY DEF Serve

\* The first of a sequence leaves it: what is left was there.
LEMMA RestOfIt ==
  ASSUME NEW S, NEW s \in Seq(S), s # << >>
  PROVE  /\ Head(s) \in S /\ Tail(s) \in Seq(S)
         /\ \A k \in DOMAIN Tail(s) : \E j \in DOMAIN s : Tail(s)[k] = s[j]
         /\ \E j \in DOMAIN s : Head(s) = s[j]
  <1>1. /\ Tail(s) \in Seq(S) /\ Len(Tail(s)) = Len(s) - 1 /\ Len(s) \in Nat \ {0}
        /\ \A k \in 1 .. Len(s) - 1 : Tail(s)[k] = s[k + 1]
        /\ DOMAIN s = 1 .. Len(s) /\ DOMAIN Tail(s) = 1 .. Len(s) - 1
        /\ Head(s) = s[1] /\ Head(s) \in S
    OBVIOUS
  <1>2. \A k \in 1 .. Len(s) - 1 : k + 1 \in 1 .. Len(s)
    BY <1>1
  <1> QED
    BY <1>1, <1>2

\* No step loses a message that is queued and not stored.
NoneLost == \A m \in Msgs : IsQueued(m) /\ ~ IsQueued(m)' => m \in stored

LEMMA WriteInv ==
  ASSUME OutboxInv, NEW m \in Msgs, WriteOpen(m) \/ WriteClosed(m)
  PROVE  OutboxInv' /\ NoneLost
  <1> USE DEF socket, server
  <1>1. CASE WriteOpen(m)
    <2>1. frames' \in Seq(Msgs)
      BY <1>1 DEF WriteOpen, OutboxInv
    <2>2. UNCHANGED <<queue, rest, replies, stored>>
      BY <1>1 DEF WriteOpen
    <2> QED
      BY <2>1, <2>2 DEF OutboxInv, NoneLost, IsQueued
  <1>2. CASE WriteClosed(m)
    <2>1. PICK i \in Item : queue' = Append(queue, i)
      BY <1>2 DEF WriteClosed, Item
    <2>2. queue' \in Seq(Item) /\ \A x : IsQueued(x) => IsQueued(x)'
      BY <2>1, AppendedKeeps DEF OutboxInv
    <2>3. UNCHANGED <<frames, replies, stored>>
      BY <1>2 DEF WriteClosed
    <2>4. rest' = rest \/ rest' = rest \union Request("sendText", <<m>>)
      BY <1>2 DEF WriteClosed
    <2>5. \A q \in rest' : q \in rest \/ q \in Request("sendText", <<m>>)
      BY <2>4
    <2>6. \A q \in rest' : /\ q = [by |-> q.by, id |-> q.id, answer |-> q.answer]
                           /\ q.answer = "ok" => q.id \in stored
      BY <2>5, RequestFresh DEF OutboxInv
    <2> QED
      BY <2>2, <2>3, <2>6 DEF OutboxInv, NoneLost
  <1> QED
    BY <1>1, <1>2

LEMMA RestServeInv ==
  ASSUME OutboxInv, NEW q \in rest, RestServe(q)
  PROVE  OutboxInv' /\ NoneLost
  <1>1. PICK a \in {"ok", "error"} :
          Serve(q.id, a) /\ rest' = (rest \ {q}) \union {[q EXCEPT !.answer = a]}
    BY DEF RestServe
  <1>2. stored \subseteq stored' /\ (a = "ok" => q.id \in stored')
    BY <1>1, ServeStores
  <1>3. UNCHANGED <<queue, frames, replies>>
    BY DEF RestServe, socket
  <1>4. q = [by |-> q.by, id |-> q.id, answer |-> q.answer]
    BY DEF OutboxInv
  <1>5. PICK r : r = [q EXCEPT !.answer = a]
    OBVIOUS
  <1>6. r = [by |-> r.by, id |-> r.id, answer |-> r.answer] /\ r.id = q.id /\ r.answer = a
    BY <1>4, <1>5
  <1>7. \A x \in rest' : x \in rest \/ x = r
    BY <1>1, <1>5
  <1>8. \A x \in rest' : /\ x = [by |-> x.by, id |-> x.id, answer |-> x.answer]
                         /\ x.answer = "ok" => x.id \in stored'
    BY <1>2, <1>6, <1>7 DEF OutboxInv
  <1> QED
    BY <1>2, <1>3, <1>8 DEF OutboxInv, NoneLost, IsQueued

LEMMA AnsweredInv ==
  ASSUME OutboxInv, NEW q \in rest, Answered(q)
  PROVE  OutboxInv' /\ NoneLost
  <1> USE DEF socket, server
  <1>1. UNCHANGED <<frames, replies, stored>>
    BY DEF Answered, DirectAnswer, FlushAnswer
  <1>2. \/ queue' = queue \/ queue' = Bumped(q.id)
        \/ queue' = Removed(q.id) /\ q.answer = "ok"
    BY DEF Answered, DirectAnswer, FlushAnswer, Replace, AfterError
  <1>3. queue' \in Seq(Item) /\ NoneLost
    <2>1. CASE queue' = queue
      BY <2>1 DEF OutboxInv, NoneLost, IsQueued
    <2>2. CASE queue' = Bumped(q.id)
      BY <2>2, BumpedKeeps DEF OutboxInv, NoneLost
    <2>3. CASE queue' = Removed(q.id) /\ q.answer = "ok"
      <3>1. q.id \in stored
        BY <2>3 DEF OutboxInv
      <3>2. queue' \in Seq(Item) /\ \A m : m # q.id /\ IsQueued(m) => IsQueued(m)'
        BY <2>3, RemovedKeeps DEF OutboxInv
      <3> QED
        BY <3>1, <3>2 DEF NoneLost
    <2> QED
      BY <1>2, <2>1, <2>2, <2>3
  <1>4. PICK ids : rest' \subseteq rest \union Request(q.by, ids)
    BY DEF Answered, DirectAnswer, FlushAnswer
  <1>5. \A x \in rest' : /\ x = [by |-> x.by, id |-> x.id, answer |-> x.answer]
                         /\ x.answer = "ok" => x.id \in stored
    BY <1>4, RequestFresh DEF OutboxInv
  <1> QED
    BY <1>1, <1>3, <1>5 DEF OutboxInv

LEMMA GatewayServeInv ==
  ASSUME OutboxInv, GatewayServe
  PROVE  OutboxInv' /\ NoneLost
  <1>1. PICK a \in {"ok", "error"} :
          /\ Serve(Head(frames), a)
          /\ replies' = Append(replies, [name |-> a, id |-> Head(frames)])
    BY DEF GatewayServe
  <1>2. frames # << >> /\ frames' = Tail(frames) /\ UNCHANGED <<queue, rest>>
    BY DEF GatewayServe
  <1>3. Head(frames) \in Msgs /\ Tail(frames) \in Seq(Msgs)
    BY <1>2, RestOfIt DEF OutboxInv
  <1>4. stored \subseteq stored' /\ (a = "ok" => Head(frames) \in stored')
    BY <1>1, ServeStores
  <1>5. PICK r \in Reply : r = [name |-> a, id |-> Head(frames)]
    BY <1>3 DEF Reply
  <1>6. /\ replies' \in Seq(Reply) /\ Len(replies) \in Nat /\ DOMAIN replies = 1 .. Len(replies)
        /\ DOMAIN replies' = 1 .. Len(replies) + 1
        /\ \A k \in 1 .. Len(replies) : replies'[k] = replies[k]
        /\ replies'[Len(replies) + 1] = r
    <2>1. replies \in Seq(Reply) /\ replies' = Append(replies, r)
      BY <1>1, <1>5 DEF OutboxInv
    <2> QED
      BY <2>1
  <1>7. \A k \in DOMAIN replies' : replies'[k].name = "ok" => replies'[k].id \in stored'
    <2> SUFFICES ASSUME NEW k \in 1 .. Len(replies) + 1, replies'[k].name = "ok"
                 PROVE  replies'[k].id \in stored'
      BY <1>6
    <2>1. CASE k \in 1 .. Len(replies)
      BY <1>4, <1>6, <2>1 DEF OutboxInv
    <2>2. CASE k = Len(replies) + 1
      BY <1>4, <1>5, <1>6, <2>2
    <2> QED
      BY <1>6, <2>1, <2>2
  <1> QED
    BY <1>2, <1>3, <1>4, <1>6, <1>7 DEF OutboxInv, NoneLost, IsQueued

\* A connection is opened or let in: what is eligible goes out.
LEMMA OpeningInv ==
  ASSUME OutboxInv, Connect \/ AuthOk
  PROVE  OutboxInv' /\ NoneLost
  <1> USE DEF server
  <1>1. UNCHANGED <<queue, stored>>
    BY DEF Connect, AuthOk
  <1>2. RestEligible \in Seq(Msgs) /\ WsEligible \in Seq(Msgs)
    BY Eligible DEF OutboxInv
  <1>3. frames' \in Seq(Msgs)
    <2>1. CASE Connect
      BY <1>2, <2>1 DEF Connect
    <2>2. CASE AuthOk
      <3>1. PICK w \in Seq(Msgs) : w = WsEligible
        BY <1>2
      <3>2. frames \in Seq(Msgs) /\ frames' = frames \o w
        BY <2>2, <3>1 DEF AuthOk, OutboxInv
      <3> QED
        BY <3>2
    <2> QED
      BY <2>1, <2>2
  <1>4. /\ replies' \in Seq(Reply)
        /\ \A k \in DOMAIN replies' : replies'[k].name = "ok" => replies'[k].id \in stored
    <2>1. CASE Connect
      <3>1. replies' = <<[name |-> "auth.ok"]>>
        BY <2>1 DEF Connect
      <3>2. [name |-> "auth.ok"] \in Reply
        BY DEF Reply
      <3>3. replies' \in Seq(Reply) /\ DOMAIN replies' = {1} /\ replies'[1].name = "auth.ok"
        BY <3>1, <3>2
      <3> QED
        BY <3>3
    <2>2. CASE AuthOk
      <3>1. replies # << >> /\ replies' = Tail(replies) /\ replies \in Seq(Reply)
        BY <2>2 DEF AuthOk, OutboxInv
      <3>2. /\ Tail(replies) \in Seq(Reply)
            /\ \A k \in DOMAIN Tail(replies) : \E j \in DOMAIN replies : Tail(replies)[k] = replies[j]
        BY <3>1, RestOfIt
      <3> QED
        BY <3>1, <3>2 DEF OutboxInv
    <2> QED
      BY <2>1, <2>2
  <1>5. \A q \in rest' : q \in rest \/ \E f \in Flushes : q \in Request(f, RestEligible)
    BY DEF Connect, AuthOk, StartFlushes, Flushes
  <1>6. \A q \in rest' : /\ q = [by |-> q.by, id |-> q.id, answer |-> q.answer]
                         /\ q.answer = "ok" => q.id \in stored
    BY <1>5, RequestFresh DEF OutboxInv
  <1> QED
    BY <1>1, <1>3, <1>4, <1>6 DEF OutboxInv, NoneLost, IsQueued

LEMMA WsReplyInv ==
  ASSUME OutboxInv, WsReply
  PROVE  OutboxInv' /\ NoneLost
  <1> USE DEF server
  <1>1. replies # << >> /\ replies' = Tail(replies) /\ UNCHANGED <<rest, frames, stored>>
    BY DEF WsReply
  <1>2. /\ Tail(replies) \in Seq(Reply)
        /\ \A k \in DOMAIN Tail(replies) : \E j \in DOMAIN replies : Tail(replies)[k] = replies[j]
        /\ \E j \in DOMAIN replies : Head(replies) = replies[j]
    BY <1>1, RestOfIt DEF OutboxInv
  <1>3. PICK m \in Msgs : \/ Head(replies) = [name |-> "ok", id |-> m] /\ queue' = Removed(m)
                          \/ queue' = Bumped(m)
    BY DEF WsReply, Replace
  <1>4. queue' \in Seq(Item) /\ NoneLost
    <2>1. CASE queue' = Bumped(m)
      BY <2>1, BumpedKeeps DEF OutboxInv, NoneLost
    <2>2. CASE Head(replies) = [name |-> "ok", id |-> m] /\ queue' = Removed(m)
      <3>1. PICK j \in DOMAIN replies : Head(replies) = replies[j]
        BY <1>2
      <3>2. replies[j].name = "ok" /\ replies[j].id = m
        BY <2>2, <3>1
      <3>3. m \in stored
        BY <3>2 DEF OutboxInv
      <3>4. queue' \in Seq(Item) /\ \A x : x # m /\ IsQueued(x) => IsQueued(x)'
        BY <2>2, RemovedKeeps DEF OutboxInv
      <3> QED
        BY <3>3, <3>4 DEF NoneLost
    <2> QED
      BY <1>3, <2>1, <2>2
  <1> QED
    BY <1>1, <1>2, <1>4 DEF OutboxInv

\* What neither answers nor sends.
LEMMA QuietInv ==
  ASSUME OutboxInv, Restart \/ CatchUp \/ Refresh \/ Drop \/ UNCHANGED vars
  PROVE  OutboxInv' /\ NoneLost
  <1> USE DEF socket, server
  <1>1. UNCHANGED <<queue, rest, stored>>
    BY DEF Restart, CatchUp, Refresh, Drop, vars
  <1>2. UNCHANGED <<frames, replies>> \/ (frames' = << >> /\ replies' = << >>)
    BY DEF Restart, CatchUp, Refresh, Drop, vars
  <1>3. << >> \in Seq(Msgs) /\ << >> \in Seq(Reply) /\ DOMAIN << >> = {}
    OBVIOUS
  <1> QED
    BY <1>1, <1>2, <1>3 DEF OutboxInv, NoneLost, IsQueued

LEMMA OutboxNextInv == OutboxInv /\ [Next]_vars => OutboxInv' /\ NoneLost
  <1> SUFFICES ASSUME OutboxInv, [Next]_vars PROVE OutboxInv' /\ NoneLost
    OBVIOUS
  <1>1. CASE Next
    <2>1. CASE \E m \in Msgs : WriteOpen(m) \/ WriteClosed(m)
      BY <2>1, WriteInv
    <2>2. CASE \E q \in rest : RestServe(q) \/ Answered(q)
      BY <2>2, RestServeInv, AnsweredInv
    <2>3. CASE GatewayServe \/ Connect \/ AuthOk \/ WsReply
      BY <2>3, GatewayServeInv, OpeningInv, WsReplyInv
    <2>4. CASE Restart \/ CatchUp \/ Refresh \/ Drop
      BY <2>4, QuietInv
    <2> QED
      BY <1>1, <2>1, <2>2, <2>3, <2>4 DEF Next
  <1>2. CASE UNCHANGED vars
    BY <1>2, QuietInv
  <1> QED
    BY <1>1, <1>2

\* Whatever says "ok" about a message, on the socket or by REST, finds it stored.
THEOREM OutboxInvariance == Spec => []OutboxInv
  <1>1. Init => OutboxInv
    BY DEF Init, OutboxInv
  <1> QED
    BY <1>1, OutboxNextInv, PTL DEF Spec

\* A message leaves the client's queue only when it is stored.
THEOREM QueuedUntilStored == Spec => KeptUntilStored
  <1>1. OutboxInv /\ [Next]_vars =>
          [\A m \in Msgs : IsQueued(m) /\ ~ IsQueued(m)' => m \in stored]_vars
    BY OutboxNextInv DEF NoneLost
  <1> QED
    BY <1>1, OutboxInvariance, PTL DEF Spec, KeptUntilStored

-------------------------------------------------------------------------------
(* The two queues.                                                         *)

LEMMA QueuesPart == QueuesSpec => ScheduledSpec
  <1>1. QueuesInit => ScheduledInit
    BY DEF QueuesInit
  <1>2. [QueuesNext]_queuesVars => [ScheduledNext]_scheduledVars
    BY DEF QueuesNext, Flushing, Scheduling, queuesVars
  <1> QED
    BY <1>1, <1>2, PTL DEF QueuesSpec, ScheduledSpec

\* Both hold of the two queues as they are run.
THEOREM QueuesHold == QueuesSpec => [](CopiesExplained /\ CancelledUnsent)
  BY QueuesPart, ScheduledCopies, ScheduledCancellation, PTL
================================================================================
