------------------------- MODULE PriorityQueueProofs -------------------------
(***************************************************************************)
(* The order of the priority queue, proved for every size, id set, width   *)
(* of the priority field and load; and that it implements the bag service  *)
(* of PriorityService for any load that leaves a slot free.  A cycle moves *)
(* the entries of a run of slots by one slot, which changes how often an   *)
(* entry is held only where the new entry comes in or the head goes out;   *)
(* the bag of pending entries is determined by those counts.               *)
(***************************************************************************)
EXTENDS MCPriorityQueue, Integers, FiniteSetTheorems, WellFoundedInduction, TLAPS

IInv == TypeOK /\ OrderInv

\* The comparison mask is a suffix of the queue: every slot behind a masked
\* slot is masked, so PriorityEncoder splits the queue in two.
LEMMA MaskIsSuffix ==
  ASSUME IInv, NEW e \in Entries, NEW i \in Slots, NEW j \in Slots,
         i < j, Masked(e, i)
  PROVE  Masked(e, j)
<1> USE SizeAssumption, PriorityAssumption, EntriesAssumption
<1>1. CASE ~queue[i].active
  BY <1>1 DEF IInv, TypeOK, OrderInv, ActivePrefix, Masked, Before
<1>2. CASE queue[i].active
  <2>1. e.priority < queue[i].entry.priority
    BY <1>2 DEF Masked, Before
  <2>2. CASE queue[j].active
    <3>1. queue[i].entry.priority <= queue[j].entry.priority
      BY <2>2 DEF IInv, OrderInv, Sorted
    <3>2. /\ e.priority \in Nat
          /\ queue[i].entry.priority \in Nat
          /\ queue[j].entry.priority \in Nat
      BY DEF IInv, TypeOK, SlotType, EntryType
    <3>3. QED
      BY <2>1, <3>1, <3>2 DEF Masked, Before
  <2>3. CASE ~queue[j].active
    BY <2>3 DEF Masked, Before
  <2>4. QED
    BY <2>2, <2>3
<1>3. QED
  BY <1>1, <1>2

\* What the insertion network leaves in a slot, case by case: untouched ahead
\* of the new entry, the new entry in the first masked slot, shifted behind
\* it, and the last slot, which is never the target of an insertion.
LEMMA InsertedSlot ==
  ASSUME IInv, NEW e \in Entries, NEW i \in Slots
  PROVE  \/ ~Masked(e, i) /\ Inserted(e)[i] = queue[i]
         \/ /\ Masked(e, i) /\ i < Size - 1
            /\ Inserted(e)[i] = [entry |-> e, active |-> TRUE]
         \/ /\ Masked(e, i) /\ i > 0 /\ i - 1 \in Slots /\ Masked(e, i - 1)
            /\ Inserted(e)[i] = queue[i - 1]
         \/ Masked(e, i) /\ i = Size - 1 /\ Inserted(e)[i] = queue[i]
<1> USE SizeAssumption DEF Slots
<1>1. CASE ~Masked(e, i)
  <2>1. i > 0 => ~Masked(e, i - 1)
    BY <1>1, MaskIsSuffix, i > 0 => i - 1 \in Slots
  <2>2. QED
    BY <1>1, <2>1 DEF Inserted, InsertsAt
<1>2. CASE Masked(e, i) /\ i > 0 /\ Masked(e, i - 1)
  <2>1. i - 1 \in Slots /\ i - 1 < i
    BY <1>2
  <2>2. ~InsertsAt(e, i)
    BY <1>2, <2>1 DEF InsertsAt
  <2>3. QED
    BY <1>2, <2>1, <2>2 DEF Inserted
<1>3. CASE Masked(e, i) /\ ~(i > 0 /\ Masked(e, i - 1))
  <2>1. \A j \in Slots : j < i => ~Masked(e, j)
    <3> SUFFICES ASSUME NEW j \in Slots, j < i, Masked(e, j) PROVE FALSE
      OBVIOUS
    <3>1. i > 0 /\ i - 1 \in Slots /\ (j = i - 1 \/ j < i - 1)
      OBVIOUS
    <3>2. Masked(e, i - 1)
      BY <3>1, MaskIsSuffix
    <3>3. QED
      BY <3>1, <3>2, <1>3
  <2>2. CASE i < Size - 1
    BY <1>3, <2>1, <2>2 DEF InsertsAt, Inserted
  <2>3. CASE i = Size - 1
    BY <1>3, <2>3 DEF InsertsAt, Inserted
  <2>4. QED
    BY <2>2, <2>3
<1>4. QED
  BY <1>1, <1>2, <1>3

\* An insertion keeps the active entries sorted, a prefix, and their cycles
\* covered, also when the last entry drops out.
LEMMA InsertionKeepsOrder ==
  ASSUME IInv, NEW e \in Entries, queue' = Inserted(e)
  PROVE  queue' \in [Slots -> SlotType] /\ OrderInv'
<1> DEFINE new == [entry |-> e, active |-> TRUE]
           q == Inserted(e)
<1>e. /\ e \in EntryType /\ e.cycles <= e.priority
      /\ e.priority \in Nat /\ e.cycles \in Nat
  BY EntriesAssumption, PriorityAssumption DEF EntryType
<1>n. /\ new \in SlotType /\ new.active /\ new.entry = e
  BY <1>e DEF SlotType
<1>q. ASSUME NEW i \in Slots
      PROVE  /\ queue[i] \in SlotType
             /\ queue[i].active \in BOOLEAN
             /\ queue[i].entry.priority \in Nat
             /\ queue[i].entry.cycles \in Nat
             /\ queue[i].entry.cycles <= queue[i].entry.priority
  BY PriorityAssumption
     DEF IInv, TypeOK, SlotType, EntryType, OrderInv, CyclesCovered
<1>m. ASSUME NEW i \in Slots, ~Masked(e, i)
      PROVE  /\ q[i] = queue[i]
             /\ queue[i].active
             /\ queue[i].entry.priority <= e.priority
  <2>1. q[i] = queue[i]
    BY <1>m, InsertedSlot
  <2>2. QED
    BY <1>m, <2>1, <1>q, <1>e DEF Masked, Before
<1>o. ASSUME NEW k \in Slots, NEW l \in Slots, k < l, queue[l].active
      PROVE  queue[k].active /\ queue[k].entry.priority <= queue[l].entry.priority
  BY <1>o DEF IInv, OrderInv, ActivePrefix, Sorted
<1>1. queue' \in [Slots -> SlotType]
  <2>1. ASSUME NEW i \in Slots PROVE q[i] \in SlotType
    BY InsertedSlot, <1>q, <1>n
  <2>2. q = [i \in Slots |-> q[i]]
    BY DEF Inserted
  <2>3. QED
    BY <2>1, <2>2
<1>2. CyclesCovered'
  <2>1. ASSUME NEW i \in Slots PROVE q[i].entry.cycles <= q[i].entry.priority
    <3>1. q[i] = queue[i] \/ q[i] = new \/ (i - 1 \in Slots /\ q[i] = queue[i - 1])
      BY InsertedSlot
    <3>2. CASE q[i] = new
      BY <3>2, <1>n, <1>e
    <3>3. CASE q[i] # new
      BY <3>1, <3>3, <1>q
    <3>4. QED
      BY <3>2, <3>3
  <2>2. QED
    BY <2>1 DEF CyclesCovered
<1>3. ASSUME NEW i \in Slots, NEW j \in Slots, i < j, q[j].active
      PROVE  q[i].active /\ q[i].entry.priority <= q[j].entry.priority
  <2>r. /\ i \in Int /\ j \in Int /\ j - 1 \in Slots
        /\ i < Size - 1 /\ (i = j - 1 \/ i < j - 1)
    BY <1>3, SizeAssumption DEF Slots
  <2>1. CASE ~Masked(e, i)
    <3>1. q[i] = queue[i] /\ queue[i].active /\ queue[i].entry.priority <= e.priority
      BY <2>1, <1>m
    <3>2. CASE q[j] = queue[j]
      BY <3>1, <3>2, <1>o, <1>3
    <3>3. CASE q[j] = new
      BY <3>1, <3>3, <1>n
    <3>4. CASE Masked(e, j - 1) /\ q[j] = queue[j - 1]
      <4>1. i < j - 1
        BY <3>4, <2>1, <2>r
      <4>2. QED
        BY <4>1, <3>1, <3>4, <2>r, <1>o, <1>3
    <3>5. QED
      BY InsertedSlot, <3>2, <3>3, <3>4
  <2>2. CASE Masked(e, i)
    <3>1. Masked(e, j) /\ Masked(e, j - 1)
      BY <2>2, <2>r, <1>3, MaskIsSuffix
    <3>2. q[j] = queue[j - 1]
      <4>1. j > 0 /\ ~InsertsAt(e, j)
        BY <3>1, <2>r, <1>3, SizeAssumption DEF InsertsAt, Slots
      <4>2. QED
        BY <4>1, <3>1 DEF Inserted
    <3>3. queue[j - 1].active /\ e.priority < queue[j - 1].entry.priority
      BY <3>1, <3>2, <1>3 DEF Masked, Before
    <3>4. CASE q[i] = new
      <4>1. q[i].active /\ q[i].entry.priority = e.priority
        BY <3>4, <1>n
      <4>2. QED
        BY <4>1, <3>2, <3>3, <1>e, <1>q, <2>r
    <3>5. CASE i - 1 \in Slots /\ q[i] = queue[i - 1]
      <4>1. i - 1 < j - 1
        BY <2>r, <1>3
      <4>2. QED
        BY <4>1, <3>2, <3>3, <3>5, <2>r, <1>o
    <3>6. QED
      BY InsertedSlot, <2>2, <2>r, <3>4, <3>5
  <2>3. QED
    BY <2>1, <2>2
<1>4. ActivePrefix' /\ Sorted'
  BY <1>3 DEF ActivePrefix, Sorted
<1>5. QED
  BY <1>1, <1>2, <1>4 DEF OrderInv

\* pop() of the head of a queue in order: the head keeps its type, its cycles
\* stay covered and its priority does not grow.
LEMMA PoppedHead ==
  ASSUME IInv, queue[0].active
  PROVE  /\ Popped(queue[0]) \in SlotType
         /\ Popped(queue[0]).entry.cycles <= Popped(queue[0]).entry.priority
         /\ Popped(queue[0]).entry.priority <= queue[0].entry.priority
<1> USE SizeAssumption, PriorityAssumption
<1>1. 0 \in Slots
  BY DEF Slots
<1>2. /\ queue[0] \in SlotType
      /\ queue[0].entry.cycles <= queue[0].entry.priority
  BY <1>1 DEF IInv, TypeOK, OrderInv, CyclesCovered
<1>3. CASE queue[0].entry.cycles = 0
  BY <1>2, <1>3 DEF Popped, SlotType, EntryType
<1>4. CASE queue[0].entry.cycles # 0
  <2>1. /\ queue[0].entry.priority # 0
        /\ queue[0].entry.cycles \in 1..MaxPriority
        /\ queue[0].entry.priority \in 1..MaxPriority
    BY <1>2, <1>4 DEF SlotType, EntryType
  <2>2. Popped(queue[0]) =
          [entry  |-> [id       |-> queue[0].entry.id,
                       cycles   |-> queue[0].entry.cycles - 1,
                       priority |-> queue[0].entry.priority - 1],
           active |-> queue[0].active]
    BY <1>4, <2>1 DEF Popped
  <2>3. QED
    BY <1>2, <2>1, <2>2 DEF SlotType, EntryType
<1>5. QED
  BY <1>3, <1>4

\* So does a pop, whether the head stays or is shifted out.
LEMMA PopKeepsOrder ==
  ASSUME IInv, NEW ready \in BOOLEAN, PopCycle(ready)
  PROVE  queue' \in [Slots -> SlotType] /\ OrderInv'
<1> USE SizeAssumption, PriorityAssumption DEF Slots
<1>1. queue[0].active
  BY DEF PopCycle
<1>q. \A i \in Slots : /\ queue[i] \in SlotType
                       /\ queue[i].entry.priority \in Nat
                       /\ queue[i].entry.cycles <= queue[i].entry.priority
  BY DEF IInv, TypeOK, SlotType, EntryType, OrderInv, CyclesCovered
<1>2. CASE Popped(queue[0]).active
  <2>1. queue' = [queue EXCEPT ![0] = Popped(queue[0])]
    BY <1>2 DEF PopCycle
  <2>2. /\ Popped(queue[0]) \in SlotType
        /\ Popped(queue[0]).entry.cycles <= Popped(queue[0]).entry.priority
        /\ Popped(queue[0]).entry.priority <= queue[0].entry.priority
        /\ Popped(queue[0]).entry.priority \in Nat
    BY <1>1, PoppedHead DEF SlotType, EntryType
  <2>3. queue' \in [Slots -> SlotType]
    BY <2>1, <2>2 DEF IInv, TypeOK
  <2>4. \A i \in Slots : queue'[i] = IF i = 0 THEN Popped(queue[0]) ELSE queue[i]
    BY <2>1 DEF IInv, TypeOK
  <2>5. CyclesCovered'
    BY <2>4, <2>2, <1>q DEF CyclesCovered
  <2>6. ActivePrefix'
    BY <2>4, <1>2 DEF ActivePrefix, IInv, OrderInv
  <2>7. Sorted'
    <3> SUFFICES ASSUME NEW i \in Slots, NEW j \in Slots, i < j, queue'[j].active
                 PROVE  queue'[i].entry.priority <= queue'[j].entry.priority
      BY DEF Sorted
    <3>1. queue'[j] = queue[j] /\ queue[j].active
      BY <2>4
    <3>2. queue[i].entry.priority <= queue[j].entry.priority
      BY <3>1 DEF IInv, OrderInv, Sorted
    <3>3. QED
      BY <3>1, <3>2, <2>4, <2>2, <1>q
  <2>8. QED
    BY <2>3, <2>5, <2>6, <2>7 DEF OrderInv
<1>3. CASE ~Popped(queue[0]).active
  <2>1. queue' = Shifted
    BY <1>3 DEF PopCycle
  <2>2. \A i \in Slots :
          queue'[i] = IF i < Size - 1 THEN queue[i + 1] ELSE queue[i]
    BY <2>1 DEF Shifted
  <2>3. queue' \in [Slots -> SlotType]
    BY <2>1, <1>q DEF Shifted
  <2>4. CyclesCovered'
    BY <2>2, <1>q DEF CyclesCovered
  <2>5. ASSUME NEW i \in Slots, NEW j \in Slots, i < j, queue'[j].active
        PROVE  /\ queue'[i].active
               /\ queue'[i].entry.priority <= queue'[j].entry.priority
    <3>1. queue'[i] = queue[i + 1] /\ i + 1 \in Slots
      BY <2>5, <2>2
    <3>2. CASE j < Size - 1
      <4>1. queue'[j] = queue[j + 1] /\ j + 1 \in Slots
        BY <3>2, <2>2
      <4>2. QED
        BY <4>1, <3>1, <2>5 DEF IInv, OrderInv, ActivePrefix, Sorted
    <3>3. CASE j = Size - 1 /\ i + 1 < j
      BY <3>1, <3>3, <2>2, <2>5 DEF IInv, OrderInv, ActivePrefix, Sorted
    <3>4. CASE j = Size - 1 /\ i + 1 = j
      BY <3>1, <3>4, <2>2, <2>5, <1>q
    <3>5. QED
      BY <3>2, <3>3, <3>4, <2>5
  <2>6. QED
    BY <2>3, <2>4, <2>5 DEF OrderInv, ActivePrefix, Sorted
<1>4. QED
  BY <1>2, <1>3

\* Every cycle keeps types and order.
LEMMA OrderInductive == IInv /\ [Next]_vars => IInv'
<1> SUFFICES ASSUME IInv, [Next]_vars PROVE IInv'
  OBVIOUS
<1> USE SizeAssumption
<1>1. ASSUME NEW e \in Entries, NEW ready \in BOOLEAN, EnqueueCycle(e, ready)
      PROVE  IInv'
  <2>1. queue' \in [Slots -> SlotType] /\ OrderInv'
    BY <1>1, InsertionKeepsOrder DEF EnqueueCycle
  <2>2. QED
    BY <1>1, <2>1 DEF EnqueueCycle, Consume, IInv, TypeOK, AtMostOne
<1>2. ASSUME NEW ready \in BOOLEAN, PopCycle(ready)
      PROVE  IInv'
  <2>1. queue' \in [Slots -> SlotType] /\ OrderInv'
    BY <1>2, PopKeepsOrder
  <2>2. queue[0].entry \in EntryType
    BY DEF IInv, TypeOK, SlotType, Slots
  <2>3. QED
    BY <1>2, <2>1, <2>2 DEF PopCycle, Consume, IInv, TypeOK, AtMostOne
<1>3. ASSUME NEW ready \in BOOLEAN, IdleCycle(ready)
      PROVE  IInv'
  BY <1>3 DEF IdleCycle, Consume, IInv, TypeOK, AtMostOne,
              OrderInv, ActivePrefix, Sorted, CyclesCovered
<1>4. CASE UNCHANGED vars
  BY <1>4 DEF vars, IInv, TypeOK, OrderInv, ActivePrefix, Sorted, CyclesCovered
<1>5. QED
  BY <1>1, <1>2, <1>3, <1>4 DEF Next

\* The reset values are in order.
LEMMA OrderInitial == Init => IInv
<1> SUFFICES ASSUME Init PROVE IInv
  OBVIOUS
<1>1. [id |-> 0, priority |-> 0, cycles |-> 0] \in EntryType
  BY IdsAssumption, PriorityAssumption DEF EntryType
<1>2. TypeOK
  BY <1>1 DEF Init, TypeOK, SlotType, AtMostOne
<1>3. OrderInv
  BY DEF Init, OrderInv, ActivePrefix, Sorted, CyclesCovered
<1>4. QED
  BY <1>2, <1>3 DEF IInv

\* Every register keeps its type, whatever clients enqueue and however the
\* consumer stalls.
THEOREM TypeCorrect == Spec => []TypeOK
<1>1. IInv => TypeOK
  BY DEF IInv
<1>2. QED
  BY <1>1, OrderInitial, OrderInductive, PTL DEF Spec

\* The active entries form a prefix of the queue in order of priority, on
\* which the insertion by mask and PriorityEncoder depends, for every size of
\* the queue and also when it overflows.
THEOREM QueueInOrder == Spec => []OrderInv
<1>1. IInv => OrderInv
  BY DEF IInv
<1>2. QED
  BY <1>1, OrderInitial, OrderInductive, PTL DEF Spec

\* No emission overtakes a waiting entry of higher priority: the head that a
\* pop puts into the output register is minimal among the active entries.
THEOREM HighestPriorityFirst == Spec => EmitsHighestPriority
<1>1. ASSUME IInv, [Next]_vars, output' # output, output' # <<>>
      PROVE  \A i \in ActiveSlots : output'[1].priority <= queue[i].entry.priority
  <2>1. PICK ready \in BOOLEAN : PopCycle(ready)
    BY <1>1 DEF Next, EnqueueCycle, IdleCycle, vars
  <2>2. output'[1] = queue[0].entry
    BY <2>1 DEF PopCycle
  <2>3. \A i \in Slots : queue[i].entry.priority \in Nat
    BY <1>1, PriorityAssumption DEF IInv, TypeOK, SlotType, EntryType
  <2>4. ASSUME NEW i \in ActiveSlots
        PROVE  queue[0].entry.priority <= queue[i].entry.priority
    <3>1. 0 \in Slots /\ i \in Slots /\ queue[i].active
      BY SizeAssumption DEF Slots, ActiveSlots
    <3>2. CASE i = 0
      BY <3>1, <3>2, <2>3
    <3>3. CASE i # 0
      BY <1>1, <3>1, <3>3, SizeAssumption DEF IInv, OrderInv, Sorted, Slots
    <3>4. QED
      BY <3>2, <3>3
  <2>5. QED
    BY <2>2, <2>4
<1>2. IInv /\ [Next]_vars =>
        [output' # output /\ output' # <<>> =>
           \A i \in ActiveSlots : output'[1].priority <= queue[i].entry.priority]_vars
  BY <1>1
<1>3. QED
  BY <1>2, OrderInitial, OrderInductive, PTL DEF Spec, EmitsHighestPriority

-----------------------------------------------------------------------------
\* The bag service.

\* The slots of a queue that hold entry f, how many they are for every entry,
\* the bag of the active entries and the bag with given counts.
Holds(q, f) == {i \in Slots : q[i].active /\ q[i].entry = f}
Counts(q) == [f \in EntryType |-> Cardinality(Holds(q, f))]
PendingIn(q) == [f \in {q[i].entry : i \in {j \in Slots : q[j].active}} |->
                   Cardinality(Holds(q, f))]
BagOf(c) == [f \in {g \in EntryType : c[g] # 0} |-> c[f]]

\* The last slot is where an overflow would lose an entry, and where the shift
\* of a pop would leave a second copy of one.
LastFree == ~queue[Size - 1].active
ServiceInv == IInv /\ LastFree

-----------------------------------------------------------------------------
\* A set of naturals that is not empty has a smallest element.
LEMMA Smallest ==
  ASSUME NEW S, S \subseteq Nat, S # {}
  PROVE  \E x \in S : \A y \in S : x <= y
<1>1. \E x \in S : \A y \in S : <<y, x>> \notin OpToRel(<, Nat)
  BY NatLessThanWellFounded, WFMin, Zenon
<1>2. PICK x \in S : \A y \in S : <<y, x>> \notin OpToRel(<, Nat)
  BY <1>1, Zenon
<1>3. \A y \in S : ~(y < x)
  BY <1>2 DEF OpToRel
<1>4. QED
  BY <1>3

\* Slots that correspond one to one are as many.
LEMMA SameCount ==
  ASSUME NEW S, NEW T, IsFiniteSet(S), NEW s \in [S -> T],
         \A t \in T : \E i \in S : s[i] = t,
         \A i, j \in S : s[i] = s[j] => i = j
  PROVE  Cardinality(T) = Cardinality(S)
<1>1. DOMAIN s = S
  OBVIOUS
<1>2. s \in Surjection(S, T) /\ s \in Injection(S, T)
  BY <1>1 DEF Surjection, Injection, IsInjective
<1>3. QED
  BY <1>2, FS_Surjection

\* The slots are finitely many, and so are those that hold an entry.
LEMMA HoldsFinite ==
  ASSUME NEW q, NEW f
  PROVE  IsFiniteSet(Holds(q, f)) /\ Cardinality(Holds(q, f)) \in Nat
<1>1. 0 \in Int /\ Size - 1 \in Int
  BY SizeAssumption
<1>2. IsFiniteSet(Slots)
  BY <1>1, FS_Interval DEF Slots
<1>3. Holds(q, f) \in SUBSET Slots
  BY DEF Holds
<1>4. IsFiniteSet(Holds(q, f))
  BY <1>2, <1>3, FS_Subset
<1>5. QED
  BY <1>4, FS_CardinalityType

\* An entry is held by no slot exactly when its count is 0.
LEMMA HoldsNone ==
  ASSUME NEW q, NEW f
  PROVE  Cardinality(Holds(q, f)) = 0 <=> Holds(q, f) = {}
BY HoldsFinite, FS_EmptySet

\* The refinement mapping, as a function of the queue.
LEMMA PendingHere == Pending = PendingIn(queue)
<1>1. ActiveSlots = {i \in Slots : queue[i].active}
  BY DEF ActiveSlots
<1>2. \A f : Holds(queue, f) = {i \in ActiveSlots : queue[i].entry = f}
  BY <1>1 DEF Holds
<1>3. QED
  BY <1>1, <1>2 DEF Pending, PendingIn

\* The active entries as a bag are the bag of their counts.
LEMMA PendingCounted ==
  ASSUME NEW q, \A i \in Slots : q[i] \in SlotType
  PROVE  PendingIn(q) = BagOf(Counts(q)) /\ Counts(q) \in [EntryType -> Nat]
<1> DEFINE active == {i \in Slots : q[i].active}
<1>1. Counts(q) \in [EntryType -> Nat]
  BY HoldsFinite DEF Counts
<1>2. \A f : Holds(q, f) = {i \in active : q[i].entry = f}
  BY DEF Holds
<1>3. \A f \in EntryType : Counts(q)[f] = Cardinality(Holds(q, f))
  BY DEF Counts
<1>4. {q[i].entry : i \in active} = {g \in EntryType : Counts(q)[g] # 0}
  <2>1. ASSUME NEW i \in active
        PROVE  q[i].entry \in {g \in EntryType : Counts(q)[g] # 0}
    <3>1. q[i].entry \in EntryType /\ i \in Holds(q, q[i].entry)
      BY DEF Holds, SlotType
    <3>2. QED
      BY <1>3, <3>1, HoldsNone
  <2>2. ASSUME NEW g \in EntryType, Counts(q)[g] # 0
        PROVE  \E i \in active : q[i].entry = g
    BY <1>2, <1>3, <2>2, HoldsNone
  <2>3. QED
    BY <2>1, <2>2
<1>5. PendingIn(q) = [f \in {q[i].entry : i \in active} |-> Cardinality(Holds(q, f))]
  BY DEF PendingIn
<1>6. QED
  BY <1>1, <1>3, <1>4, <1>5 DEF BagOf

\* BagAdd raises one count by one.
LEMMA BagRaised ==
  ASSUME NEW c \in [EntryType -> Nat], NEW e \in EntryType
  PROVE  Service!BagAdd(BagOf(c), e) = BagOf([c EXCEPT ![e] = @ + 1])
<1> DEFINE d == [c EXCEPT ![e] = @ + 1]
<1>1. d[e] = c[e] + 1 /\ d[e] # 0 /\ c[e] \in Nat
  OBVIOUS
<1>2. \A f \in EntryType : f # e => d[f] = c[f]
  OBVIOUS
<1>3. {g \in EntryType : d[g] # 0} = {g \in EntryType : c[g] # 0} \cup {e}
  BY <1>1, <1>2
<1> HIDE DEF d
<1>4. CASE c[e] = 0
  BY <1>1, <1>2, <1>3, <1>4 DEF BagOf, Service!BagAdd
<1>5. CASE c[e] # 0
  BY <1>1, <1>2, <1>3, <1>5 DEF BagOf, Service!BagAdd
<1>6. QED
  BY <1>4, <1>5 DEF d

\* BagRemove lowers a count that is not 0 by one.
LEMMA BagLowered ==
  ASSUME NEW c \in [EntryType -> Nat], NEW e \in EntryType, c[e] # 0
  PROVE  Service!BagRemove(BagOf(c), e) = BagOf([c EXCEPT ![e] = @ - 1])
<1> DEFINE d == [c EXCEPT ![e] = @ - 1]
<1>1. d[e] = c[e] - 1 /\ c[e] \in Nat
  OBVIOUS
<1>2. \A f \in EntryType : f # e => d[f] = c[f]
  OBVIOUS
<1> HIDE DEF d
<1>3. CASE c[e] = 1
  <2>1. {g \in EntryType : d[g] # 0} = {g \in EntryType : c[g] # 0} \ {e}
    BY <1>1, <1>2, <1>3
  <2>2. QED
    BY <1>1, <1>2, <1>3, <2>1 DEF BagOf, Service!BagRemove, d
<1>4. CASE c[e] # 1
  <2>1. {g \in EntryType : d[g] # 0} = {g \in EntryType : c[g] # 0}
    BY <1>1, <1>2, <1>4
  <2>2. QED
    BY <1>1, <1>2, <1>4, <2>1 DEF BagOf, Service!BagRemove, d
<1>5. QED
  BY <1>3, <1>4

-----------------------------------------------------------------------------
\* While clients keep at most Size - 1 entries active, an insertion shifts the
\* slots behind the new entry into a free one: only its own count changes.
LEMMA InsertionCounted ==
  ASSUME ServiceInv, MaxLoad <= Size - 1, Cardinality(ActiveSlots) < MaxLoad,
         NEW e \in Entries, queue' = Inserted(e)
  PROVE  /\ LastFree'
         /\ Counts(queue') = [Counts(queue) EXCEPT ![e] = @ + 1]
<1> DEFINE new == [entry |-> e, active |-> TRUE]
<1>0. /\ IInv /\ ~queue[Size - 1].active /\ Size \in Nat /\ Size >= 2
      /\ Slots = 0..(Size - 1) /\ MaxLoad \in Nat /\ e \in EntryType
      /\ \A i \in Slots : queue[i] \in SlotType /\ queue[i].active \in BOOLEAN
  BY SizeAssumption, LoadAssumption, EntriesAssumption
     DEF ServiceInv, LastFree, IInv, TypeOK, Slots, SlotType
<1>1. Size - 2 \in Slots /\ ~queue[Size - 2].active
  <2>1. Size - 2 \in Slots
    BY <1>0
  <2>2. ASSUME queue[Size - 2].active PROVE FALSE
    <3>1. \A i \in 0..(Size - 2) : i \in Slots /\ queue[i].active
      BY <1>0, <2>1, <2>2 DEF IInv, OrderInv, ActivePrefix
    <3>2. 0..(Size - 2) \in SUBSET ActiveSlots /\ ActiveSlots \in SUBSET Slots
      BY <3>1 DEF ActiveSlots
    <3>3. 0 \in Int /\ Size - 1 \in Int /\ Size - 2 \in Int
      BY <1>0
    <3>4. IsFiniteSet(0..(Size - 1))
      BY <3>3, FS_Interval
    <3>5. IsFiniteSet(ActiveSlots)
      BY <1>0, <3>2, <3>4, FS_Subset
    <3>6. Cardinality(0..(Size - 2)) = IF 0 > Size - 2 THEN 0 ELSE (Size - 2) - 0 + 1
      BY <3>3, FS_Interval
    <3>7. Cardinality(0..(Size - 2)) = Size - 1
      BY <1>0, <3>6
    <3>8. Cardinality(0..(Size - 2)) <= Cardinality(ActiveSlots)
      BY <3>2, <3>5, FS_Subset
    <3>9. Cardinality(ActiveSlots) \in Nat
      BY <3>5, FS_CardinalityType
    <3>10. QED
      BY <1>0, <3>7, <3>8, <3>9
  <2>3. QED
    BY <2>1, <2>2
<1>2. PICK p \in Slots : Masked(e, p) /\ \A j \in Slots : Masked(e, j) => p <= j
  <2>1. Masked(e, Size - 2)
    BY <1>1 DEF Masked, Before
  <2>2. /\ {j \in Slots : Masked(e, j)} \subseteq Nat
        /\ {j \in Slots : Masked(e, j)} # {}
    BY <1>0, <1>1, <2>1
  <2>3. \E x \in {j \in Slots : Masked(e, j)} :
          \A y \in {j \in Slots : Masked(e, j)} : x <= y
    BY <2>2, Smallest
  <2>4. QED
    BY <2>3
<1>3. p \in Nat /\ p <= Size - 2 /\ Masked(e, Size - 2)
  BY <1>0, <1>1, <1>2 DEF Masked, Before
<1>4. \A i \in Slots : Masked(e, i) <=> p <= i
  BY <1>0, <1>2, MaskIsSuffix
<1>5. ASSUME NEW i \in Slots
      PROVE  /\ i < p => queue'[i] = queue[i]
             /\ i = p => queue'[i] = new
             /\ i > p => i - 1 \in Slots /\ queue'[i] = queue[i - 1]
  <2>1. queue'[i] = IF InsertsAt(e, i) THEN new
                    ELSE IF i > 0 /\ Masked(e, i - 1) THEN queue[i - 1]
                    ELSE queue[i]
    BY DEF Inserted
  <2>2. i \in Nat /\ (i > 0 => i - 1 \in Slots)
    BY <1>0
  <2>3. InsertsAt(e, i) <=> i = p
    BY <1>0, <1>3, <1>4, <2>2 DEF InsertsAt
  <2>4. i > 0 => (Masked(e, i - 1) <=> p <= i - 1)
    BY <1>4, <2>2
  <2>5. QED
    BY <1>3, <2>1, <2>2, <2>3, <2>4
<1>6. new.active /\ new.entry = e
  OBVIOUS
<1> HIDE DEF new
<1>7. LastFree'
  <2>1. Size - 1 \in Slots /\ Size - 1 > p /\ (Size - 1) - 1 = Size - 2
    BY <1>0, <1>3
  <2>2. queue'[Size - 1] = queue[Size - 2]
    BY <1>5, <2>1
  <2>3. QED
    BY <1>1, <2>2 DEF LastFree
<1>8. ASSUME NEW f \in EntryType
      PROVE  Cardinality(Holds(queue', f)) =
               IF f = e THEN Cardinality(Holds(queue, f)) + 1
               ELSE Cardinality(Holds(queue, f))
  <2> DEFINE S == Holds(queue, f)
             T == Holds(queue', f)
             s == [i \in S |-> IF i < p THEN i ELSE i + 1]
  <2>1. IsFiniteSet(S) /\ IsFiniteSet(T) /\ Cardinality(S) \in Nat /\ Cardinality(T) \in Nat
    BY HoldsFinite
  <2>2. \A i \in S : i \in Slots /\ i < Size - 1 /\ queue[i].active /\ queue[i].entry = f
    BY <1>0 DEF Holds
  <2>3. ASSUME NEW i \in S PROVE s[i] \in T \ {p}
    <3>1. CASE i < p
      BY <1>3, <1>5, <2>2, <3>1 DEF Holds
    <3>2. CASE ~(i < p)
      <4>1. i + 1 \in Slots /\ i + 1 > p /\ (i + 1) - 1 = i
        BY <1>0, <1>3, <2>2, <3>2
      <4>2. queue'[i + 1] = queue[i]
        BY <1>5, <4>1
      <4>3. QED
        BY <1>3, <2>2, <3>2, <4>1, <4>2 DEF Holds
    <3>3. QED
      BY <3>1, <3>2
  <2>4. s \in [S -> T \ {p}]
    BY <2>3
  <2>5. ASSUME NEW t \in T \ {p} PROVE \E i \in S : s[i] = t
    <3>1. t \in Slots /\ t \in Nat /\ t # p /\ queue'[t].active /\ queue'[t].entry = f
      BY <1>0 DEF Holds
    <3>2. CASE t < p
      <4>1. t \in S
        BY <1>5, <3>1, <3>2 DEF Holds
      <4>2. QED
        BY <3>2, <4>1
    <3>3. CASE t > p
      <4>1. t - 1 \in S
        BY <1>5, <3>1, <3>3 DEF Holds
      <4>2. ~(t - 1 < p) /\ (t - 1) + 1 = t
        BY <1>3, <3>1, <3>3
      <4>3. QED
        BY <4>1, <4>2
    <3>4. QED
      BY <1>3, <3>1, <3>2, <3>3
  <2>6. \A i, j \in S : s[i] = s[j] => i = j
    BY <1>0, <1>3, <2>2
  <2> HIDE DEF s
  <2>7. Cardinality(T \ {p}) = Cardinality(S)
    BY <2>1, <2>4, <2>5, <2>6, SameCount
  <2>8. p \in T <=> f = e
    BY <1>2, <1>5, <1>6 DEF Holds
  <2>9. Cardinality(T \ {p}) = IF p \in T THEN Cardinality(T) - 1 ELSE Cardinality(T)
    BY <2>1, FS_RemoveElement
  <2>10. QED
    BY <2>1, <2>7, <2>8, <2>9
<1>9. Counts(queue') = [Counts(queue) EXCEPT ![e] = @ + 1]
  BY <1>0, <1>8 DEF Counts
<1>10. QED
  BY <1>7, <1>9

\* The shift of a pop takes the head's entry out and keeps every other one.
LEMMA ShiftCounted ==
  ASSUME ServiceInv, queue[0].active, queue' = Shifted
  PROVE  /\ LastFree'
         /\ queue[0].entry \in EntryType
         /\ Counts(queue') = [Counts(queue) EXCEPT ![queue[0].entry] = @ - 1]
<1> DEFINE e == queue[0].entry
<1>0. /\ ~queue[Size - 1].active /\ Size \in Nat /\ Size >= 2
      /\ Slots = 0..(Size - 1) /\ 0 \in Slots /\ e \in EntryType
  BY SizeAssumption DEF ServiceInv, LastFree, IInv, TypeOK, Slots, SlotType
<1>1. \A i \in Slots : queue'[i] = IF i < Size - 1 THEN queue[i + 1] ELSE queue[i]
  BY DEF Shifted
<1>2. LastFree'
  <2>1. Size - 1 \in Slots /\ ~(Size - 1 < Size - 1)
    BY <1>0
  <2>2. QED
    BY <1>0, <1>1, <2>1 DEF LastFree
<1>3. ASSUME NEW f \in EntryType
      PROVE  Cardinality(Holds(queue', f)) =
               IF f = e THEN Cardinality(Holds(queue, f)) - 1
               ELSE Cardinality(Holds(queue, f))
  <2> DEFINE S == Holds(queue, f)
             T == Holds(queue', f)
             s == [i \in S \ {0} |-> i - 1]
  <2>1. IsFiniteSet(S) /\ IsFiniteSet(S \ {0})
    BY HoldsFinite, FS_RemoveElement
  <2>2. ASSUME NEW i \in S \ {0} PROVE s[i] \in T
    <3>1. i - 1 \in Slots /\ i - 1 < Size - 1 /\ (i - 1) + 1 = i
      BY <1>0 DEF Holds
    <3>2. queue'[i - 1] = queue[i]
      BY <1>1, <3>1
    <3>3. QED
      BY <3>1, <3>2 DEF Holds
  <2>3. s \in [S \ {0} -> T]
    BY <2>2
  <2>4. ASSUME NEW t \in T PROVE \E i \in S \ {0} : s[i] = t
    <3>1. t \in Slots /\ t \in Nat /\ t < Size - 1 /\ queue'[t] = queue[t + 1]
      BY <1>0, <1>1 DEF Holds
    <3>2. t + 1 \in S \ {0} /\ (t + 1) - 1 = t
      BY <1>0, <3>1 DEF Holds
    <3>3. QED
      BY <3>2
  <2>5. \A i, j \in S \ {0} : s[i] = s[j] => i = j
    BY <1>0 DEF Holds
  <2> HIDE DEF s
  <2>6. Cardinality(T) = Cardinality(S \ {0})
    BY <2>1, <2>3, <2>4, <2>5, SameCount
  <2>7. 0 \in S <=> f = e
    BY <1>0 DEF Holds
  <2>8. Cardinality(S \ {0}) = IF 0 \in S THEN Cardinality(S) - 1 ELSE Cardinality(S)
    BY <2>1, FS_RemoveElement
  <2>9. QED
    BY <2>6, <2>7, <2>8
<1>4. Counts(queue') = [Counts(queue) EXCEPT ![e] = @ - 1]
  BY <1>0, <1>3 DEF Counts
<1>5. QED
  BY <1>0, <1>2, <1>4

\* A pop that keeps the head replaces its entry.
LEMMA ReplacementCounted ==
  ASSUME ServiceInv, queue[0].active, NEW g \in EntryType, g # queue[0].entry,
         queue' = [queue EXCEPT ![0] = [entry |-> g, active |-> TRUE]]
  PROVE  /\ LastFree'
         /\ queue[0].entry \in EntryType
         /\ Counts(queue') =
              [[Counts(queue) EXCEPT ![queue[0].entry] = @ - 1] EXCEPT ![g] = @ + 1]
<1> DEFINE e == queue[0].entry
           q == queue'
<1>0. /\ ~queue[Size - 1].active /\ Size \in Nat /\ Size >= 2
      /\ Slots = 0..(Size - 1) /\ 0 \in Slots /\ e \in EntryType
      /\ queue \in [Slots -> SlotType]
  BY SizeAssumption DEF ServiceInv, LastFree, IInv, TypeOK, Slots, SlotType
<1>1. /\ \A i \in Slots : i # 0 => q[i] = queue[i]
      /\ q[0].active /\ q[0].entry = g
  BY <1>0
<1>2. LastFree'
  <2>1. Size - 1 \in Slots /\ Size - 1 # 0
    BY <1>0
  <2>2. QED
    BY <1>0, <1>1, <2>1 DEF LastFree
<1> HIDE DEF q
<1>3. ASSUME NEW f \in EntryType
      PROVE  Cardinality(Holds(q, f)) =
               IF f = e THEN Cardinality(Holds(queue, f)) - 1
               ELSE IF f = g THEN Cardinality(Holds(queue, f)) + 1
               ELSE Cardinality(Holds(queue, f))
  <2> DEFINE S == Holds(queue, f)
             T == Holds(q, f)
  <2>1. /\ IsFiniteSet(S) /\ IsFiniteSet(T)
        /\ Cardinality(S) \in Nat /\ Cardinality(T) \in Nat
    BY HoldsFinite
  <2>2. S \ {0} = T \ {0}
    BY <1>1 DEF Holds
  <2>3. (0 \in S <=> f = e) /\ (0 \in T <=> f = g)
    BY <1>0, <1>1 DEF Holds
  <2> HIDE DEF S, T
  <2>4. Cardinality(S \ {0}) = IF 0 \in S THEN Cardinality(S) - 1 ELSE Cardinality(S)
    BY <2>1, FS_RemoveElement
  <2>5. Cardinality(T \ {0}) = IF 0 \in T THEN Cardinality(T) - 1 ELSE Cardinality(T)
    BY <2>1, FS_RemoveElement
  <2>6. Cardinality(T) = IF f = e THEN Cardinality(S) - 1
                         ELSE IF f = g THEN Cardinality(S) + 1 ELSE Cardinality(S)
    <3>1. CASE f = e
      BY <2>1, <2>2, <2>3, <2>4, <2>5, <3>1
    <3>2. CASE f = g
      <4>1. 0 \notin S /\ 0 \in T
        BY <2>3, <3>2
      <4>2. Cardinality(T) - 1 = Cardinality(S)
        BY <2>2, <2>4, <2>5, <4>1
      <4>3. f # e
        BY <3>2
      <4>4. QED
        BY <2>1, <3>2, <4>2, <4>3
    <3>3. CASE f # e /\ f # g
      BY <2>1, <2>2, <2>3, <2>4, <2>5, <3>3
    <3>4. QED
      BY <3>1, <3>2, <3>3
  <2>7. QED
    BY <2>6 DEF S, T
<1>4. Counts(q) = [[Counts(queue) EXCEPT ![e] = @ - 1] EXCEPT ![g] = @ + 1]
  BY <1>0, <1>3 DEF Counts
<1>5. QED
  BY <1>0, <1>2, <1>4 DEF q

-----------------------------------------------------------------------------
\* What a pop serves is of the highest priority among the pending entries.
LEMMA HeadIsBest ==
  ASSUME ServiceInv, queue[0].active
  PROVE  queue[0].entry \in Service!Best
<1>1. 0 \in Slots /\ 0 \in ActiveSlots
  BY SizeAssumption DEF Slots, ActiveSlots
<1>2. DOMAIN Pending = {queue[i].entry : i \in ActiveSlots}
  BY DEF Pending
<1>3. ASSUME NEW i \in ActiveSlots
      PROVE  queue[0].entry.priority <= queue[i].entry.priority
  <2>1. i \in Slots /\ queue[i].active /\ queue[0].entry.priority \in Nat
    BY <1>1, PriorityAssumption
       DEF ActiveSlots, ServiceInv, IInv, TypeOK, SlotType, EntryType
  <2>2. CASE i = 0
    BY <2>1, <2>2
  <2>3. CASE i # 0
    BY <1>1, <2>1, <2>3, SizeAssumption DEF ServiceInv, IInv, OrderInv, Sorted, Slots
  <2>4. QED
    BY <2>2, <2>3
<1>4. QED
  <2>1. queue[0].entry \in DOMAIN Pending
    BY <1>1, <1>2
  <2>2. \A f \in DOMAIN Pending : queue[0].entry.priority <= f.priority
    BY <1>2, <1>3
  <2>3. QED
    BY <2>1, <2>2 DEF Service!Best

\* A cycle of the queue is a step of the service, and keeps the last slot free.
LEMMA ServiceStep ==
  ASSUME ServiceInv, [Next]_vars, MaxLoad <= Size - 1
  PROVE  ServiceInv' /\ [Service!Next]_(Service!vars)
<1>1. IInv'
  BY OrderInductive DEF ServiceInv
<1>2. /\ \A i \in Slots : queue[i] \in SlotType
      /\ \A i \in Slots : queue'[i] \in SlotType
  BY <1>1 DEF ServiceInv, IInv, TypeOK
<1> DEFINE c == Counts(queue)
<1>3. Pending = BagOf(c) /\ c \in [EntryType -> Nat]
  BY <1>2, PendingHere, PendingCounted
<1>4. Pending' = BagOf(Counts(queue'))
  <2>1. Pending' = PendingIn(queue')
    <3>1. ActiveSlots' = {i \in Slots : queue'[i].active}
      BY DEF ActiveSlots
    <3>2. \A f : Holds(queue', f) = {i \in ActiveSlots' : queue'[i].entry = f}
      BY <3>1 DEF Holds
    <3>3. QED
      BY <3>1, <3>2 DEF Pending, PendingIn
  <2>2. PendingIn(queue') = BagOf(Counts(queue'))
    BY <1>2, PendingCounted
  <2>3. QED
    BY <2>1, <2>2
<1> HIDE DEF c
<1>5. ASSUME NEW ready \in BOOLEAN, NEW e \in Entries, EnqueueCycle(e, ready)
      PROVE  LastFree' /\ Service!Next
  <2>1. e \in EntryType
    BY EntriesAssumption
  <2>2. LastFree' /\ Counts(queue') = [c EXCEPT ![e] = @ + 1]
    BY <1>5, InsertionCounted DEF EnqueueCycle, c
  <2>3. Pending' = Service!BagAdd(Pending, e)
    BY <1>3, <1>4, <2>1, <2>2, BagRaised
  <2>4. \/ delivered' = output /\ output' = <<>>
        \/ delivered' = <<>> /\ output' = output
    BY <1>5 DEF EnqueueCycle, Consume
  <2>5. Service!Submit(e)
    BY <2>3, <2>4 DEF Service!Submit, Service!Take, Service!Leave
  <2>6. QED
    BY <2>2, <2>5 DEF Service!Next
<1>6. ASSUME NEW ready \in BOOLEAN, PopCycle(ready)
      PROVE  LastFree' /\ Service!Next
  <2> DEFINE e == queue[0].entry
             others == [c EXCEPT ![e] = @ - 1]
  <2>0. /\ queue[0].active /\ 0 \in Slots /\ e \in EntryType
        /\ e.cycles <= e.priority /\ e.priority \in 0..MaxPriority /\ e.cycles \in Nat
    BY <1>2, <1>6, SizeAssumption, PriorityAssumption
       DEF PopCycle, Slots, SlotType, EntryType, ServiceInv, IInv, OrderInv, CyclesCovered
  <2>1. c[e] # 0
    BY <2>0, HoldsNone DEF c, Counts, Holds
  <2>2. Service!BagRemove(Pending, e) = BagOf(others) /\ others \in [EntryType -> Nat]
    <3>1. c[e] - 1 \in Nat
      BY <1>3, <2>0, <2>1
    <3>2. QED
      BY <1>3, <2>0, <2>1, <3>1, BagLowered
  <2>3. LastFree' /\ Pending' = Service!Served(e)
    <3>1. CASE e.cycles = 0
      <4>1. ~Popped(queue[0]).active
        BY <3>1 DEF Popped
      <4>2. queue' = Shifted
        BY <1>6, <4>1 DEF PopCycle
      <4>3. LastFree' /\ Counts(queue') = others
        BY <2>0, <4>2, ShiftCounted DEF c
      <4>4. QED
        BY <1>4, <2>2, <3>1, <4>3 DEF Service!Served
    <3>2. CASE e.cycles # 0
      <4> DEFINE g == [id |-> e.id, cycles |-> e.cycles - 1, priority |-> e.priority - 1]
      <4>1. e.priority # 0
        BY <2>0, <3>2, PriorityAssumption
      <4>2. g.cycles # e.cycles
        BY <2>0, <3>2
      <4>3. g \in EntryType /\ g # e
        BY <2>0, <3>2, <4>1, <4>2, PriorityAssumption DEF EntryType
      <4>4. Popped(queue[0]) = [entry |-> g, active |-> TRUE]
        BY <2>0, <1>2, <3>2, <4>1 DEF Popped, SlotType
      <4> HIDE DEF g
      <4>5. queue' = [queue EXCEPT ![0] = [entry |-> g, active |-> TRUE]]
        BY <1>6, <4>4 DEF PopCycle
      <4>6. LastFree' /\ Counts(queue') = [others EXCEPT ![g] = @ + 1]
        BY <2>0, <4>3, <4>5, ReplacementCounted DEF c
      <4>7. Pending' = Service!BagAdd(BagOf(others), g)
        BY <1>4, <2>2, <4>3, <4>6, BagRaised
      <4>8. QED
        BY <2>2, <3>2, <4>6, <4>7 DEF Service!Served, g
    <3>3. QED
      BY <3>1, <3>2
  <2>4. \/ delivered' = output
        \/ delivered' = <<>> /\ output = <<>>
    BY <1>6 DEF PopCycle, Consume, OutputReady
  <2>5. e \in Service!Best /\ output' = <<e>>
    BY <1>6, <2>0, HeadIsBest DEF PopCycle
  <2>6. Service!Serve
    BY <2>3, <2>4, <2>5 DEF Service!Serve, Service!Take, Service!Leave
  <2>7. QED
    BY <2>3, <2>6 DEF Service!Next
<1>7. ASSUME NEW ready \in BOOLEAN, IdleCycle(ready)
      PROVE  LastFree' /\ Service!Next
  <2>1. queue' = queue
    BY <1>7 DEF IdleCycle
  <2>2. LastFree' /\ Pending' = Pending
    BY <1>3, <1>4, <2>1 DEF ServiceInv, LastFree, c
  <2>3. \/ delivered' = output /\ output' = <<>>
        \/ delivered' = <<>> /\ output' = output
    BY <1>7 DEF IdleCycle, Consume
  <2>4. QED
    BY <2>2, <2>3 DEF Service!Next, Service!Idle, Service!Take, Service!Leave
<1>8. CASE UNCHANGED vars
  <2>1. LastFree' /\ Pending' = Pending /\ output' = output /\ delivered' = delivered
    BY <1>3, <1>4, <1>8 DEF vars, ServiceInv, LastFree, c
  <2>2. QED
    BY <1>1, <2>1 DEF ServiceInv, Service!vars
<1>9. QED
  BY <1>1, <1>5, <1>6, <1>7, <1>8 DEF Next, ServiceInv

\* An empty queue is a service with nothing pending.
LEMMA ServiceInitial ==
  ASSUME Init
  PROVE  ServiceInv /\ Service!Init
<1>1. IInv
  BY OrderInitial
<1>2. Size - 1 \in Slots /\ \A i \in Slots : ~queue[i].active
  BY SizeAssumption DEF Init, Slots
<1>3. ActiveSlots = {}
  BY <1>2 DEF ActiveSlots
<1>4. Pending = [e \in {} |-> 0]
  BY <1>3 DEF Pending
<1>5. Service!Init
  BY <1>4 DEF Init, Service!Init, Service!NonePending
<1>6. QED
  BY <1>1, <1>2, <1>5 DEF ServiceInv, LastFree

\* While clients keep at most Size - 1 entries active, the registers, the
\* comparison mask and the output stage of PriorityQueue.scala serve a bag of
\* entries by priority: nothing is lost, duplicated, served out of order, too
\* often or too seldom, whatever the consumer's stalls.
THEOREM QueueServesAsPromised ==
  ASSUME MaxLoad <= Size - 1
  PROVE  Spec => ServesAsPromised
<1>1. Init => ServiceInv /\ Service!Init
  BY ServiceInitial
<1>2. ServiceInv /\ [Next]_vars => ServiceInv' /\ [Service!Next]_(Service!vars)
  BY ServiceStep
<1>3. Spec => Init /\ [][Next]_vars
  BY DEF Spec
<1>4. ServesAsPromised <=> Service!Init /\ [][Service!Next]_(Service!vars)
  BY DEF ServesAsPromised, Service!Spec
<1>5. QED
  BY <1>1, <1>2, <1>3, <1>4, PTL
=============================================================================
