---------------------------- MODULE PriorityQueue ----------------------------
(***************************************************************************)
(* The parallel-compare priority queue of PriorityQueue.scala, with the    *)
(* entry operations pop() and < of Interfaces.scala.  One action is one    *)
(* clock cycle: an enqueue has precedence over a pop, and either goes with *)
(* the consumer taking, or not taking, what the output register holds.     *)
(***************************************************************************)
EXTENDS Naturals, Sequences, FiniteSets

CONSTANTS
  Size,         \* slots of the queue (32 in Scheduler.scala)
  Ids,          \* dbuffID / localID values
  MaxPriority,  \* largest value of the priority field (2^10 - 1)
  Entries,      \* what clients enqueue: records of EntryType
  MaxLoad       \* clients offer no entry while MaxLoad of them are active

EntryType == [id : Ids, priority : 0..MaxPriority, cycles : 0..MaxPriority]

ASSUME SizeAssumption == Size \in Nat /\ Size >= 2
ASSUME IdsAssumption == Ids \subseteq Nat /\ 0 \in Ids
ASSUME PriorityAssumption == MaxPriority \in Nat
ASSUME LoadAssumption == MaxLoad \in Nat
\* An entry is never asked to be popped more often than its priority, the
\* number of reads (packets) left in its message, can count down.
ASSUME EntriesAssumption ==
  Entries \subseteq {e \in EntryType : e.cycles <= e.priority}

VARIABLES
  queue,      \* the registers queue(0..size-1)
  output,     \* outputQueue: what dequeue presents, at most one entry
  delivered   \* the entry handed to the consumer by the last clock edge

vars == <<queue, output, delivered>>

Slots == 0..(Size - 1)
SlotType == [entry : EntryType, active : BOOLEAN]
AtMostOne(S) == {<<>>} \cup {<<x>> : x \in S}

ActiveSlots == {i \in Slots : queue[i].active}

-----------------------------------------------------------------------------
\* Mutants of pop(): it never checks the cycles; it never retires the entry.
PoppedUnchecked(slot) ==
  [slot EXCEPT !.entry = [@ EXCEPT !.cycles = slot.entry.cycles - 1]]
PoppedForEver(slot) ==
  IF slot.entry.cycles = 0 THEN slot
  ELSE [slot EXCEPT !.entry = [@ EXCEPT !.cycles = slot.entry.cycles - 1]]

\* pop(): the entry that replaces the head after it has been emitted.  The
\* priority is a 10-bit field, so decrementing 0 wraps.
Popped(slot) ==
  LET e == slot.entry
  IN  IF e.cycles = 0
      THEN [entry |-> e, active |-> FALSE]
      ELSE [entry  |-> [id       |-> e.id,
                        cycles   |-> e.cycles - 1,
                        priority |-> IF e.priority = 0 THEN MaxPriority
                                     ELSE e.priority - 1],
            active |-> slot.active]

\* Mutant of <: larger priority values first.
BeforeLargest(e, slot) == ~slot.active \/ e.priority > slot.entry.priority

\* entry < slot
Before(e, slot) == ~slot.active \/ e.priority < slot.entry.priority

\* priorityMask(i)
Masked(e, i) == Before(e, queue[i])

\* i = PriorityEncoder(priorityMask), when a slot the loop writes is masked.
InsertsAt(e, i) ==
  /\ i < Size - 1
  /\ Masked(e, i)
  /\ \A j \in Slots : j < i => ~Masked(e, j)

Inserted(e) ==
  [i \in Slots |->
     IF InsertsAt(e, i) THEN [entry |-> e, active |-> TRUE]
     ELSE IF i > 0 /\ Masked(e, i - 1) THEN queue[i - 1]
     ELSE queue[i]]

\* The shift towards the head; the last slot keeps its contents.
Shifted == [i \in Slots |-> IF i < Size - 1 THEN queue[i + 1] ELSE queue[i]]

-----------------------------------------------------------------------------
\* Mutant of the output queue's enq.ready: never full.
OutputAlwaysReady(ready) == TRUE

Consume(ready) == delivered' = IF ready THEN output ELSE <<>>
OutputReady(ready) == output = <<>> \/ ready

EnqueueCycle(e, ready) ==
  /\ Cardinality(ActiveSlots) < MaxLoad
  /\ queue' = Inserted(e)
  /\ output' = IF ready THEN <<>> ELSE output
  /\ Consume(ready)

PopCycle(ready) ==
  /\ queue[0].active
  /\ OutputReady(ready)
  /\ output' = <<queue[0].entry>>
  /\ queue' = IF Popped(queue[0]).active
              THEN [queue EXCEPT ![0] = Popped(queue[0])]
              ELSE Shifted
  /\ Consume(ready)

IdleCycle(ready) ==
  /\ ~(queue[0].active /\ OutputReady(ready))
  /\ output' = IF ready THEN <<>> ELSE output
  /\ Consume(ready)
  /\ UNCHANGED queue

Init ==
  /\ queue = [i \in Slots |->
                [entry |-> [id |-> 0, priority |-> 0, cycles |-> 0],
                 active |-> FALSE]]
  /\ output = <<>>
  /\ delivered = <<>>

Next == \E ready \in BOOLEAN :
          \/ \E e \in Entries : EnqueueCycle(e, ready)
          \/ PopCycle(ready)
          \/ IdleCycle(ready)

Spec == Init /\ [][Next]_vars

\* The clock keeps ticking and the consumer does not refuse for ever: while
\* the head is active, some cycle with a ready consumer comes.
BusyCycle == PopCycle(TRUE) \/ \E e \in Entries : EnqueueCycle(e, TRUE)
FairSpec == Spec /\ WF_vars(BusyCycle)

-----------------------------------------------------------------------------
\* Every register holds a value of its type.
TypeOK ==
  /\ queue \in [Slots -> SlotType]
  /\ output \in AtMostOne(EntryType)
  /\ delivered \in AtMostOne(EntryType)

\* The insertion network compares each slot on its own, and its shift is
\* right only if the comparison mask is a suffix of the queue: active entries
\* form a prefix, in order of priority.  An entry that could count below
\* priority 0 would break the order when pop() wraps it.
ActivePrefix == \A i, j \in Slots : i < j /\ queue[j].active => queue[i].active
Sorted ==
  \A i, j \in Slots :
    i < j /\ queue[j].active => queue[i].entry.priority <= queue[j].entry.priority
CyclesCovered ==
  \A i \in Slots : queue[i].entry.cycles <= queue[i].entry.priority
OrderInv == ActivePrefix /\ Sorted /\ CyclesCovered

\* What is emitted never has a larger priority value than an entry that waited
\* in the queue in that cycle ("Pops from the head of the queue to get the
\* highest priority elements").
EmitsHighestPriority ==
  [][output' # output /\ output' # <<>> =>
       \A i \in ActiveSlots : output'[1].priority <= queue[i].entry.priority]_vars

\* Unless enqueues keep coming, everything in the queue is popped: the queue
\* empties, through the counts of every entry and the precedence of enqueues.
Drains ==
  \/ []<><<\E ready \in BOOLEAN, e \in Entries : EnqueueCycle(e, ready)>>_vars
  \/ []<>(ActiveSlots = {})

=============================================================================
