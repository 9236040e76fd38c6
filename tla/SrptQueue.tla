------------------------------ MODULE SrptQueue ------------------------------
(***************************************************************************)
(* The systolic SRPT queue of srpt_queue.v, as the send queue (TYPE        *)
(* "sendmsg") and as the fetch queue (TYPE "fetch").  One action is one    *)
(* rising clock edge out of reset.  Offsets count down: a message is sent  *)
(* from remaining = length, and granted (dbuffered) is the value of        *)
(* remaining down to which bytes may be sent (are on chip).                *)
(***************************************************************************)
EXTENDS Integers, Sequences, FiniteSets

CONSTANTS
  Type,             \* "sendmsg" or "fetch"
  MAX_RPCS,         \* slots of the queue, even (64 in hardware)
  PAYLOAD_SIZE,     \* payload bytes of a packet
  CACHE_SIZE,       \* bytes of cache of a message
  CACHE_BLOCK_SIZE, \* bytes of one fetch
  Ids,              \* rpc_id and dbuff_id values in use
  Lengths,          \* message lengths, in bytes
  MaxLive           \* bound: messages in the queue at once

ASSUME TypeAssumption == Type \in {"sendmsg", "fetch"}
ASSUME SlotsAssumption == MAX_RPCS \in Nat /\ MAX_RPCS >= 4 /\ MAX_RPCS % 2 = 0
ASSUME IdsAssumption == 0 \notin Ids  \* the ids of a slot after reset
ASSUME BytesAssumption ==
  /\ PAYLOAD_SIZE \in Nat \ {0}
  /\ CACHE_BLOCK_SIZE \in Nat \ {0}
  /\ CACHE_SIZE \in Nat
  /\ Lengths \subseteq Nat \ {0}
ASSUME LiveAssumption == MaxLive \in Nat

INVALIDATE   == 0
DBUFF_UPDATE == 1
GRANT_UPDATE == 2
EMPTY        == 3
BLOCKED      == 4
ACTIVE       == 5

Slots == 0..(MAX_RPCS - 1)
OffsetRange == 2^20

VARIABLES
  queue,          \* queue[0..MAX_RPCS-1]
  m_axis_tvalid,
  m_axis_tdata,
  delivered,      \* the packets (none or one) the receiver took at this edge
  peak,           \* history: most messages that were live at once
  crowded         \* history: has an insert had to drop a message?

vars == <<queue, m_axis_tvalid, m_axis_tdata, delivered, peak, crowded>>

EmptyEntry == [rpc_id |-> 0, dbuff_id |-> 0, remaining |-> 0, dbuffered |-> 0,
               granted |-> 0, priority |-> EMPTY]

\* Entries that are messages, and not updates, bubbles or empty.
IsMessage(e) == e.priority \in {BLOCKED, ACTIVE}

\* An insert keeps one entry of the last pair of slots it compares.
LastPairHeld == IsMessage(queue[MAX_RPCS - 3]) /\ IsMessage(queue[MAX_RPCS - 2])

\* A message comes to those that are live.
Joins(live) == peak' = IF Cardinality(live) = peak THEN peak + 1 ELSE peak

-----------------------------------------------------------------------------
\* The comparison of prioritize: low_i has to give way to high_i.
GivesWay(low, high) ==
  IF low.priority # high.priority THEN low.priority < high.priority
                                  ELSE low.remaining > high.remaining

\* Mutant: an update reaches every entry it passes.
PassedByAny(high, low) ==
  CASE Type = "sendmsg" /\ low.priority = GRANT_UPDATE ->
         [high EXCEPT !.granted = low.granted, !.priority = ACTIVE]
    [] Type = "fetch" /\ low.priority = DBUFF_UPDATE ->
         [high EXCEPT !.dbuffered = (@ - PAYLOAD_SIZE) % OffsetRange,
                      !.priority = ACTIVE]
    [] OTHER -> high

\* What an entry becomes when low passes it on its way to the tail.
PassedBy(high, low) ==
  LET buffers == low.priority = DBUFF_UPDATE /\ low.dbuff_id = high.dbuff_id
      grants  == low.priority = GRANT_UPDATE /\ low.rpc_id = high.rpc_id
  IN  CASE Type = "sendmsg" /\ buffers ->
             [high EXCEPT !.dbuffered = low.dbuffered, !.priority = ACTIVE]
        [] Type = "sendmsg" /\ ~buffers /\ grants ->
             [high EXCEPT !.granted = low.granted, !.priority = ACTIVE]
        [] Type = "fetch" /\ buffers ->
             [high EXCEPT !.dbuffered = (@ - PAYLOAD_SIZE) % OffsetRange,
                          !.priority = ACTIVE]
        [] OTHER -> high

\* prioritize(low_o, high_o, low_i, high_i), low_o nearer to the head.
Prioritized(low, high) ==
  IF GivesWay(low, high) THEN <<PassedBy(high, low), low>> ELSE <<low, high>>

\* queue_swap_odd: the new entry against the head, and the pairs (1, 2),
\* (3, 4) ... one place further down.  The last slot is never written.
Inserted(new) ==
  LET pair(i) == IF i = 0 THEN Prioritized(new, queue[0])
                          ELSE Prioritized(queue[i - 1], queue[i])
  IN  [i \in Slots |->
         IF i = MAX_RPCS - 1 THEN queue[i]
         ELSE IF i % 2 = 0 THEN pair(i)[1] ELSE pair(i - 1)[2]]

-----------------------------------------------------------------------------
head == queue[0]

\* Mutant: a packet shorter than PAYLOAD_SIZE is not complete when all is.
sendq_dbuffered_full == head.dbuffered + PAYLOAD_SIZE <= head.remaining

sendq_granted == head.granted + 1 <= head.remaining \/ head.granted = 0
sendq_dbuffered ==
  head.dbuffered + PAYLOAD_SIZE <= head.remaining \/ head.dbuffered = 0

ripe ==
  /\ head.priority = ACTIVE
  /\ Type = "sendmsg" => sendq_granted /\ sendq_dbuffered

\* Bytes of the head one dequeue accounts for.
Step == IF Type = "sendmsg" THEN PAYLOAD_SIZE ELSE CACHE_BLOCK_SIZE

\* Mutants: the slot next to the head is left in place; the cache is full one
\* block late.
CompletedKeepingNext == [queue EXCEPT ![0] = queue[1]]
CacheFullLate == head.dbuffered > CACHE_SIZE - Step

LastStep == head.remaining <= Step

\* A completed head makes room for the next slot, which becomes a bubble.
Completed == [queue EXCEPT ![0] = queue[1], ![1].priority = INVALIDATE]

CacheFull == head.dbuffered >= CACHE_SIZE - Step

\* The queue after the head has been put on the output.
Dequeued ==
  IF LastStep THEN Completed
  ELSE IF Type = "sendmsg"
  THEN [queue EXCEPT ![0].remaining = @ - Step]
  ELSE [queue EXCEPT
          ![0] = [head EXCEPT !.remaining = @ - Step,
                              !.dbuffered = (@ + Step) % OffsetRange,
                              !.priority  = IF CacheFull THEN BLOCKED ELSE @]]

Handshake(ready) ==
  delivered' = IF m_axis_tvalid /\ ready THEN <<m_axis_tdata>> ELSE <<>>

\* s_axis_tvalid && s_axis_tready: the output registers are left alone.
InsertCycle(new, ready) ==
  /\ queue' = Inserted(new)
  /\ crowded' = (crowded \/ LastPairHeld)
  /\ Handshake(ready)
  /\ UNCHANGED <<m_axis_tvalid, m_axis_tdata>>

\* Mutant: the next packet replaces one that was not taken.
DequeueOverOutput(ready) ==
  /\ ripe
  /\ queue' = Dequeued
  /\ m_axis_tvalid' = TRUE
  /\ m_axis_tdata' = head
  /\ Handshake(ready)
  /\ UNCHANGED <<peak, crowded>>

DequeueCycle(ready) ==
  /\ ~m_axis_tvalid \/ ready
  /\ ripe
  /\ queue' = Dequeued
  /\ m_axis_tvalid' = TRUE
  /\ m_axis_tdata' = head
  /\ Handshake(ready)
  /\ UNCHANGED <<peak, crowded>>

IdleCycle(ready) ==
  /\ ~m_axis_tvalid \/ ready
  /\ ~ripe
  /\ m_axis_tvalid' = FALSE
  /\ m_axis_tdata' = head
  /\ Handshake(ready)
  /\ UNCHANGED <<queue, peak, crowded>>

\* The output is full and not taken.
StalledCycle ==
  /\ m_axis_tvalid
  /\ Handshake(FALSE)
  /\ UNCHANGED <<queue, m_axis_tvalid, m_axis_tdata, peak, crowded>>

Init ==
  /\ queue = [i \in Slots |-> EmptyEntry]
  /\ m_axis_tvalid = FALSE
  /\ m_axis_tdata = EmptyEntry
  /\ delivered = <<>>
  /\ peak = 0 /\ crowded = FALSE
=============================================================================
