------------------------------- MODULE SimQueue -------------------------------
(***************************************************************************)
(* The queue simulator of model/: the base class Queue, the queues Ideal   *)
(* and PIFO_Naive of queues.hh, and the loops of qsim.cc that drive them.  *)
(* A cycle is a departure, the pulse control, at most one arrival and a    *)
(* step.  Lengths are in cycles of 64 bytes.  PIFO_Naive keeps the best    *)
(* entries in a small sorted queue and the others in a backing vector,     *)
(* into which one entry at a time is inserted by a scan of one comparison  *)
(* per cycle; gqueue is the simulator's own record of all that is pending. *)
(***************************************************************************)
EXTENDS Integers, FiniteSets, SequencesExt

CONSTANTS
  QTypes,       \* the values of --type to simulate
  PrioritySet,  \* values of --priorities to simulate (0 when it is not given)
  Slack,        \* entries it is kept below that (8 in the code)
  Frame,        \* cycles of a full packet: ceil(MAX_PACKET / 64)
  Lengths,      \* message lengths, in cycles
  Duration,     \* completions to simulate (--comps)
  Pulses,       \* pulses to simulate (--comps of pifo_insertion_pulse)
  MaxSize,      \* occupancy at which a pulse ends (--max)
  MaxMessages   \* bound: messages that arrive

ASSUME SimAssumption ==
  /\ QTypes \subseteq {"ideal", "pifo_naive", "pifo_naive_snapshot",
                       "pifo_insertion_pulse"}
  /\ Slack \in Nat \ {0} /\ PrioritySet \subseteq Nat \ {Slack - 1}
  /\ Frame \in Nat \ {0} /\ Lengths \subseteq Nat \ {0}
  /\ Duration \in Nat /\ Pulses \in Nat /\ MaxSize \in Nat /\ MaxMessages \in Nat

VARIABLES
  qtype,        \* which queue and which loop
  priorities,   \* entries the sorted queue of PIFO_Naive is meant to hold
  phase,        \* where in the cycle the loop is
  buff,         \* cycles until the packet in service is out
  id,           \* next identifier, also the number of arrivals
  gqueue,       \* all pending entries
  hwqueue,      \* the multiset sorted by Compare
  backing,      \* PIFO_Naive: pairs of an entry and whether it is in place
  insert,       \* PIFO_Naive: the entry being inserted into backing
  scan,         \* PIFO_Naive: index insert is compared with next, or -1
  firstunsort,  \* PIFO_Naive: index of the first entry to re-insert, or -1
  active,       \* PIFO_Naive: entries held
  drain,        \* a pulse is over and the queue empties
  pulses,       \* pulses drained
  pktinacc,     \* has a packet left that was not of the best entry?
  underflow     \* has a cycle been wasted although entries were pending?

sorter == <<hwqueue, backing, insert, scan, firstunsort>>
options == <<qtype, priorities>>
control == <<drain, pulses>>
stats == <<pktinacc, underflow>>
vars == <<options, phase, buff, id, gqueue, sorter, active, control, stats>>

\* Compare: fewer remaining bytes first, then the older.
Before(l, r) == \/ l.remaining < r.remaining
                \/ l.remaining = r.remaining /\ l.id < r.id

\* The entry with n others before it.
Nth(queue, n) ==
  CHOOSE e \in queue : Cardinality({o \in queue : Before(o, e)}) = n
Best(queue) == Nth(queue, 0)
Worst(queue) == Nth(queue, Cardinality(queue) - 1)

Pifo == qtype # "ideal"
Empty == IF Pifo THEN active = 0 ELSE hwqueue = {}
Size == IF Pifo THEN active ELSE Cardinality(hwqueue)
Comps == id - Cardinality(gqueue)

-----------------------------------------------------------------------------
\* The condition of the loop that main runs for this type.
Running ==
  CASE qtype = "pifo_naive_snapshot"  -> ~Empty
    [] qtype = "pifo_insertion_pulse" -> pulses < Pulses
    [] OTHER                          -> Comps < Duration

\* The head of hwqueue sends a packet, with what is left of it kept.
Dequeue ==
  LET head == Best(hwqueue)
      rest == [head EXCEPT !.remaining = @ - Frame]
      kept == IF rest.remaining > 0 THEN {rest} ELSE {}
  IN /\ hwqueue' = (hwqueue \ {head}) \cup kept
     /\ gqueue' = (gqueue \ {head}) \cup kept
     /\ buff' = IF kept = {} THEN rest.remaining + Frame ELSE Frame
     /\ active' = IF Pifo /\ kept = {} THEN active - 1 ELSE active
     /\ pktinacc' = (pktinacc \/ head.remaining > Best(gqueue).remaining)

\* Mutant: the packet in service is not counted down.
DepartureStuck ==
  /\ phase = "departure" /\ Running
  /\ phase' = "control"
  /\ \/ /\ buff > 0 \/ Empty
        /\ UNCHANGED <<buff, gqueue, hwqueue, active, stats>>
     \/ /\ buff = 0 /\ ~Empty /\ hwqueue = {}
        /\ underflow' = TRUE
        /\ UNCHANGED <<buff, gqueue, hwqueue, active, pktinacc>>
     \/ /\ buff = 0 /\ ~Empty /\ hwqueue # {}
        /\ Dequeue
        /\ UNCHANGED underflow
  /\ UNCHANGED <<options, id, backing, insert, scan, firstunsort, control>>

\* Queue::departure
Departure ==
  /\ phase = "departure" /\ Running
  /\ phase' = "control"
  /\ \/ /\ buff > 1 \/ Empty
        /\ buff' = IF buff > 0 THEN buff - 1 ELSE 0
        /\ UNCHANGED <<gqueue, hwqueue, active, stats>>
     \/ /\ buff <= 1 /\ ~Empty /\ hwqueue = {}
        /\ buff' = 0
        /\ underflow' = TRUE
        /\ UNCHANGED <<gqueue, hwqueue, active, pktinacc>>
     \/ /\ buff <= 1 /\ ~Empty /\ hwqueue # {}
        /\ Dequeue
        /\ UNCHANGED underflow
  /\ UNCHANGED <<options, id, backing, insert, scan, firstunsort, control>>

\* The pulses of pifo_insertion_pulse: fill until MaxSize, drain, start again.
Control ==
  /\ phase = "control"
  /\ phase' = "arrival"
  /\ IF qtype # "pifo_insertion_pulse" THEN UNCHANGED control
     ELSE LET draining == drain \/ Size > MaxSize
          IN /\ drain' = (draining /\ Size # 0)
             /\ pulses' = IF draining /\ Size = 0 THEN pulses + 1 ELSE pulses
  /\ UNCHANGED <<options, buff, id, gqueue, sorter, active, stats>>

\* Queue::arrival, and enqueue of both queues.
Arrival(length) ==
  LET entry == [id |-> id, remaining |-> length]
  IN /\ phase = "arrival" /\ id < MaxMessages /\ ~drain
     /\ qtype # "pifo_naive_snapshot"
     /\ phase' = "step"
     /\ id' = id + 1
     /\ gqueue' = gqueue \cup {entry}
     /\ hwqueue' = hwqueue \cup {entry}
     /\ active' = IF Pifo THEN active + 1 ELSE active
     /\ UNCHANGED <<options, buff, backing, insert, scan, firstunsort, control, stats>>

\* next_arrival is later than this cycle.
NoArrival ==
  /\ phase = "arrival"
  /\ phase' = "step"
  /\ UNCHANGED <<options, buff, id, gqueue, sorter, active, control, stats>>

-----------------------------------------------------------------------------
\* PIFO_Naive::step, on a record of the sorter's variables.  When no entry is
\* being inserted, the first one known to be out of place is taken out.
Jump(q) ==
  IF q.scan # -1 \/ q.firstunsort = -1 THEN q
  ELSE [q EXCEPT !.insert = q.backing[q.firstunsort + 1].entry,
                 !.backing = RemoveAt(@, q.firstunsort + 1),
                 !.scan = q.firstunsort,
                 !.firstunsort = -1]

\* Mutant: the first smaller entry met, sorted or not, ends the insertion.
CompareFlagless(q) ==
  LET here == q.scan + 1
  IN CASE q.scan = -1 -> q
       [] q.scan >= 0 /\ q.scan < Len(q.backing) /\ ~Before(q.insert, q.backing[here].entry) ->
            [q EXCEPT !.scan = @ + 1]
       [] OTHER ->
            [q EXCEPT !.backing = InsertAt(@, here, [entry |-> q.insert, sorted |-> TRUE]),
                      !.firstunsort = IF q.scan <= @ THEN @ + 1 ELSE @,
                      !.scan = -1]

\* One comparison of the insertion.
Compare(q) ==
  LET here == q.scan + 1
      place(sorted) == [entry |-> q.insert, sorted |-> sorted]
  IN CASE q.scan = -1 -> q
       [] q.scan >= Len(q.backing) ->
            [q EXCEPT !.backing = InsertAt(@, here, place(TRUE)), !.scan = -1]
       [] q.scan \in 0..(Len(q.backing) - 1) ->
            LET met == q.backing[here]
            IN CASE ~Before(q.insert, met.entry) -> [q EXCEPT !.scan = @ + 1]
                 [] Before(q.insert, met.entry) /\ met.sorted ->
                      [q EXCEPT !.backing = InsertAt(@, here, place(TRUE)),
                                !.firstunsort = IF q.scan <= @ THEN @ + 1 ELSE @,
                                !.scan = -1]
                 [] OTHER ->  \* the better entry stays, the other is carried on
                      [q EXCEPT !.backing[here] = place(FALSE),
                                !.insert = met.entry,
                                !.firstunsort = IF q.scan < @ \/ @ = -1 THEN q.scan ELSE @,
                                !.scan = @ + 1]

\* hwqueue.size() <= priorities+1-8, an unsigned comparison: below Slack - 1
\* priorities the bound wraps and is never reached.
RunsLow(queue) == \/ priorities + 1 < Slack
                  \/ Cardinality(queue) <= priorities + 1 - Slack

\* Mutant: the index of the first unsorted entry does not move with it.
RefillStale(q) ==
  IF \/ q.backing = <<>>
     \/ /\ ~RunsLow(q.hwqueue)
        /\ ~Before(q.backing[1].entry, Nth(q.hwqueue, priorities - Slack))
  THEN q
  ELSE [q EXCEPT !.hwqueue = @ \cup {q.backing[1].entry},
                 !.backing = Tail(@),
                 !.scan = IF @ <= 0 THEN @ ELSE @ - 1]

\* The head of backing moves into the sorted queue when that runs low, or when
\* it belongs before the entries near its end.
Refill(q) ==
  IF \/ q.backing = <<>>
     \/ /\ ~RunsLow(q.hwqueue)
        /\ ~Before(q.backing[1].entry, Nth(q.hwqueue, priorities - Slack))
  THEN q
  ELSE [q EXCEPT !.hwqueue = @ \cup {q.backing[1].entry},
                 !.backing = Tail(@),
                 !.firstunsort = IF @ < 0 THEN @ ELSE @ - 1,
                 !.scan = IF @ <= 0 THEN @ ELSE @ - 1]

\* Mutant: an insertion in progress is given up for the spilled entry.
SpillOver(q) ==
  IF Cardinality(q.hwqueue) < priorities + 1 THEN q
  ELSE [q EXCEPT !.insert = Worst(q.hwqueue),
                 !.hwqueue = @ \ {Worst(q.hwqueue)},
                 !.scan = 0]

\* Mutant: the last entries of a sorted queue that is not full are spilled.
SpillEarly(q) ==
  IF q.scan # -1 \/ Cardinality(q.hwqueue) < priorities - 1 \/ q.hwqueue = {} THEN q
  ELSE [q EXCEPT !.insert = Worst(q.hwqueue),
                 !.hwqueue = @ \ {Worst(q.hwqueue)},
                 !.scan = 0]

\* A sorted queue with too many entries gives up its last one, which is
\* inserted from the front; an insertion in progress is left where it is.
Spill(q) ==
  IF Cardinality(q.hwqueue) < priorities + 1 THEN q
  ELSE LET atEnd == q.scan = Len(q.backing)
           placed == IF q.scan = -1 THEN q
                     ELSE [q EXCEPT
                       !.backing = InsertAt(@, q.scan + 1,
                                     [entry |-> q.insert, sorted |-> atEnd]),
                       !.firstunsort = IF ~atEnd /\ (q.scan < @ \/ @ = -1)
                                       THEN q.scan ELSE @]
       IN [placed EXCEPT !.insert = Worst(q.hwqueue),
                         !.hwqueue = @ \ {Worst(q.hwqueue)},
                         !.scan = 0]

\* step of both queues; that of Ideal only keeps statistics.
Step ==
  /\ phase = "step"
  /\ phase' = "departure"
  /\ IF ~Pifo THEN UNCHANGED sorter
     ELSE LET q == Spill(Refill(Compare(Jump(
                     [hwqueue |-> hwqueue, backing |-> backing, insert |-> insert,
                      scan |-> scan, firstunsort |-> firstunsort]))))
          IN /\ hwqueue' = q.hwqueue
             /\ backing' = q.backing
             /\ insert' = q.insert
             /\ scan' = q.scan
             /\ firstunsort' = q.firstunsort
  /\ UNCHANGED <<options, buff, id, gqueue, active, control, stats>>

\* The loop ends and main deletes the queue.
Finish ==
  /\ phase = "departure" /\ ~Running
  /\ phase' = "done"
  /\ UNCHANGED <<options, buff, id, gqueue, sorter, active, control, stats>>

Finished == phase = "done" /\ UNCHANGED vars

NoEntry == [id |-> -1, remaining |-> 0]

Init ==
  /\ qtype \in QTypes /\ priorities \in PrioritySet
  /\ phase = "departure"
  /\ buff = 0 /\ id = 0 /\ active = 0 /\ pulses = 0 /\ drain = FALSE
  /\ gqueue = {} /\ hwqueue = {}
  /\ backing = <<>> /\ insert = NoEntry /\ scan = -1 /\ firstunsort = -1
  /\ pktinacc = FALSE /\ underflow = FALSE

Next ==
  \/ Departure \/ Control \/ NoArrival \/ Step \/ Finish \/ Finished
  \/ \E length \in Lengths : Arrival(length)

\* The loop runs on, and the exponential gaps between arrivals are finite.
Fairness == /\ WF_vars(Next)
            /\ SF_vars(\E length \in Lengths : Arrival(length))

Spec == Init /\ [][Next]_vars /\ Fairness

-----------------------------------------------------------------------------
Held == IF scan = -1 THEN {} ELSE {insert}

\* Departure's assert(val == 1): an entry is in the sorted queue, in backing
\* or being inserted, in exactly one of them and with the same remaining
\* length as in gqueue; none is lost or doubled, and active counts them.
Conserved ==
  /\ gqueue = hwqueue \cup {backing[i].entry : i \in DOMAIN backing} \cup Held
  /\ Cardinality(gqueue) = Cardinality(hwqueue) + Len(backing) + Cardinality(Held)
  /\ Pifo => active = Cardinality(gqueue)

\* assert(missort.second == false) in step, and "is the comparison entry
\* already ideal?": firstunsort, when set, is the index of an entry that is
\* flagged as out of place, scan is within the vector, and what is flagged
\* sorted is in order, whatever was spilled, carried on or moved out around it.
FlagsRight ==
  /\ scan \in -1..Len(backing)
  /\ firstunsort # -1 =>
       firstunsort \in 0..(Len(backing) - 1) /\ ~backing[firstunsort + 1].sorted
  /\ \A i, j \in DOMAIN backing :
       i < j /\ backing[i].sorted /\ backing[j].sorted =>
         Before(backing[i].entry, backing[j].entry)

\* No cycle is wasted while a message is pending, also while all but those in
\* hwqueue are in backing or being inserted, if the sorted queue may hold at
\* least one; and with Ideal no packet leaves while a shorter message waits.
LinkServed ==
  /\ qtype = "ideal" \/ priorities > 0 => ~underflow
  /\ qtype = "ideal" => ~pktinacc

\* "If we are not busy scanning, but there are unsorted entries, jump to that":
\* an entry flagged as out of place is found again.  The code refutes this:
\* firstunsort is cleared with the first one and forgets the others.
NoneForgotten ==
  scan = -1 /\ firstunsort = -1 => \A i \in DOMAIN backing : backing[i].sorted

\* With at least one priority the completions asked for are reached and every
\* pulse drains; with none entries circle between the two queues.
Finishes ==
  priorities > 0 =>
    /\ qtype # "pifo_insertion_pulse" => <>(phase = "done")
    /\ drain ~> ~drain
=============================================================================
