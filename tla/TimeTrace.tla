------------------------------- MODULE TimeTrace -------------------------------
(***************************************************************************)
(* The time trace library, app/lib/time_trace.cc and .h: each thread       *)
(* records events in a ring of its own, without locks; a print freezes the *)
(* recording, copies the list of rings under the mutex and merges them.    *)
(* Threads interleave between the stores of record() and between the loops *)
(* of print_internal(); the bodies that hold the mutex are single steps.   *)
(* rdtsc never gives the same time twice, so an event's format is named by *)
(* its time.  log is a ghost: every event recorded in a buffer so far.     *)
(***************************************************************************)
EXTENDS Integers, Sequences, FiniteSetsExt, Functions

CONSTANTS
  Threads,
  BUFFER_SIZE,  \* slots of a ring (2^16, so that BUFFER_MASK is the remainder)
  MaxTime,      \* bound: readings of rdtsc
  MaxBuffers,   \* bound: buffers ever created
  MaxObjects,   \* bound: thread_buffer objects of one thread
  MaxPrints     \* bound: prints started

ASSUME TraceAssumption ==
  /\ IsFiniteSet(Threads)
  /\ BUFFER_SIZE \in Nat \ {0}
  /\ {MaxTime, MaxBuffers, MaxObjects, MaxPrints} \subseteq Nat

VARIABLES
  clock,           \* the last time rdtsc gave
  frozen,
  thread_buffers,  \* the ids of the buffers that exist; the vector has them in order
  buffer,          \* id -> [next_index, ref_count, events]
  tb,              \* thread -> its buffer, or NULL
  objects,         \* thread -> number of its thread_buffer objects
  rec,             \* thread -> its call of record()
  pr,              \* thread -> its call of print_internal()
  prints,          \* prints started
  log              \* ghost: id -> times of the events recorded

vars == <<clock, frozen, thread_buffers, buffer, tb, objects, rec, pr, prints, log>>

NULL == 0
Slots == 0..(BUFFER_SIZE - 1)
NoEvent == [timestamp |-> 0, format |-> NULL]
Recorded(time) == [timestamp |-> time, format |-> time]
NoRecord == [pc |-> "none", timestamp |-> 0, slot |-> 0]
NoPrint == [pc |-> "none", buffers |-> <<>>, current |-> <<>>, start_time |-> 0,
            printed |-> <<>>, clean |-> TRUE]

Idle(t) == rec[t].pc = "none" /\ pr[t].pc = "none"
\* A call that has passed the test of frozen, and that no freeze stops now.
Recording(t) == rec[t].pc \in {"index", "timestamp", "format"}
Following(index) == (index + 1) % BUFFER_SIZE

\* The elements of a finite set of numbers in increasing order.
Sorted(S) ==
  [n \in 1..Cardinality(S) |-> CHOOSE x \in S : Cardinality({y \in S : y <= x}) = n]

-----------------------------------------------------------------------------
\* The thread_buffer constructor: the first object of a thread gets a buffer,
\* in which the creation is recorded unless the trace is frozen.
NewBuffer(t) ==
  LET b == Len(log) + 1
  IN /\ Idle(t) /\ tb[t] = NULL /\ b <= MaxBuffers /\ clock < MaxTime
     /\ clock' = clock + 1
     /\ tb' = [tb EXCEPT ![t] = b]
     /\ objects' = [objects EXCEPT ![t] = @ + 1]
     /\ thread_buffers' = thread_buffers \cup {b}
     /\ buffer' = Append(buffer,
          [ref_count |-> 1,
           next_index |-> IF frozen THEN 0 ELSE 1 % BUFFER_SIZE,
           events |-> [s \in Slots |-> IF s = 0 /\ ~frozen THEN Recorded(clock + 1)
                                                     ELSE NoEvent]])
     /\ log' = Append(log, IF frozen THEN <<>> ELSE <<clock + 1>>)
     /\ UNCHANGED <<frozen, rec, pr, prints>>

\* The constructor for a thread that has a buffer.
ShareBuffer(t) ==
  /\ Idle(t) /\ tb[t] # NULL /\ objects[t] < MaxObjects
  /\ objects' = [objects EXCEPT ![t] = @ + 1]
  /\ buffer' = [buffer EXCEPT ![tb[t]].ref_count = @ + 1]
  /\ UNCHANGED <<clock, frozen, thread_buffers, tb, rec, pr, prints, log>>

\* Mutant: the thread keeps its pointer to a buffer nobody refers to.
DestroyKeeps(t) ==
  /\ Idle(t) /\ objects[t] > 0
  /\ objects' = [objects EXCEPT ![t] = @ - 1]
  /\ buffer' = [buffer EXCEPT ![tb[t]].ref_count = @ - 1]
  /\ UNCHANGED <<clock, frozen, thread_buffers, tb, rec, pr, prints, log>>

\* The thread_buffer destructor.
Destroy(t) ==
  /\ Idle(t) /\ objects[t] > 0
  /\ objects' = [objects EXCEPT ![t] = @ - 1]
  /\ buffer' = [buffer EXCEPT ![tb[t]].ref_count = @ - 1]
  /\ tb' = [tb EXCEPT ![t] = IF buffer[tb[t]].ref_count = 1 THEN NULL ELSE @]
  /\ UNCHANGED <<clock, frozen, thread_buffers, rec, pr, prints, log>>

\* cleanup(): the buffers nobody refers to are deleted; a print that has
\* copied one of them to its list reads freed memory from here on.
Cleanup(t) ==
  LET used(b) == buffer[b].ref_count # 0
  IN /\ Idle(t) /\ \E b \in thread_buffers : ~used(b)
     /\ thread_buffers' = {b \in thread_buffers : used(b)}
     /\ pr' = [u \in Threads |->
                 IF \A b \in Range(pr[u].buffers) : used(b) THEN pr[u]
                 ELSE [pr[u] EXCEPT !.clean = FALSE]]
     /\ UNCHANGED <<clock, frozen, buffer, tb, objects, rec, prints, log>>

\* freeze(), called on its own.
Freeze(t) ==
  /\ Idle(t) /\ ~frozen
  /\ frozen' = TRUE
  /\ UNCHANGED <<clock, thread_buffers, buffer, tb, objects, rec, pr, prints, log>>

-----------------------------------------------------------------------------
\* record(format) reads the time before it calls record(timestamp, format).
Rdtsc(t) ==
  /\ Idle(t) /\ tb[t] # NULL /\ clock < MaxTime
  /\ clock' = clock + 1
  /\ rec' = [rec EXCEPT ![t] = [pc |-> "test", timestamp |-> clock + 1, slot |-> 0]]
  /\ UNCHANGED <<frozen, thread_buffers, buffer, tb, objects, pr, prints, log>>

\* buffer::record: nothing when frozen, ...
TestFrozen(t) ==
  /\ rec[t].pc = "test"
  /\ rec' = [rec EXCEPT ![t] = IF frozen THEN NoRecord ELSE [@ EXCEPT !.pc = "index"]]
  /\ UNCHANGED <<clock, frozen, thread_buffers, buffer, tb, objects, pr, prints, log>>

\* ... otherwise the slot is taken, whatever was frozen since, ...
TakeSlot(t) ==
  LET b == tb[t]
  IN /\ rec[t].pc = "index"
     /\ rec' = [rec EXCEPT ![t].pc = "timestamp", ![t].slot = buffer[b].next_index]
     /\ buffer' = [buffer EXCEPT ![b].next_index = Following(@)]
     /\ UNCHANGED <<clock, frozen, thread_buffers, tb, objects, pr, prints, log>>

\* ... the time stored, ...
StoreTimestamp(t) ==
  /\ rec[t].pc = "timestamp"
  /\ rec' = [rec EXCEPT ![t].pc = "format"]
  /\ buffer' = [buffer EXCEPT ![tb[t]].events[rec[t].slot].timestamp = rec[t].timestamp]
  /\ UNCHANGED <<clock, frozen, thread_buffers, tb, objects, pr, prints, log>>

\* ... and the format with its arguments.
StoreFormat(t) ==
  /\ rec[t].pc = "format"
  /\ rec' = [rec EXCEPT ![t] = NoRecord]
  /\ buffer' = [buffer EXCEPT ![tb[t]].events[rec[t].slot].format = rec[t].timestamp]
  /\ log' = [log EXCEPT ![tb[t]] = Append(@, rec[t].timestamp)]
  /\ UNCHANGED <<clock, frozen, thread_buffers, tb, objects, pr, prints>>

-----------------------------------------------------------------------------
\* get_trace(), or print_to_file() with a file that could be opened (if not,
\* it returns errno and nothing is done): freeze.  The print is clean if no
\* record() is past its test, and as long as no other print ends.
PrintInternal(t) ==
  /\ Idle(t) /\ prints < MaxPrints
  /\ prints' = prints + 1
  /\ frozen' = TRUE
  /\ pr' = [pr EXCEPT ![t] = [NoPrint EXCEPT !.pc = "copy",
                                !.clean = ~\E u \in Threads : Recording(u)]]
  /\ UNCHANGED <<clock, thread_buffers, buffer, tb, objects, rec, log>>

\* Mutant: the oldest slot of a full ring is taken to be the next one to fill.
OldestAtNext(b) ==
  IF buffer[b].events[buffer[b].next_index].format # NULL
  THEN buffer[b].next_index ELSE 0

\* Where the oldest event to print of a buffer is.
Oldest(b) ==
  LET index == Following(buffer[b].next_index)
  IN IF buffer[b].events[index].format # NULL THEN index ELSE 0

\* The list is copied under the mutex, and the oldest events found.
Copy(t) ==
  LET list == Sorted(thread_buffers)
  IN /\ pr[t].pc = "copy"
     /\ pr' = [pr EXCEPT ![t].pc = "start", ![t].buffers = list,
                         ![t].current = [i \in DOMAIN list |-> Oldest(list[i])]]
     /\ UNCHANGED <<clock, frozen, thread_buffers, buffer, tb, objects, rec, prints, log>>

EventAt(call, i) == buffer[call.buffers[i]].events[call.current[i]]

\* The latest of the oldest events of all buffers is the first to print.
Start(t) ==
  LET times == {EventAt(pr[t], i).timestamp :
                  i \in {j \in DOMAIN pr[t].buffers : EventAt(pr[t], j).format # NULL}}
  IN /\ pr[t].pc = "start"
     /\ pr' = [pr EXCEPT ![t].pc = "skip", ![t].start_time = Max(times \cup {0})]
     /\ UNCHANGED <<clock, frozen, thread_buffers, buffer, tb, objects, rec, prints, log>>

\* The first slot of buffer b from which to print: not older than start_time.
From(b, current, start_time) ==
  LET slot(n) == (current + n) % BUFFER_SIZE
      event(n) == buffer[b].events[slot(n)]
      stops(n) == \/ event(n).format = NULL
                  \/ event(n).timestamp >= start_time
                  \/ slot(n) = buffer[b].next_index
  IN slot(Min({n \in Slots : stops(n)}))

\* Skip all events before the starting time.
Skip(t) ==
  /\ pr[t].pc = "skip"
  /\ pr' = [pr EXCEPT ![t].pc = "emit",
                      ![t].current = [i \in DOMAIN @ |->
                         From(pr[t].buffers[i], @[i], pr[t].start_time)]]
  /\ UNCHANGED <<clock, frozen, thread_buffers, buffer, tb, objects, rec, prints, log>>

Left(call) ==
  {i \in DOMAIN call.buffers :
     /\ call.current[i] # buffer[call.buffers[i]].next_index
     /\ EventAt(call, i).format # NULL}

\* The buffer of the earliest event left, the first one of several.
Earliest(call, i) ==
  \A j \in Left(call) :
    \/ EventAt(call, i).timestamp < EventAt(call, j).timestamp
    \/ EventAt(call, i).timestamp = EventAt(call, j).timestamp /\ i <= j

\* Mutant: the printed event stays the current one.
EmitAgain(t) ==
  \E i \in Left(pr[t]) :
    /\ pr[t].pc = "emit" /\ Earliest(pr[t], i)
    /\ pr' = [pr EXCEPT ![t].printed = <<EventAt(pr[t], i)>>]
    /\ UNCHANGED <<clock, frozen, thread_buffers, buffer, tb, objects, rec, prints, log>>

\* One event is printed.
Emit(t) ==
  \E i \in Left(pr[t]) :
    /\ pr[t].pc = "emit" /\ Earliest(pr[t], i)
    /\ pr' = [pr EXCEPT ![t].printed = Append(@, EventAt(pr[t], i)),
                        ![t].current[i] = Following(@)]
    /\ UNCHANGED <<clock, frozen, thread_buffers, buffer, tb, objects, rec, prints, log>>

\* Nothing is left: recording goes on, also under a print of another thread.
Return(t) ==
  /\ pr[t].pc = "emit" /\ Left(pr[t]) = {}
  /\ frozen' = FALSE
  /\ pr' = [u \in Threads |-> IF u = t THEN NoPrint ELSE [pr[u] EXCEPT !.clean = FALSE]]
  /\ UNCHANGED <<clock, thread_buffers, buffer, tb, objects, rec, prints, log>>

-----------------------------------------------------------------------------
Init ==
  /\ clock = 0 /\ frozen = FALSE /\ prints = 0
  /\ thread_buffers = {} /\ buffer = <<>> /\ log = <<>>
  /\ tb = [t \in Threads |-> NULL]
  /\ objects = [t \in Threads |-> 0]
  /\ rec = [t \in Threads |-> NoRecord]
  /\ pr = [t \in Threads |-> NoPrint]

\* The steps of a call that has begun.
Proceed(t) == \/ TestFrozen(t) \/ TakeSlot(t) \/ StoreTimestamp(t) \/ StoreFormat(t)
              \/ Copy(t) \/ Start(t) \/ Skip(t) \/ Emit(t) \/ Return(t)

Next ==
  \E t \in Threads :
    \/ NewBuffer(t) \/ ShareBuffer(t) \/ Destroy(t) \/ Cleanup(t)
    \/ Freeze(t) \/ Rdtsc(t) \/ PrintInternal(t) \/ Proceed(t)

\* The operating system runs every thread on.
Spec == Init /\ [][Next]_vars /\ \A t \in Threads : WF_vars(Proceed(t))

-----------------------------------------------------------------------------
Retained(b) ==
  LET kept == Min({Len(log[b]), BUFFER_SIZE - 1})
  IN SubSeq(log[b], Len(log[b]) - kept + 1, Len(log[b]))

\* What a print ought to show: of the last BUFFER_SIZE - 1 events recorded in
\* every buffer those from the time on from which no buffer has lost any.
Complete(list) ==
  Max({Head(Retained(b)) : b \in {c \in Range(list) : Retained(c) # <<>>}} \cup {0})
Expected(list) ==
  {time \in UNION {Range(Retained(b)) : b \in Range(list)} : time >= Complete(list)}

\* "The thread-local traces are merged": a print that nobody disturbs shows
\* these events, each once, whole and in the order of their times, wherever
\* the rings have wrapped, buffers are empty or their threads gone.
CompletePrint ==
  \A t \in Threads :
    pr[t].pc = "emit" /\ Left(pr[t]) = {} /\ pr[t].clean =>
      LET times == Sorted(Expected(pr[t].buffers))
      IN  pr[t].printed = [n \in DOMAIN times |-> Recorded(times[n])]

\* record() and the destructor never touch a deleted buffer: a thread's buffer
\* is in thread_buffers as long as it has objects, which ref_count counts, and
\* no two threads share one.
BuffersAlive ==
  \A t \in Threads :
    tb[t] # NULL =>
      /\ tb[t] \in thread_buffers
      /\ buffer[tb[t]].ref_count = objects[t]
      /\ \A u \in Threads \ {t} : tb[u] # tb[t]

\* "Stop all recording of trace events until they have been printed": a print
\* does not stop it for ever, although record() calls that were past their test
\* move rings under it and threads come and go.  It ends, unless another print
\* ends first and lets recording go on, which the former then may chase.
PrintReturns ==
  \A t \in Threads : pr[t].pc # "none" /\ frozen ~> pr[t].pc = "none" \/ ~frozen

\* "This class is thread-safe": what is printed is in the order of the times.
\* The code refutes this: a record() that tested frozen before the freeze takes
\* and fills its slot while the print is under way.
PrintedInOrder ==
  \A t \in Threads : \A m, n \in DOMAIN pr[t].printed :
    m < n => pr[t].printed[m].timestamp < pr[t].printed[n].timestamp
=============================================================================
