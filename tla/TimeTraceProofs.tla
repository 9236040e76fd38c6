---------------------------- MODULE TimeTraceProofs ----------------------------
(***************************************************************************)
(* The buffers and the prints of the time trace, proved for every number   *)
(* of threads, buffers, objects and prints, every size of ring and every   *)
(* interleaving of record(), print_internal(), cleanup() and thread_buffer *)
(* objects.                                                                *)
(***************************************************************************)
EXTENDS TimeTrace, SequenceTheorems, FiniteSetTheorems, WellFoundedInduction, TLAPS

Event == [timestamp : Nat, format : Nat]
Ring == [ref_count : Nat, next_index : Slots, events : [Slots -> Event]]
Calls == [pc : {"none", "test", "index", "timestamp", "format"}, timestamp : Nat, slot : Slots]

TraceType ==
  /\ clock \in Nat /\ frozen \in BOOLEAN
  /\ buffer \in Seq(Ring) /\ log \in Seq(Seq(Nat)) /\ Len(log) = Len(buffer)
  /\ thread_buffers \subseteq 1..Len(buffer)
  /\ tb \in [Threads -> Nat] /\ objects \in [Threads -> Nat]
  /\ rec \in [Threads -> Calls]

\* A thread has a buffer exactly while it has objects, and is in record() only
\* with a buffer.
Referred ==
  \A t \in Threads : /\ tb[t] = NULL <=> objects[t] = 0
                     /\ rec[t].pc # "none" => tb[t] # NULL

TraceInv == TraceType /\ Referred /\ BuffersAlive

-----------------------------------------------------------------------------
\* Indices of a ring stay in it.
LEMMA SlotsFollow ==
  /\ 0 \in Slots /\ 1 % BUFFER_SIZE \in Slots
  /\ \A index \in Slots : Following(index) \in Slots
BY TraceAssumption DEF Slots, Following

\* What a thread with a buffer can rely on.
LEMMA OwnBuffer ==
  ASSUME TraceInv, NEW t \in Threads, tb[t] # NULL
  PROVE  /\ tb[t] \in thread_buffers /\ tb[t] \in 1..Len(buffer)
         /\ buffer[tb[t]] \in Ring /\ buffer[tb[t]].ref_count = objects[t]
         /\ objects[t] \in Nat /\ objects[t] # 0
         /\ \A u \in Threads \ {t} : tb[u] # tb[t]
<1>1. /\ tb[t] \in thread_buffers /\ buffer[tb[t]].ref_count = objects[t]
      /\ \A u \in Threads \ {t} : tb[u] # tb[t]
  BY DEF TraceInv, BuffersAlive
<1>2. tb[t] \in 1..Len(buffer) /\ buffer \in Seq(Ring)
  BY <1>1 DEF TraceInv, TraceType
<1>3. objects[t] \in Nat /\ objects[t] # 0
  BY DEF TraceInv, TraceType, Referred
<1>4. QED
  BY <1>1, <1>2, <1>3

\* One element of a sequence replaced.
LEMMA Replaced ==
  ASSUME NEW S, NEW s \in Seq(S), NEW b \in 1..Len(s), NEW x \in S
  PROVE  /\ [s EXCEPT ![b] = x] \in Seq(S) /\ Len([s EXCEPT ![b] = x]) = Len(s)
         /\ [s EXCEPT ![b] = x][b] = x
         /\ \A c \in 1..Len(s) : c # b => [s EXCEPT ![b] = x][c] = s[c]
OBVIOUS

\* A ring with one event replaced.
LEMMA EventReplaced ==
  ASSUME NEW ring \in Ring, NEW s \in Slots, NEW event \in Event
  PROVE  /\ ring.events[s] \in Event
         /\ [ring EXCEPT !.events = [ring.events EXCEPT ![s] = event]] \in Ring
         /\ [ring EXCEPT !.events = [ring.events EXCEPT ![s] = event]].ref_count
              = ring.ref_count
<1> DEFINE events == [ring.events EXCEPT ![s] = event]
<1>1. ring.events[s] \in Event /\ events \in [Slots -> Event]
  BY DEF Ring
<1> HIDE DEF events
<1>2. /\ [ring EXCEPT !.events = events] \in Ring
      /\ [ring EXCEPT !.events = events].ref_count = ring.ref_count
  BY <1>1 DEF Ring
<1>3. QED
  BY <1>1, <1>2 DEF events

\* A store into the ring of its own thread keeps its count of references, and
\* with it everything that is said of buffers.
LEMMA StoreKeeps ==
  ASSUME TraceInv, NEW t \in Threads, rec[t].pc # "none",
         NEW ring \in Ring, ring.ref_count = buffer[tb[t]].ref_count,
         buffer' = [buffer EXCEPT ![tb[t]] = ring],
         rec' \in [Threads -> Calls],
         \A u \in Threads : rec'[u].pc # "none" => rec[u].pc # "none",
         log' \in Seq(Seq(Nat)), Len(log') = Len(log),
         UNCHANGED <<clock, frozen, thread_buffers, tb, objects>>
  PROVE  TraceInv'
<1>1. tb[t] # NULL
  BY DEF TraceInv, Referred
<1>2. tb[t] \in 1..Len(buffer) /\ buffer \in Seq(Ring)
  BY <1>1, OwnBuffer DEF TraceInv, TraceType
<1>3. /\ buffer' \in Seq(Ring) /\ Len(buffer') = Len(buffer)
      /\ buffer'[tb[t]] = ring
      /\ \A c \in 1..Len(buffer) : c # tb[t] => buffer'[c] = buffer[c]
  BY <1>2, Replaced
<1>4. TraceType'
  BY <1>3 DEF TraceInv, TraceType
<1>5. Referred'
  BY DEF TraceInv, Referred
<1>6. BuffersAlive'
  <2> SUFFICES ASSUME NEW u \in Threads, tb[u] # NULL
               PROVE  /\ tb[u] \in thread_buffers
                      /\ buffer'[tb[u]].ref_count = objects[u]
                      /\ \A v \in Threads \ {u} : tb[v] # tb[u]
    BY DEF BuffersAlive
  <2>1. /\ tb[u] \in thread_buffers /\ tb[u] \in 1..Len(buffer)
        /\ buffer[tb[u]].ref_count = objects[u]
        /\ \A v \in Threads \ {u} : tb[v] # tb[u]
    BY OwnBuffer
  <2>2. buffer'[tb[u]].ref_count = buffer[tb[u]].ref_count
    BY <1>3, <2>1
  <2>3. QED
    BY <2>1, <2>2
<1>7. QED
  BY <1>4, <1>5, <1>6 DEF TraceInv

\* A step that leaves buffers and threads alone.
LEMMA NothingStored ==
  ASSUME TraceInv, clock' \in Nat, frozen' \in BOOLEAN, rec' \in [Threads -> Calls],
         \A u \in Threads : rec'[u].pc # "none" => rec[u].pc # "none" \/ tb[u] # NULL,
         UNCHANGED <<thread_buffers, buffer, tb, objects, log>>
  PROVE  TraceInv'
BY DEF TraceInv, TraceType, Referred, BuffersAlive

\* record() and its calls.
LEMMA RecordStep ==
  ASSUME TraceInv, NEW t \in Threads,
         Rdtsc(t) \/ TestFrozen(t) \/ TakeSlot(t) \/ StoreTimestamp(t) \/ StoreFormat(t)
  PROVE  TraceInv'
<1>0. /\ clock \in Nat /\ rec \in [Threads -> Calls] /\ NoRecord \in Calls
      /\ rec[t] \in Calls /\ rec[t].timestamp \in Nat /\ rec[t].slot \in Slots
      /\ log \in Seq(Seq(Nat)) /\ frozen \in BOOLEAN /\ Len(log) = Len(buffer)
  BY SlotsFollow DEF TraceInv, TraceType, Calls, NoRecord
<1>1. CASE Rdtsc(t)
  <2>1. [pc |-> "test", timestamp |-> clock + 1, slot |-> 0] \in Calls
    BY <1>0, SlotsFollow DEF Calls
  <2>2. rec' \in [Threads -> Calls] /\ clock' \in Nat
    BY <1>0, <1>1, <2>1 DEF Rdtsc
  <2>3. \A u \in Threads : rec'[u].pc # "none" => rec[u].pc # "none" \/ tb[u] # NULL
    BY <1>0, <1>1 DEF Rdtsc
  <2>4. QED
    BY <1>0, <1>1, <2>2, <2>3, NothingStored DEF Rdtsc
<1>2. ASSUME rec[t].pc # "none" PROVE /\ tb[t] \in 1..Len(buffer) /\ buffer[tb[t]] \in Ring
                                      /\ Len(log) = Len(buffer)
  BY <1>0, <1>2, OwnBuffer DEF TraceInv, Referred
<1>3. CASE TestFrozen(t)
  <2> DEFINE call == IF frozen THEN NoRecord ELSE [rec[t] EXCEPT !.pc = "index"]
  <2>1. /\ rec' = [rec EXCEPT ![t] = call] /\ rec[t].pc # "none"
        /\ UNCHANGED <<clock, frozen, thread_buffers, buffer, tb, objects, log>>
    BY <1>3 DEF TestFrozen
  <2>2. call \in Calls
    BY <1>0 DEF Calls
  <2> HIDE DEF call
  <2>3. rec' \in [Threads -> Calls]
    BY <1>0, <2>1, <2>2
  <2>4. \A u \in Threads : rec'[u].pc # "none" => rec[u].pc # "none"
    BY <1>0, <2>1
  <2>5. QED
    BY <1>0, <2>1, <2>3, <2>4, NothingStored
<1>4. CASE TakeSlot(t)
  <2> DEFINE ring == [buffer[tb[t]] EXCEPT !.next_index = Following(@)]
             call == [rec[t] EXCEPT !.pc = "timestamp", !.slot = buffer[tb[t]].next_index]
  <2>1. rec[t].pc # "none"
    BY <1>4 DEF TakeSlot
  <2>2. ring \in Ring /\ ring.ref_count = buffer[tb[t]].ref_count
    BY <1>2, <2>1, SlotsFollow DEF Ring
  <2>3. call \in Calls
    BY <1>0, <1>2, <2>1 DEF Calls, Ring
  <2>4. buffer' = [buffer EXCEPT ![tb[t]] = ring] /\ rec' = [rec EXCEPT ![t] = call]
    BY <1>4 DEF TakeSlot
  <2> HIDE DEF ring, call
  <2>5. /\ rec' \in [Threads -> Calls]
        /\ \A u \in Threads : rec'[u].pc # "none" => rec[u].pc # "none"
    BY <1>0, <2>1, <2>3, <2>4
  <2>6. UNCHANGED <<clock, frozen, thread_buffers, tb, objects, log>>
    BY <1>4 DEF TakeSlot
  <2>7. QED
    BY <1>0, <2>1, <2>2, <2>4, <2>5, <2>6, StoreKeeps
<1>5. CASE StoreTimestamp(t)
  <2> DEFINE event == [buffer[tb[t]].events[rec[t].slot] EXCEPT !.timestamp = rec[t].timestamp]
             ring == [buffer[tb[t]] EXCEPT !.events =
                        [buffer[tb[t]].events EXCEPT ![rec[t].slot] = event]]
             call == [rec[t] EXCEPT !.pc = "format"]
  <2>1. rec[t].pc # "none"
    BY <1>5 DEF StoreTimestamp
  <2>2. ring \in Ring /\ ring.ref_count = buffer[tb[t]].ref_count
    <3>1. buffer[tb[t]].events[rec[t].slot] \in Event
      BY <1>0, <1>2, <2>1 DEF Ring
    <3>2. event \in Event
      BY <1>0, <3>1 DEF Event
    <3> HIDE DEF event
    <3>3. QED
      BY <1>0, <1>2, <2>1, <3>2, EventReplaced
  <2>3. call \in Calls
    BY <1>0 DEF Calls
  <2>4. buffer' = [buffer EXCEPT ![tb[t]] = ring] /\ rec' = [rec EXCEPT ![t] = call]
    BY <1>5 DEF StoreTimestamp
  <2> HIDE DEF ring, call
  <2>5. /\ rec' \in [Threads -> Calls]
        /\ \A u \in Threads : rec'[u].pc # "none" => rec[u].pc # "none"
    BY <1>0, <2>1, <2>3, <2>4
  <2>6. UNCHANGED <<clock, frozen, thread_buffers, tb, objects, log>>
    BY <1>5 DEF StoreTimestamp
  <2>7. QED
    BY <1>0, <2>1, <2>2, <2>4, <2>5, <2>6, StoreKeeps
<1>6. CASE StoreFormat(t)
  <2> DEFINE event == [buffer[tb[t]].events[rec[t].slot] EXCEPT !.format = rec[t].timestamp]
             ring == [buffer[tb[t]] EXCEPT !.events =
                        [buffer[tb[t]].events EXCEPT ![rec[t].slot] = event]]
             events == Append(log[tb[t]], rec[t].timestamp)
  <2>1. rec[t].pc # "none"
    BY <1>6 DEF StoreFormat
  <2>2. ring \in Ring /\ ring.ref_count = buffer[tb[t]].ref_count
    <3>1. buffer[tb[t]].events[rec[t].slot] \in Event
      BY <1>0, <1>2, <2>1 DEF Ring
    <3>2. event \in Event
      BY <1>0, <3>1 DEF Event
    <3> HIDE DEF event
    <3>3. QED
      BY <1>0, <1>2, <2>1, <3>2, EventReplaced
  <2>3. events \in Seq(Nat) /\ tb[t] \in 1..Len(log)
    BY <1>0, <1>2, <2>1
  <2>4. /\ buffer' = [buffer EXCEPT ![tb[t]] = ring] /\ rec' = [rec EXCEPT ![t] = NoRecord]
        /\ log' = [log EXCEPT ![tb[t]] = events]
    BY <1>6 DEF StoreFormat
  <2> HIDE DEF ring, events
  <2>5. log' \in Seq(Seq(Nat)) /\ Len(log') = Len(log)
    BY <1>0, <2>3, <2>4, Replaced
  <2>6. /\ rec' \in [Threads -> Calls]
        /\ \A u \in Threads : rec'[u].pc # "none" => rec[u].pc # "none"
    BY <1>0, <2>1, <2>4
  <2>7. UNCHANGED <<clock, frozen, thread_buffers, tb, objects>>
    BY <1>6 DEF StoreFormat
  <2>8. QED
    BY <2>1, <2>2, <2>4, <2>5, <2>6, <2>7, StoreKeeps
<1>7. QED
  BY <1>1, <1>3, <1>4, <1>5, <1>6

-----------------------------------------------------------------------------
\* The first object of a thread: its buffer is a new one, so no other thread's.
LEMMA NewBufferStep ==
  ASSUME TraceInv, NEW t \in Threads, NewBuffer(t)
  PROVE  TraceInv'
<1> DEFINE b == Len(log) + 1
           first == Recorded(clock + 1)
           events == [s \in Slots |-> IF s = 0 /\ ~frozen THEN first ELSE NoEvent]
           ring == [ref_count |-> 1, next_index |-> IF frozen THEN 0 ELSE 1 % BUFFER_SIZE,
                    events |-> events]
           times == IF frozen THEN <<>> ELSE <<clock + 1>>
<1>0. /\ clock \in Nat /\ frozen \in BOOLEAN /\ buffer \in Seq(Ring) /\ log \in Seq(Seq(Nat))
      /\ Len(log) = Len(buffer) /\ tb \in [Threads -> Nat] /\ objects \in [Threads -> Nat]
      /\ rec \in [Threads -> Calls] /\ thread_buffers \subseteq 1..Len(buffer)
  BY DEF TraceInv, TraceType
<1>1. /\ tb[t] = NULL /\ clock' = clock + 1 /\ tb' = [tb EXCEPT ![t] = b]
      /\ objects' = [objects EXCEPT ![t] = @ + 1]
      /\ thread_buffers' = thread_buffers \cup {b}
      /\ buffer' = Append(buffer, ring) /\ log' = Append(log, times)
      /\ rec' = rec /\ frozen' = frozen
  BY DEF NewBuffer
<1>2. ring \in Ring
  <2>1. first \in Event /\ NoEvent \in Event
    BY <1>0 DEF Event, NoEvent, NULL, Recorded
  <2> HIDE DEF first
  <2>2. events \in [Slots -> Event]
    BY <2>1
  <2> HIDE DEF events
  <2>3. QED
    BY <1>0, <2>2, SlotsFollow DEF Ring
<1>3. times \in Seq(Nat)
  BY <1>0
<1>4. ring.ref_count = 1
  OBVIOUS
<1> HIDE DEF ring, times
<1>5. /\ buffer' \in Seq(Ring) /\ Len(buffer') = Len(buffer) + 1
      /\ log' \in Seq(Seq(Nat)) /\ Len(log') = Len(log) + 1
      /\ buffer'[b] = ring
      /\ \A c \in 1..Len(buffer) : buffer'[c] = buffer[c]
  BY <1>0, <1>1, <1>2, <1>3
<1>6. /\ b \in Nat \ {0} /\ Len(buffer) \in Nat /\ b = Len(buffer) + 1
      /\ tb'[t] = b /\ objects'[t] = 1
      /\ \A u \in Threads \ {t} : tb'[u] = tb[u] /\ objects'[u] = objects[u]
  BY <1>0, <1>1 DEF TraceInv, Referred
<1>7. TraceType'
  <2>1. clock' \in Nat /\ frozen' \in BOOLEAN /\ rec' \in [Threads -> Calls]
    BY <1>0, <1>1
  <2>2. tb' \in [Threads -> Nat] /\ objects' \in [Threads -> Nat]
    BY <1>0, <1>1, <1>6
  <2>3. thread_buffers' \subseteq 1..Len(buffer')
    <3>1. Len(buffer') = b /\ \A c \in 1..Len(buffer) : c \in 1..b
      BY <1>5, <1>6
    <3>2. b \in 1..b
      BY <1>6
    <3>3. \A c \in thread_buffers' : c \in thread_buffers \/ c = b
      BY <1>1
    <3> HIDE DEF b
    <3>4. QED
      BY <1>0, <3>1, <3>2, <3>3
  <2>4. Len(log') = Len(buffer')
    BY <1>0, <1>5
  <2>5. QED
    BY <1>5, <2>1, <2>2, <2>3, <2>4 DEF TraceType
<1>8. Referred'
  BY <1>1, <1>6 DEF TraceInv, Referred, NULL
<1>9. ASSUME NEW u \in Threads \ {t}, tb[u] # NULL
      PROVE  /\ tb[u] \in thread_buffers' /\ tb[u] # b
             /\ buffer'[tb[u]].ref_count = objects[u]
  <2>1. /\ tb[u] \in thread_buffers /\ tb[u] \in 1..Len(buffer)
        /\ buffer[tb[u]].ref_count = objects[u]
    BY <1>9, OwnBuffer
  <2>2. QED
    BY <1>1, <1>5, <1>6, <2>1
<1>10. BuffersAlive'
  <2> SUFFICES ASSUME NEW u \in Threads, tb'[u] # NULL
               PROVE  /\ tb'[u] \in thread_buffers'
                      /\ buffer'[tb'[u]].ref_count = objects'[u]
                      /\ \A v \in Threads \ {u} : tb'[v] # tb'[u]
    BY DEF BuffersAlive
  <2>1. CASE u = t
    <3>1. \A v \in Threads \ {t} : tb[v] # b
      BY <1>6, <1>9 DEF NULL
    <3>2. QED
      BY <1>1, <1>4, <1>5, <1>6, <2>1, <3>1
  <2>2. CASE u # t
    <3>1. tb'[u] = tb[u] /\ objects'[u] = objects[u]
      BY <1>6, <2>2
    <3>2. \A v \in Threads \ {u} : tb'[v] # tb[u]
      BY <1>6, <1>9, <2>2, <3>1, OwnBuffer
    <3>3. QED
      BY <1>9, <2>2, <3>1, <3>2
  <2>3. QED
    BY <2>1, <2>2
<1>11. QED
  BY <1>7, <1>8, <1>10 DEF TraceInv

\* A thread that comes to have n objects, with its buffer's count kept equal:
\* it loses the buffer with its last object.
LEMMA Recounted ==
  ASSUME TraceInv, NEW t \in Threads, tb[t] # NULL, rec[t].pc = "none", NEW n \in Nat,
         objects' = [objects EXCEPT ![t] = n],
         buffer' = [buffer EXCEPT ![tb[t]] = [buffer[tb[t]] EXCEPT !.ref_count = n]],
         tb' = [tb EXCEPT ![t] = IF n = 0 THEN NULL ELSE tb[t]],
         UNCHANGED <<clock, frozen, thread_buffers, rec, log>>
  PROVE  TraceInv'
<1> DEFINE ring == [buffer[tb[t]] EXCEPT !.ref_count = n]
<1>0. /\ buffer \in Seq(Ring) /\ tb \in [Threads -> Nat] /\ objects \in [Threads -> Nat]
      /\ tb[t] \in 1..Len(buffer) /\ buffer[tb[t]] \in Ring
  BY OwnBuffer DEF TraceInv, TraceType
<1>1. ring \in Ring /\ ring.ref_count = n
  BY <1>0 DEF Ring
<1> HIDE DEF ring
<1>2. /\ buffer' \in Seq(Ring) /\ Len(buffer') = Len(buffer) /\ buffer'[tb[t]] = ring
      /\ \A c \in 1..Len(buffer) : c # tb[t] => buffer'[c] = buffer[c]
  BY <1>0, <1>1, Replaced DEF ring
<1>3. /\ tb'[t] = (IF n = 0 THEN NULL ELSE tb[t]) /\ objects'[t] = n
      /\ \A u \in Threads \ {t} : tb'[u] = tb[u] /\ objects'[u] = objects[u]
  BY <1>0
<1>4. TraceType'
  BY <1>0, <1>2 DEF TraceInv, TraceType, NULL
<1>5. Referred'
  BY <1>3 DEF TraceInv, Referred
<1>6. BuffersAlive'
  <2> SUFFICES ASSUME NEW u \in Threads, tb'[u] # NULL
               PROVE  /\ tb'[u] \in thread_buffers
                      /\ buffer'[tb'[u]].ref_count = objects'[u]
                      /\ \A v \in Threads \ {u} : tb'[v] # tb'[u]
    BY DEF BuffersAlive
  <2>1. tb'[u] = tb[u] /\ tb[u] # NULL
    BY <1>3
  <2>2. /\ tb[u] \in thread_buffers /\ tb[u] \in 1..Len(buffer)
        /\ buffer[tb[u]].ref_count = objects[u]
        /\ \A v \in Threads \ {u} : tb[v] # tb[u]
    BY <2>1, OwnBuffer
  <2>3. buffer'[tb[u]].ref_count = objects'[u]
    BY <1>1, <1>2, <1>3, <2>2
  <2>4. \A v \in Threads \ {u} : tb'[v] # tb[u]
    BY <1>3, <2>1, <2>2
  <2>5. QED
    BY <2>1, <2>2, <2>3, <2>4
<1>7. QED
  BY <1>4, <1>5, <1>6 DEF TraceInv

\* Constructor and destructor of the further objects of a thread.
LEMMA ObjectStep ==
  ASSUME TraceInv, NEW t \in Threads, ShareBuffer(t) \/ Destroy(t)
  PROVE  TraceInv'
<1>1. CASE ShareBuffer(t)
  <2>1. tb[t] # NULL /\ rec[t].pc = "none" /\ tb \in [Threads -> Nat]
    BY <1>1 DEF ShareBuffer, Idle, TraceInv, TraceType
  <2>2. /\ buffer[tb[t]].ref_count = objects[t] /\ objects[t] \in Nat
    BY <2>1, OwnBuffer
  <2> DEFINE n == objects[t] + 1
  <2>3. n \in Nat /\ n # 0 /\ buffer[tb[t]].ref_count + 1 = n
    BY <2>2
  <2>4. /\ objects' = [objects EXCEPT ![t] = objects[t] + 1]
        /\ buffer' = [buffer EXCEPT ![tb[t]] =
                        [buffer[tb[t]] EXCEPT !.ref_count = buffer[tb[t]].ref_count + 1]]
        /\ UNCHANGED <<clock, frozen, thread_buffers, tb, rec, log>>
    BY <1>1 DEF ShareBuffer
  <2>5. tb' = [tb EXCEPT ![t] = IF n = 0 THEN NULL ELSE tb[t]]
    BY <2>1, <2>3, <2>4
  <2>6. /\ objects' = [objects EXCEPT ![t] = n]
        /\ buffer' = [buffer EXCEPT ![tb[t]] = [buffer[tb[t]] EXCEPT !.ref_count = n]]
    BY <2>3, <2>4
  <2> HIDE DEF n
  <2>7. QED
    BY <2>1, <2>3, <2>4, <2>5, <2>6, Recounted
<1>2. CASE Destroy(t)
  <2>1. objects[t] > 0 /\ rec[t].pc = "none" /\ tb \in [Threads -> Nat]
    BY <1>2 DEF Destroy, Idle, TraceInv, TraceType
  <2>2. tb[t] # NULL
    BY <2>1 DEF TraceInv, Referred
  <2>3. buffer[tb[t]].ref_count = objects[t] /\ objects[t] \in Nat
    BY <2>2, OwnBuffer
  <2> DEFINE n == objects[t] - 1
  <2>4. n \in Nat /\ buffer[tb[t]].ref_count - 1 = n
        /\ (buffer[tb[t]].ref_count = 1 <=> n = 0)
    BY <2>1, <2>3
  <2>5. /\ objects' = [objects EXCEPT ![t] = objects[t] - 1]
        /\ buffer' = [buffer EXCEPT ![tb[t]] =
                        [buffer[tb[t]] EXCEPT !.ref_count = buffer[tb[t]].ref_count - 1]]
        /\ tb' = [tb EXCEPT ![t] = IF buffer[tb[t]].ref_count = 1 THEN NULL ELSE tb[t]]
        /\ UNCHANGED <<clock, frozen, thread_buffers, rec, log>>
    BY <1>2 DEF Destroy
  <2>6. /\ objects' = [objects EXCEPT ![t] = n]
        /\ buffer' = [buffer EXCEPT ![tb[t]] = [buffer[tb[t]] EXCEPT !.ref_count = n]]
        /\ tb' = [tb EXCEPT ![t] = IF n = 0 THEN NULL ELSE tb[t]]
    BY <2>4, <2>5
  <2> HIDE DEF n
  <2>7. QED
    BY <2>1, <2>2, <2>4, <2>5, <2>6, Recounted
<1>3. QED
  BY <1>1, <1>2

\* cleanup() deletes no buffer a thread has: its count is not 0.
LEMMA CleanupStep ==
  ASSUME TraceInv, NEW t \in Threads, Cleanup(t)
  PROVE  TraceInv'
<1>1. /\ thread_buffers' = {b \in thread_buffers : buffer[b].ref_count # 0}
      /\ UNCHANGED <<clock, frozen, buffer, tb, objects, rec, log>>
  BY DEF Cleanup
<1>2. TraceType' /\ Referred'
  BY <1>1 DEF TraceInv, TraceType, Referred
<1>3. \A u \in Threads : tb[u] # NULL => buffer[tb[u]].ref_count # 0
  BY OwnBuffer
<1>4. BuffersAlive'
  BY <1>1, <1>3 DEF TraceInv, BuffersAlive
<1>5. QED
  BY <1>2, <1>4 DEF TraceInv

-----------------------------------------------------------------------------
\* No interleaving of threads disturbs the buffers.
LEMMA TraceInductive ==
  ASSUME TraceInv, [Next]_vars
  PROVE  TraceInv'
<1>0. clock \in Nat /\ frozen \in BOOLEAN /\ rec \in [Threads -> Calls]
  BY DEF TraceInv, TraceType
<1>1. ASSUME NEW t \in Threads, Freeze(t) \/ PrintInternal(t) \/ Copy(t) \/ Start(t)
                                \/ Skip(t) \/ Emit(t) \/ Return(t)
      PROVE  TraceInv'
  <2>1. /\ frozen' \in BOOLEAN
        /\ UNCHANGED <<clock, rec, thread_buffers, buffer, tb, objects, log>>
    BY <1>0, <1>1 DEF Freeze, PrintInternal, Copy, Start, Skip, Emit, Return
  <2>2. QED
    BY <1>0, <2>1, NothingStored
<1>2. CASE UNCHANGED vars
  BY <1>0, <1>2, NothingStored DEF vars
<1>3. CASE Next
  BY <1>1, <1>3, NewBufferStep, ObjectStep, CleanupStep, RecordStep DEF Next, Proceed
<1>4. QED
  BY <1>2, <1>3

LEMMA TraceInitial ==
  ASSUME Init
  PROVE  TraceInv
<1>1. NoRecord \in Calls /\ <<>> \in Seq(Ring) /\ <<>> \in Seq(Seq(Nat)) /\ Len(<<>>) = 0
  BY SlotsFollow DEF Calls, NoRecord
<1>2. TraceType
  BY <1>1 DEF Init, TraceType, NULL
<1>3. Referred /\ BuffersAlive
  BY DEF Init, Referred, BuffersAlive, NoRecord
<1>4. QED
  BY <1>2, <1>3 DEF TraceInv

\* record(), the destructor and cleanup() never meet over a deleted buffer,
\* and no two threads write the same one, although only the list of buffers is
\* guarded by the mutex.
THEOREM BuffersStayAlive == Spec => []BuffersAlive
<1>1. Init => TraceInv
  BY TraceInitial
<1>2. TraceInv /\ [Next]_vars => TraceInv'
  BY TraceInductive
<1>3. TraceInv => BuffersAlive
  BY DEF TraceInv
<1>4. QED
  BY <1>1, <1>2, <1>3, PTL DEF Spec

-----------------------------------------------------------------------------
\* The second part: what a print that nobody disturbs shows.
\*
\* A record() that has taken its slot and not filled it; the slot d before slot
\* next of a ring, how many a buffer retains and the slots taken of it.
Filling(t) == rec[t].pc \in {"timestamp", "format"}
Back(next, d) == IF d <= next THEN next - d ELSE next - d + BUFFER_SIZE
Kept(b) == IF Len(log[b]) < BUFFER_SIZE THEN Len(log[b]) ELSE BUFFER_SIZE - 1
Taken(b) == IF \E t \in Threads : tb[t] = b /\ Filling(t) THEN 1 ELSE 0

\* A ring holds, from next_index backwards, the slot taken and then the events
\* recorded, the last one first, and nothing behind the first one.
RingLogged(b) ==
  LET count == Len(log[b]) + Taken(b)
      next == buffer[b].next_index
  IN  /\ count < BUFFER_SIZE => next = count
      /\ \A d \in (1 + Taken(b))..BUFFER_SIZE :
           buffer[b].events[Back(next, d)] =
             IF d <= count THEN Recorded(log[b][count + 1 - d]) ELSE NoEvent

\* The slot that a record() fills is the last one taken.
SlotTaken(t) ==
  Filling(t) =>
    /\ rec[t].slot = Back(buffer[tb[t]].next_index, 1)
    /\ rec[t].pc = "format" =>
         buffer[tb[t]].events[rec[t].slot].timestamp = rec[t].timestamp

\* Times are those of the clock, in a buffer they increase, and none is the
\* time of two events; the time of a record() under way is later than all of
\* its buffer.
TimesDiffer ==
  /\ \A b \in DOMAIN log : \A i \in DOMAIN log[b] :
       /\ log[b][i] \in 1..clock
       /\ \A j \in DOMAIN log[b] : i < j => log[b][i] < log[b][j]
       /\ \A c \in DOMAIN log : \A j \in DOMAIN log[c] :
            b # c => log[b][i] # log[c][j]
  /\ \A t \in Threads : rec[t].pc # "none" =>
       /\ rec[t].timestamp \in 1..clock
       /\ \A b \in DOMAIN log : \A i \in DOMAIN log[b] :
            /\ log[b][i] # rec[t].timestamp
            /\ b = tb[t] => log[b][i] < rec[t].timestamp
       /\ \A u \in Threads \ {t} :
            rec[u].pc # "none" => rec[u].timestamp # rec[t].timestamp

\* Events that a print has not passed in the ring of its i-th buffer.
Ahead(call, i) ==
  LET next == buffer[call.buffers[i]].next_index
  IN  IF call.current[i] <= next THEN next - call.current[i]
                                 ELSE next - call.current[i] + BUFFER_SIZE
Latest(b, d) == {log[b][k] : k \in (Len(log[b]) - d + 1)..Len(log[b])}
ToPrint(call) ==
  {time \in Nat : \E i \in DOMAIN call.buffers :
                    time \in Latest(call.buffers[i], Ahead(call, i))}
Printed(call) == {call.printed[n].timestamp : n \in DOMAIN call.printed}

\* How far a print is: the list, the oldest events, the starting time, and then
\* what was printed, in order, before what is left.
Listed(call) ==
  /\ call.buffers \in Seq(1..Len(buffer))
  /\ \A i, j \in DOMAIN call.buffers : call.buffers[i] = call.buffers[j] => i = j
  /\ DOMAIN call.current = DOMAIN call.buffers
AtOldest(call) ==
  \A i \in DOMAIN call.buffers :
    call.current[i] = Back(buffer[call.buffers[i]].next_index, Kept(call.buffers[i]))
Started(call) == BUFFER_SIZE > 1 => call.start_time = Complete(call.buffers)
Merging(call) ==
  /\ \A i \in DOMAIN call.buffers :
       call.current[i] \in Slots /\ Ahead(call, i) \in 0..Kept(call.buffers[i])
  /\ call.printed \in Seq(Event)
  /\ \A n \in DOMAIN call.printed :
       call.printed[n] = Recorded(call.printed[n].timestamp)
  /\ \A m, n \in DOMAIN call.printed :
       m < n => call.printed[m].timestamp < call.printed[n].timestamp
  /\ Printed(call) \cup ToPrint(call) = Expected(call.buffers)
  /\ \A x \in Printed(call), y \in ToPrint(call) : x < y

PrintRight(t) ==
  LET call == pr[t]
  IN  call.pc # "none" /\ call.clean =>
        /\ frozen /\ \A u \in Threads : ~Recording(u)
        /\ call.pc \in {"copy", "start", "skip"} => call.printed = <<>>
        /\ call.pc \in {"start", "skip", "emit"} => Listed(call)
        /\ call.pc \in {"start", "skip"} => AtOldest(call)
        /\ call.pc = "skip" => Started(call)
        /\ call.pc = "emit" => Merging(call)

CallShape(call) ==
  /\ call = [pc |-> call.pc, buffers |-> call.buffers, current |-> call.current,
             start_time |-> call.start_time, printed |-> call.printed,
             clean |-> call.clean]
  /\ call.pc \in {"none", "copy", "start", "skip", "emit"}
  /\ call.clean \in BOOLEAN

-----------------------------------------------------------------------------
\* Steps back in a ring.
LEMMA StepsBack ==
  ASSUME NEW next \in Slots
  PROVE  /\ \A d \in 0..BUFFER_SIZE : Back(next, d) \in Slots
         /\ \A d, e \in 1..BUFFER_SIZE : Back(next, d) = Back(next, e) => d = e
         /\ \A d \in 0..(BUFFER_SIZE - 1) : Back(Following(next), d + 1) = Back(next, d)
         /\ \A d \in 1..BUFFER_SIZE : Following(Back(next, d)) = Back(next, d - 1)
         /\ Back(next, 0) = next /\ Back(next, BUFFER_SIZE) = next
         /\ Following(next) = IF next = BUFFER_SIZE - 1 THEN 0 ELSE next + 1
         /\ Following(next) = Back(next, BUFFER_SIZE - 1)
<1>0. BUFFER_SIZE \in Nat \ {0} /\ next \in Nat /\ next < BUFFER_SIZE
  BY TraceAssumption DEF Slots
<1>1. \A slot \in Slots : Following(slot) = IF slot = BUFFER_SIZE - 1 THEN 0 ELSE slot + 1
  BY TraceAssumption DEF Following, Slots
<1>2. \A d \in 0..BUFFER_SIZE : Back(next, d) \in Slots
  BY <1>0 DEF Back, Slots
<1>3. \A d, e \in 1..BUFFER_SIZE : Back(next, d) = Back(next, e) => d = e
  BY <1>0 DEF Back
<1>4. \A d \in 0..(BUFFER_SIZE - 1) : Back(Following(next), d + 1) = Back(next, d)
  BY <1>0, <1>1 DEF Back
<1>5. \A d \in 1..BUFFER_SIZE : Following(Back(next, d)) = Back(next, d - 1)
  BY <1>0, <1>1, <1>2 DEF Back
<1>6. Back(next, 0) = next /\ Back(next, BUFFER_SIZE) = next
  BY <1>0 DEF Back
<1>7. Following(next) = Back(next, BUFFER_SIZE - 1)
  BY <1>0, <1>1 DEF Back
<1>8. QED
  BY <1>1, <1>2, <1>3, <1>4, <1>5, <1>6, <1>7

\* What the types say of a log and of a ring.
LEMMA Logs ==
  ASSUME TraceInv
  PROVE  /\ DOMAIN log = 1..Len(log) /\ Len(log) \in Nat /\ Len(log) = Len(buffer)
         /\ DOMAIN buffer = 1..Len(buffer) /\ buffer \in Seq(Ring) /\ log \in Seq(Seq(Nat))
         /\ \A b \in DOMAIN log :
              /\ log[b] \in Seq(Nat) /\ DOMAIN log[b] = 1..Len(log[b]) /\ Len(log[b]) \in Nat
              /\ \A i \in DOMAIN log[b] : log[b][i] \in Nat
              /\ buffer[b] \in Ring /\ buffer[b].next_index \in Slots
              /\ buffer[b].events \in [Slots -> Event]
         /\ \A t \in Threads : tb[t] # NULL => tb[t] \in DOMAIN log
         /\ \A t \in Threads : rec[t].pc # "none" => tb[t] # NULL /\ tb[t] \in DOMAIN log
<1>1. /\ log \in Seq(Seq(Nat)) /\ buffer \in Seq(Ring) /\ Len(log) = Len(buffer)
  BY DEF TraceInv, TraceType
<1>2. \A b \in DOMAIN log : log[b] \in Seq(Nat) /\ buffer[b] \in Ring
  BY <1>1
<1>3. \A b \in DOMAIN log :
        /\ DOMAIN log[b] = 1..Len(log[b]) /\ Len(log[b]) \in Nat
        /\ \A i \in DOMAIN log[b] : log[b][i] \in Nat
  BY <1>2
<1>4. \A b \in DOMAIN log : /\ buffer[b].next_index \in Slots
                            /\ buffer[b].events \in [Slots -> Event]
  BY <1>2 DEF Ring
<1>5. \A t \in Threads : tb[t] # NULL => tb[t] \in DOMAIN log
  BY <1>1, OwnBuffer
<1>6. \A t \in Threads : rec[t].pc # "none" => tb[t] # NULL
  BY DEF TraceInv, Referred
<1>7. QED
  BY <1>1, <1>2, <1>3, <1>4, <1>5, <1>6

-----------------------------------------------------------------------------
\* Times: a step that records nothing, and that starts no record().
LEMMA TimesKept ==
  ASSUME TraceInv, TimesDiffer, log' = log, clock' = clock,
         \A u \in Threads : rec'[u].pc # "none" =>
           /\ rec[u].pc # "none" /\ rec'[u].timestamp = rec[u].timestamp
           /\ tb'[u] = tb[u]
  PROVE  TimesDiffer'
BY DEF TimesDiffer

LEMMA RdtscTimes ==
  ASSUME TraceInv, TimesDiffer, NEW t \in Threads, Rdtsc(t)
  PROVE  TimesDiffer'
<1> DEFINE call == [pc |-> "test", timestamp |-> clock + 1, slot |-> 0]
<1>1. /\ clock' = clock + 1 /\ rec' = [rec EXCEPT ![t] = call]
      /\ log' = log /\ tb' = tb /\ clock \in Nat /\ rec \in [Threads -> Calls]
  BY DEF Rdtsc, TraceInv, TraceType
<1>2. call.timestamp = clock + 1
  OBVIOUS
<1> HIDE DEF call
<1>3. /\ rec'[t] = call
      /\ \A u \in Threads \ {t} : rec'[u] = rec[u]
  BY <1>1
<1>4. \A b \in DOMAIN log : \A i \in DOMAIN log[b] :
        /\ log[b][i] \in 1..clock /\ log[b][i] \in 1..clock'
        /\ log[b][i] # call.timestamp /\ log[b][i] < call.timestamp
  BY <1>1, <1>2 DEF TimesDiffer
<1>5. \A u \in Threads \ {t} : rec[u].pc # "none" =>
        rec[u].timestamp \in 1..clock /\ rec[u].timestamp # call.timestamp
  BY <1>1, <1>2 DEF TimesDiffer
<1>6. \A b \in DOMAIN log : \A i \in DOMAIN log[b] :
        /\ \A j \in DOMAIN log[b] : i < j => log[b][i] < log[b][j]
        /\ \A c \in DOMAIN log : \A j \in DOMAIN log[c] : b # c => log[b][i] # log[c][j]
  BY DEF TimesDiffer
<1>7. ASSUME NEW u \in Threads, rec'[u].pc # "none"
      PROVE  /\ rec'[u].timestamp \in 1..clock'
             /\ \A b \in DOMAIN log : \A i \in DOMAIN log[b] :
                  /\ log[b][i] # rec'[u].timestamp
                  /\ b = tb[u] => log[b][i] < rec'[u].timestamp
             /\ \A v \in Threads \ {u} :
                  rec'[v].pc # "none" => rec'[v].timestamp # rec'[u].timestamp
  <2>1. CASE u = t
    BY <1>1, <1>2, <1>3, <1>4, <1>5, <2>1
  <2>2. CASE u # t
    <3>1. rec'[u] = rec[u] /\ rec[u].timestamp \in 1..clock /\ rec[u].timestamp # call.timestamp
      BY <1>3, <1>5, <1>7, <2>2
    <3>2. rec[u].timestamp \in 1..clock'
      BY <1>1, <3>1
    <3>3. \A b \in DOMAIN log : \A i \in DOMAIN log[b] :
                  /\ log[b][i] # rec[u].timestamp
                  /\ b = tb[u] => log[b][i] < rec[u].timestamp
      BY <1>7, <3>1 DEF TimesDiffer
    <3>4. \A v \in Threads \ {u} :
                  rec'[v].pc # "none" => rec'[v].timestamp # rec[u].timestamp
      BY <1>3, <1>7, <3>1 DEF TimesDiffer
    <3>5. QED
      BY <3>1, <3>2, <3>3, <3>4
  <2>3. QED
    BY <2>1, <2>2
<1>8. QED
  BY <1>1, <1>4, <1>6, <1>7 DEF TimesDiffer

LEMMA StoreFormatTimes ==
  ASSUME TraceInv, TimesDiffer, NEW t \in Threads, StoreFormat(t)
  PROVE  TimesDiffer'
<1> DEFINE b == tb[t]
           n == Len(log[b])
           time == rec[t].timestamp
<1>1. /\ clock' = clock /\ rec' = [rec EXCEPT ![t] = NoRecord]
      /\ log' = [log EXCEPT ![b] = Append(@, time)] /\ tb' = tb
      /\ rec \in [Threads -> Calls] /\ rec[t].pc = "format"
  BY DEF StoreFormat, TraceInv, TraceType
<1>2. /\ DOMAIN log = 1..Len(log) /\ b \in DOMAIN log
      /\ \A c \in DOMAIN log : log[c] \in Seq(Nat) /\ DOMAIN log[c] = 1..Len(log[c])
      /\ n \in Nat
  BY <1>1, Logs
<1>3. /\ time \in 1..clock
      /\ \A c \in DOMAIN log : \A i \in DOMAIN log[c] :
           log[c][i] # time /\ (c = b => log[c][i] < time)
      /\ \A u \in Threads \ {t} : rec[u].pc # "none" => rec[u].timestamp # time
  BY <1>1 DEF TimesDiffer
<1>4. /\ DOMAIN log' = DOMAIN log
      /\ \A c \in DOMAIN log : c # b => log'[c] = log[c]
      /\ log'[b] = Append(log[b], time)
  BY <1>1, <1>2
<1>5. /\ DOMAIN log'[b] = 1..(n + 1) /\ log'[b][n + 1] = time
      /\ \A i \in 1..n : log'[b][i] = log[b][i]
  BY <1>2, <1>3, <1>4
<1>6. \A u \in Threads : rec'[u].pc # "none" => u # t /\ rec'[u] = rec[u]
  BY <1>1 DEF NoRecord
<1> HIDE DEF n, time
<1>7. \A c \in DOMAIN log : \A i \in DOMAIN log'[c] :
        \/ i \in DOMAIN log[c] /\ log'[c][i] = log[c][i]
        \/ c = b /\ i = n + 1 /\ log'[c][i] = time
  <2>1. DOMAIN log[b] = 1..n /\ n \in Nat
    BY <1>2 DEF n
  <2>2. \A i \in DOMAIN log'[b] : i \in 1..n \/ i = n + 1
    BY <1>5, <2>1
  <2>3. QED
    BY <1>4, <1>5, <2>1, <2>2
<1>8. ASSUME NEW c \in DOMAIN log, NEW i \in DOMAIN log'[c]
      PROVE  /\ log'[c][i] \in 1..clock
             /\ \A j \in DOMAIN log'[c] : i < j => log'[c][i] < log'[c][j]
             /\ \A d \in DOMAIN log : \A j \in DOMAIN log'[d] : c # d => log'[c][i] # log'[d][j]
  <2>1. log'[c][i] \in 1..clock
    BY <1>3, <1>7 DEF TimesDiffer
  <2>2. ASSUME NEW j \in DOMAIN log'[c], i < j PROVE log'[c][i] < log'[c][j]
    <3>1. CASE c # b
      BY <1>4, <1>8, <2>2, <3>1 DEF TimesDiffer
    <3>2. CASE c = b
      <4>1. i \in 1..n /\ log'[b][i] = log[b][i]
        BY <1>2, <1>5, <1>8, <2>2, <3>2
      <4>2. (j \in 1..n /\ log'[b][j] = log[b][j]) \/ log'[b][j] = time
        BY <1>2, <1>5, <2>2, <3>2
      <4>3. QED
        BY <1>2, <1>3, <2>2, <3>2, <4>1, <4>2 DEF TimesDiffer, n
    <3>3. QED
      BY <3>1, <3>2
  <2>3. ASSUME NEW d \in DOMAIN log, NEW j \in DOMAIN log'[d], c # d
        PROVE  log'[c][i] # log'[d][j]
    BY <1>3, <1>7, <1>8, <2>3 DEF TimesDiffer
  <2>4. QED
    BY <2>1, <2>2, <2>3
<1>9. ASSUME NEW u \in Threads, rec'[u].pc # "none"
      PROVE  /\ rec'[u].timestamp \in 1..clock
             /\ \A c \in DOMAIN log : \A i \in DOMAIN log'[c] :
                  /\ log'[c][i] # rec'[u].timestamp
                  /\ c = tb[u] => log'[c][i] < rec'[u].timestamp
             /\ \A v \in Threads \ {u} :
                  rec'[v].pc # "none" => rec'[v].timestamp # rec'[u].timestamp
  <2>1. u # t /\ rec'[u] = rec[u] /\ rec[u].pc # "none"
    BY <1>6, <1>9
  <2>2. tb[u] # b
    BY <1>1, <2>1, Logs, OwnBuffer
  <2>3. \A c \in DOMAIN log : \A i \in DOMAIN log[c] :
                  /\ log[c][i] # rec[u].timestamp
                  /\ c = tb[u] => log[c][i] < rec[u].timestamp
    BY <2>1 DEF TimesDiffer
  <2>4. rec[u].timestamp # time
    BY <1>3, <2>1
  <2>5. \A c \in DOMAIN log : \A i \in DOMAIN log'[c] :
                  /\ log'[c][i] # rec[u].timestamp
                  /\ c = tb[u] => log'[c][i] < rec[u].timestamp
    BY <1>7, <2>2, <2>3, <2>4
  <2>6. rec[u].timestamp \in 1..clock
    BY <2>1 DEF TimesDiffer
  <2>7. \A v \in Threads \ {u} : rec'[v].pc # "none" => rec'[v].timestamp # rec[u].timestamp
    BY <1>6, <2>1 DEF TimesDiffer
  <2>8. QED
    BY <2>1, <2>5, <2>6, <2>7
<1>10. QED
  BY <1>1, <1>4, <1>8, <1>9 DEF TimesDiffer

LEMMA NewBufferTimes ==
  ASSUME TraceInv, TimesDiffer, NEW t \in Threads, NewBuffer(t)
  PROVE  TimesDiffer'
<1> DEFINE new == Len(log) + 1
           times == IF frozen THEN <<>> ELSE <<clock + 1>>
<1>1. /\ clock' = clock + 1 /\ rec' = rec /\ clock \in Nat
      /\ log' = Append(log, times) /\ tb' = [tb EXCEPT ![t] = new]
      /\ tb \in [Threads -> Nat] /\ rec[t].pc = "none"
  BY DEF NewBuffer, Idle, TraceInv, TraceType
<1>2. DOMAIN log = 1..Len(log) /\ Len(log) \in Nat /\ log \in Seq(Seq(Nat))
  BY Logs
<1>3. times \in Seq(Nat) /\ \A i \in DOMAIN times : i = 1 /\ times[i] = clock + 1
  BY <1>1
<1> HIDE DEF times
<1>4. /\ DOMAIN log' = 1..new /\ log'[new] = times
      /\ \A c \in DOMAIN log : log'[c] = log[c]
  BY <1>1, <1>2, <1>3
<1>5. \A c \in DOMAIN log' : c \in DOMAIN log \/ c = new
  BY <1>2, <1>4
<1>6. new \notin DOMAIN log
  BY <1>2
<1> HIDE DEF new
<1>7. \A c \in DOMAIN log' : \A i \in DOMAIN log'[c] :
        \/ c \in DOMAIN log /\ i \in DOMAIN log[c] /\ log'[c][i] = log[c][i]
           /\ log[c][i] \in 1..clock
        \/ c = new /\ i = 1 /\ log'[c][i] = clock + 1
  BY <1>3, <1>4, <1>5 DEF TimesDiffer
<1>8. ASSUME NEW c \in DOMAIN log', NEW i \in DOMAIN log'[c]
      PROVE  /\ log'[c][i] \in 1..clock'
             /\ \A j \in DOMAIN log'[c] : i < j => log'[c][i] < log'[c][j]
             /\ \A d \in DOMAIN log' : \A j \in DOMAIN log'[d] : c # d => log'[c][i] # log'[d][j]
  <2>1. log'[c][i] \in 1..clock'
    BY <1>1, <1>7
  <2>2. ASSUME NEW j \in DOMAIN log'[c], i < j PROVE log'[c][i] < log'[c][j]
    BY <1>6, <1>7, <2>2 DEF TimesDiffer
  <2>3. ASSUME NEW d \in DOMAIN log', NEW j \in DOMAIN log'[d], c # d
        PROVE  log'[c][i] # log'[d][j]
    <3>1. CASE c \in DOMAIN log /\ d \in DOMAIN log
      BY <1>4, <2>3, <3>1 DEF TimesDiffer
    <3>2. CASE c = new \/ d = new
      BY <1>1, <1>6, <1>7, <2>3, <3>2
    <3>3. QED
      BY <1>5, <3>1, <3>2
  <2>4. QED
    BY <2>1, <2>2, <2>3
<1>9. ASSUME NEW u \in Threads, rec'[u].pc # "none"
      PROVE  /\ rec'[u].timestamp \in 1..clock'
             /\ \A c \in DOMAIN log' : \A i \in DOMAIN log'[c] :
                  /\ log'[c][i] # rec'[u].timestamp
                  /\ c = tb'[u] => log'[c][i] < rec'[u].timestamp
             /\ \A v \in Threads \ {u} :
                  rec'[v].pc # "none" => rec'[v].timestamp # rec'[u].timestamp
  <2>1. rec' = rec /\ u # t /\ tb'[u] = tb[u] /\ tb[u] \in DOMAIN log
    BY <1>1, <1>9, Logs
  <2>2. rec[u].timestamp \in 1..clock /\ rec[u].timestamp \in 1..clock'
    BY <1>1, <1>9, <2>1 DEF TimesDiffer
  <2>3. \A c \in DOMAIN log : \A i \in DOMAIN log[c] :
                  /\ log[c][i] # rec[u].timestamp
                  /\ c = tb[u] => log[c][i] < rec[u].timestamp
    BY <1>9, <2>1 DEF TimesDiffer
  <2>4. \A c \in DOMAIN log' : \A i \in DOMAIN log'[c] :
                  /\ log'[c][i] # rec[u].timestamp
                  /\ c = tb[u] => log'[c][i] < rec[u].timestamp
    BY <1>1, <1>6, <1>7, <2>1, <2>2, <2>3
  <2>5. \A v \in Threads \ {u} : rec[v].pc # "none" => rec[v].timestamp # rec[u].timestamp
    BY <1>9, <2>1 DEF TimesDiffer
  <2>6. QED
    BY <2>1, <2>2, <2>4, <2>5
<1>10. QED
  BY <1>8, <1>9 DEF TimesDiffer

LEMMA TimesStep ==
  ASSUME TraceInv, TimesDiffer, [Next]_vars
  PROVE  TimesDiffer'
<1>0. rec \in [Threads -> Calls] /\ tb \in [Threads -> Nat]
  BY DEF TraceInv, TraceType
<1>1. ASSUME NEW t \in Threads, ShareBuffer(t) \/ Cleanup(t) \/ Freeze(t) \/ PrintInternal(t)
               \/ Copy(t) \/ Start(t) \/ Skip(t) \/ Emit(t) \/ Return(t)
      PROVE  TimesDiffer'
  BY <1>1, TimesKept DEF ShareBuffer, Cleanup, Freeze, PrintInternal, Copy, Start, Skip,
                         Emit, Return
<1>2. ASSUME NEW t \in Threads, Destroy(t)
      PROVE  TimesDiffer'
  <2>1. /\ log' = log /\ clock' = clock /\ rec' = rec /\ rec[t].pc = "none"
        /\ \A u \in Threads \ {t} : tb'[u] = tb[u]
    BY <1>0, <1>2 DEF Destroy, Idle
  <2>2. QED
    BY <2>1, TimesKept
<1>3. ASSUME NEW t \in Threads, TestFrozen(t) \/ TakeSlot(t) \/ StoreTimestamp(t)
      PROVE  TimesDiffer'
  <2>1. log' = log /\ clock' = clock /\ tb' = tb /\ rec[t].pc # "none"
    BY <1>3 DEF TestFrozen, TakeSlot, StoreTimestamp
  <2>2. /\ \A u \in Threads \ {t} : rec'[u] = rec[u]
        /\ rec'[t].pc = "none" \/ rec'[t].timestamp = rec[t].timestamp
    <3>1. rec[t] \in Calls
      BY <1>0
    <3>2. CASE TestFrozen(t)
      BY <1>0, <3>1, <3>2 DEF TestFrozen, NoRecord, Calls
    <3>3. CASE TakeSlot(t)
      BY <1>0, <3>1, <3>3 DEF TakeSlot, Calls
    <3>4. CASE StoreTimestamp(t)
      BY <1>0, <3>1, <3>4 DEF StoreTimestamp, Calls
    <3>5. QED
      BY <1>3, <3>2, <3>3, <3>4
  <2>3. QED
    BY <2>1, <2>2, TimesKept
<1>4. CASE UNCHANGED vars
  BY <1>4, TimesKept DEF vars
<1>5. CASE Next
  BY <1>1, <1>2, <1>3, <1>5, RdtscTimes, StoreFormatTimes, NewBufferTimes DEF Next, Proceed
<1>6. QED
  BY <1>4, <1>5

-----------------------------------------------------------------------------
\* Rings: what they hold of the logs.
Rings ==
  /\ \A b \in DOMAIN log : RingLogged(b)
  /\ \A t \in Threads : SlotTaken(t)

\* A buffer has a slot taken exactly while its thread stores an event.
LEMMA OwnTaken ==
  ASSUME TraceInv, NEW t \in Threads, tb[t] # NULL
  PROVE  Taken(tb[t]) = IF Filling(t) THEN 1 ELSE 0
<1>1. \A u \in Threads : tb[u] = tb[t] => u = t
  BY OwnBuffer
<1>2. QED
  BY <1>1 DEF Taken

LEMMA RingKept ==
  ASSUME NEW b, RingLogged(b), log'[b] = log[b],
         buffer'[b].events = buffer[b].events,
         buffer'[b].next_index = buffer[b].next_index,
         \A t \in Threads : tb'[t] = b /\ Filling(t)' <=> tb[t] = b /\ Filling(t)
  PROVE  RingLogged(b)'
<1>1. Taken(b)' = Taken(b)
  BY DEF Taken
<1>2. QED
  BY <1>1 DEF RingLogged

LEMMA RingsKept ==
  ASSUME TraceInv, Rings, log' = log,
         \A b \in DOMAIN log : /\ buffer'[b].events = buffer[b].events
                               /\ buffer'[b].next_index = buffer[b].next_index,
         \A t \in Threads : /\ Filling(t)' <=> Filling(t)
                            /\ Filling(t) => tb'[t] = tb[t] /\ rec'[t] = rec[t]
  PROVE  Rings'
<1>1. \A b \in DOMAIN log' : RingLogged(b)'
  BY RingKept DEF Rings
<1>2. ASSUME NEW t \in Threads PROVE SlotTaken(t)'
  <2>1. Filling(t) => tb[t] \in DOMAIN log
    BY Logs DEF Filling
  <2>2. QED
    BY <2>1 DEF SlotTaken, Rings
<1>3. QED
  BY <1>1, <1>2 DEF Rings

LEMMA NewBufferRings ==
  ASSUME TraceInv, Rings, NEW t \in Threads, NewBuffer(t)
  PROVE  Rings'
<1>0. Len(log) + 1 \in Nat
  BY Logs
<1> PICK new \in Nat : new = Len(log) + 1
  BY <1>0
<1> DEFINE times == IF frozen THEN <<>> ELSE <<clock + 1>>
           events == [s \in Slots |-> IF s = 0 /\ ~frozen THEN Recorded(clock + 1) ELSE NoEvent]
           next == IF frozen THEN 0 ELSE 1 % BUFFER_SIZE
           ring == [ref_count |-> 1, next_index |-> next, events |-> events]
<1>1. /\ rec' = rec /\ log' = Append(log, times) /\ buffer' = Append(buffer, ring)
      /\ tb' = [tb EXCEPT ![t] = new] /\ tb \in [Threads -> Nat]
      /\ rec[t].pc = "none" /\ clock \in Nat
  BY DEF NewBuffer, Idle, TraceInv, TraceType
<1>2. ring.next_index = next /\ ring.events = events
  OBVIOUS
<1> HIDE DEF ring
<1>3. /\ DOMAIN log = 1..Len(log) /\ Len(log) \in Nat /\ log \in Seq(Seq(Nat))
      /\ Len(buffer) = Len(log) /\ buffer \in Seq(Ring)
  BY Logs
<1>4. times \in Seq(Nat) /\ Len(times) = IF frozen THEN 0 ELSE 1
  BY <1>1
<1>5. ~frozen => times[1] = clock + 1
  OBVIOUS
<1> HIDE DEF times
<1>6. /\ DOMAIN log' = 1..new /\ log'[new] = times /\ buffer'[new] = ring
      /\ \A c \in DOMAIN log : log'[c] = log[c] /\ buffer'[c] = buffer[c]
  BY <1>1, <1>3, <1>4
<1>7. \A u \in Threads : Filling(u)' <=> Filling(u)
  BY <1>1 DEF Filling
<1>8. \A u \in Threads : Filling(u) => u # t /\ tb'[u] = tb[u] /\ tb[u] \in DOMAIN log
  BY <1>1, Logs DEF Filling
<1>9. new \notin DOMAIN log
  BY <1>3
<1>10. ASSUME NEW c \in DOMAIN log PROVE RingLogged(c)'
  BY <1>6, <1>7, <1>8, <1>9, <1>1, RingKept, <1>10 DEF Rings, Filling
<1>11. RingLogged(new)'
  <2>1. Taken(new)' = 0
    BY <1>7, <1>8, <1>9 DEF Taken
  <2>2. BUFFER_SIZE \in Nat \ {0} /\ next \in Slots
    BY TraceAssumption, SlotsFollow DEF Slots
  <2>3. \A d \in 1..BUFFER_SIZE : Back(next, d) \in Slots
    BY <2>2, StepsBack
  <2>4. CASE frozen
    <3>1. \A s \in Slots : events[s] = NoEvent
      BY <2>4
    <3>2. Len(times) = 0 /\ next = 0
      BY <1>4, <2>4
    <3> HIDE DEF events
    <3>3. QED
      BY <1>2, <1>6, <2>1, <2>2, <2>3, <3>1, <3>2 DEF RingLogged
  <2>5. CASE ~frozen
    <3>1. /\ events[0] = Recorded(clock + 1)
          /\ \A s \in Slots : s # 0 => events[s] = NoEvent
      BY <2>5, SlotsFollow
    <3>2. Len(times) = 1 /\ times[1] = clock + 1 /\ next = 1 % BUFFER_SIZE
      BY <1>4, <1>5, <2>5
    <3> HIDE DEF events
    <3>3. next = IF BUFFER_SIZE = 1 THEN 0 ELSE 1
      BY <2>2, <3>2
    <3>4. Back(next, 1) = 0 /\ \A d \in 2..BUFFER_SIZE : Back(next, d) # 0
      BY <2>2, <3>3 DEF Back
    <3>5. \A d \in 1..BUFFER_SIZE :
            events[Back(next, d)] = IF d <= 1 THEN Recorded(times[1 + 1 - d]) ELSE NoEvent
      <4>1. events[Back(next, 1)] = Recorded(times[1 + 1 - 1])
        BY <3>1, <3>2, <3>4
      <4>2. \A d \in 2..BUFFER_SIZE : events[Back(next, d)] = NoEvent
        BY <2>3, <3>1, <3>4, <2>2
      <4>3. QED
        BY <4>1, <4>2, <2>2
    <3> HIDE DEF next
    <3>6. QED
      BY <1>2, <1>6, <2>1, <2>2, <3>2, <3>3, <3>5 DEF RingLogged
  <2>6. QED
    BY <2>4, <2>5
<1>12. ASSUME NEW u \in Threads PROVE SlotTaken(u)'
  BY <1>1, <1>6, <1>7, <1>8 DEF SlotTaken, Rings
<1>13. \A c \in DOMAIN log' : c \in DOMAIN log \/ c = new
  BY <1>3, <1>6
<1>14. QED
  BY <1>10, <1>11, <1>12, <1>13 DEF Rings

\* The other buffers and threads, when thread t records in buffer b.
LEMMA OthersRings ==
  ASSUME TraceInv, Rings, NEW t \in Threads, NEW b \in DOMAIN log, tb[t] = b,
         tb' = tb, DOMAIN log' = DOMAIN log,
         \A c \in DOMAIN log : c # b => log'[c] = log[c] /\ buffer'[c] = buffer[c],
         \A u \in Threads : u # t => rec'[u] = rec[u]
  PROVE  /\ \A c \in DOMAIN log : c # b => RingLogged(c)'
         /\ \A u \in Threads : u # t => SlotTaken(u)'
<1>1. \A u \in Threads : u # t => (Filling(u)' <=> Filling(u))
  BY DEF Filling
<1>2. ASSUME NEW c \in DOMAIN log, c # b PROVE RingLogged(c)'
  <2>1. \A u \in Threads : tb'[u] = c /\ Filling(u)' <=> tb[u] = c /\ Filling(u)
    BY <1>1, <1>2
  <2>2. RingLogged(c) /\ log'[c] = log[c] /\ buffer'[c] = buffer[c]
    BY <1>2 DEF Rings
  <2>3. QED
    BY <2>1, <2>2, RingKept
<1>3. ASSUME NEW u \in Threads, u # t PROVE SlotTaken(u)'
  <2>1. Filling(u) => tb[u] \in DOMAIN log /\ tb[u] # b
    BY <1>3, Logs, OwnBuffer DEF Filling
  <2>2. QED
    BY <1>1, <1>3, <2>1 DEF SlotTaken, Rings
<1>4. QED
  BY <1>2, <1>3

LEMMA TakeSlotRings ==
  ASSUME TraceInv, Rings, NEW t \in Threads, TakeSlot(t)
  PROVE  Rings'
<1>0. /\ rec[t].pc = "index" /\ tb[t] # NULL /\ tb[t] \in DOMAIN log
      /\ tb[t] \in DOMAIN buffer
      /\ buffer[tb[t]].next_index \in Slots /\ Len(log[tb[t]]) \in Nat
  BY Logs DEF TakeSlot
<1> PICK b \in DOMAIN log : b = tb[t]
  BY <1>0
<1> PICK next \in Slots : next = buffer[b].next_index
  BY <1>0
<1>1. /\ tb' = tb /\ log' = log
      /\ rec' = [rec EXCEPT ![t].pc = "timestamp", ![t].slot = next]
      /\ buffer' = [buffer EXCEPT ![b].next_index = Following(@)]
      /\ rec \in [Threads -> Calls] /\ buffer \in Seq(Ring) /\ buffer[b] \in Ring
      /\ b \in DOMAIN buffer
  BY <1>0, Logs DEF TakeSlot, TraceInv, TraceType
<1>2. /\ buffer'[b].next_index = Following(next) /\ buffer'[b].events = buffer[b].events
      /\ \A c \in DOMAIN log : c # b => log'[c] = log[c] /\ buffer'[c] = buffer[c]
  BY <1>1, Logs DEF Ring
<1>3. /\ rec'[t].pc = "timestamp" /\ rec'[t].slot = next
      /\ \A u \in Threads : u # t => rec'[u] = rec[u]
  BY <1>1 DEF Calls
<1>4. Taken(b) = 0
  BY <1>0, OwnTaken DEF Filling
<1>5. Taken(b)' = 1
  BY <1>1, <1>3 DEF Taken, Filling
<1>6. RingLogged(b)'
  <2> DEFINE n == Len(log[b])
  <2>1. n \in Nat /\ BUFFER_SIZE \in Nat \ {0}
    BY <1>0, TraceAssumption
  <2>2. /\ n < BUFFER_SIZE => next = n
        /\ \A d \in 1..BUFFER_SIZE :
             buffer[b].events[Back(next, d)] =
               IF d <= n THEN Recorded(log[b][n + 1 - d]) ELSE NoEvent
    BY <1>4, <2>1 DEF Rings, RingLogged
  <2>3. n + 1 < BUFFER_SIZE => Following(next) = n + 1
    BY <2>1, <2>2, StepsBack
  <2>4. ASSUME NEW d \in 2..BUFFER_SIZE
        PROVE  buffer[b].events[Back(Following(next), d)] =
                 IF d <= n + 1 THEN Recorded(log[b][n + 1 + 1 - d]) ELSE NoEvent
    <3>1. d - 1 \in 1..BUFFER_SIZE /\ d - 1 \in 0..(BUFFER_SIZE - 1) /\ d - 1 + 1 = d
      BY <2>1
    <3>2. Back(Following(next), d) = Back(next, d - 1)
      BY <3>1, StepsBack
    <3>3. (d - 1 <= n <=> d <= n + 1) /\ n + 1 - (d - 1) = n + 1 + 1 - d
      BY <2>1
    <3>4. QED
      BY <2>2, <3>1, <3>2, <3>3
  <2>5. Len(log'[b]) + Taken(b)' = n + 1 /\ 1 + Taken(b)' = 2
    BY <1>1, <1>5, <2>1
  <2>6. log'[b] = log[b]
    BY <1>1
  <2>7. PICK m \in Nat : m = n
    BY <2>1
  <2>8. QED
    BY <1>2, <2>3, <2>4, <2>5, <2>6, <2>7 DEF RingLogged
<1>7. SlotTaken(t)'
  <2>1. Back(Following(next), 1) = next
    <3>1. 0 \in 0..(BUFFER_SIZE - 1) /\ 0 + 1 = 1
      BY TraceAssumption
    <3>2. QED
      BY <3>1, StepsBack
  <2>2. QED
    BY <1>1, <1>2, <1>3, <2>1 DEF SlotTaken
<1>8. /\ \A c \in DOMAIN log : c # b => RingLogged(c)'
      /\ \A u \in Threads : u # t => SlotTaken(u)'
  BY <1>1, <1>2, <1>3, OthersRings
<1>9. DOMAIN log' = DOMAIN log
  BY <1>1
<1>10. QED
  BY <1>6, <1>7, <1>8, <1>9 DEF Rings

\* A store into the slot taken: where it goes, and that nothing else changes.
LEMMA StoredIn ==
  ASSUME TraceInv, Rings, NEW t \in Threads, Filling(t)
  PROVE  /\ Taken(tb[t]) = 1 /\ rec[t].slot \in Slots
         /\ rec[t].slot = Back(buffer[tb[t]].next_index, 1)
         /\ \A d \in 2..BUFFER_SIZE :
              /\ Back(buffer[tb[t]].next_index, d) \in Slots
              /\ Back(buffer[tb[t]].next_index, d) # rec[t].slot
<1>1. tb[t] # NULL /\ tb[t] \in DOMAIN log /\ Taken(tb[t]) = 1
  BY Logs, OwnTaken DEF Filling
<1> PICK next : next = buffer[tb[t]].next_index
  OBVIOUS
<1>2. next \in Slots
  BY <1>1, Logs
<1>3. rec[t].slot = Back(next, 1) /\ rec[t].slot \in Slots
  BY TraceAssumption, <1>2, StepsBack DEF Rings, SlotTaken
<1>4. BUFFER_SIZE \in Nat \ {0} /\ 1 \in 1..BUFFER_SIZE
  BY TraceAssumption
<1>5. \A d \in 2..BUFFER_SIZE : d \in 1..BUFFER_SIZE /\ d \in 0..BUFFER_SIZE /\ d # 1
  BY <1>4
<1>6. \A d \in 2..BUFFER_SIZE : Back(next, d) \in Slots /\ Back(next, d) # Back(next, 1)
  BY <1>2, <1>4, <1>5, StepsBack
<1>7. QED
  BY <1>1, <1>3, <1>6

LEMMA StoreTimestampRings ==
  ASSUME TraceInv, Rings, NEW t \in Threads, StoreTimestamp(t)
  PROVE  Rings'
<1>0. Filling(t) /\ tb[t] \in DOMAIN log /\ rec[t].pc = "timestamp"
  BY Logs DEF StoreTimestamp, Filling
<1> PICK b \in DOMAIN log : b = tb[t]
  BY <1>0
<1> PICK slot : slot = rec[t].slot
  OBVIOUS
<1>1. PICK event : event = [buffer[b].events[slot] EXCEPT !.timestamp = rec[t].timestamp]
  OBVIOUS
<1>2. /\ tb' = tb /\ log' = log /\ rec' = [rec EXCEPT ![t].pc = "format"]
      /\ buffer' = [buffer EXCEPT ![b].events[slot] = event]
      /\ rec \in [Threads -> Calls]
  BY <1>1 DEF StoreTimestamp, TraceInv, TraceType
<1>3. buffer' = [buffer EXCEPT ![b].events[slot] = event]
  BY <1>2
<1>4. /\ buffer[b] \in Ring /\ DOMAIN buffer = DOMAIN log
       /\ buffer[b].events \in [Slots -> Event]
  BY Logs
<1>5. /\ buffer'[b].next_index = buffer[b].next_index
       /\ buffer'[b].events = [buffer[b].events EXCEPT ![slot] = event]
       /\ \A c \in DOMAIN log : c # b => buffer'[c] = buffer[c]
  BY <1>3, <1>4 DEF Ring
<1>6. Taken(b) = 1 /\ slot \in Slots /\ slot = Back(buffer[b].next_index, 1)
  BY <1>0, StoredIn
<1>7. buffer'[b].next_index = buffer[b].next_index /\ buffer'[b].events[slot] = event
  BY <1>6, <1>4, <1>5
<1>8. \A d \in 2..BUFFER_SIZE : buffer'[b].events[Back(buffer[b].next_index, d)] =
                                   buffer[b].events[Back(buffer[b].next_index, d)]
  <2>1. \A d \in 2..BUFFER_SIZE :
          Back(buffer[b].next_index, d) \in Slots /\ Back(buffer[b].next_index, d) # slot
    BY <1>0, StoredIn
  <2>2. \A other \in Slots : other # slot => buffer'[b].events[other] = buffer[b].events[other]
    BY <1>4, <1>5
  <2>3. QED
    BY <2>1, <2>2
<1>9. \A c \in DOMAIN log : c # b => buffer'[c] = buffer[c]
  BY <1>5
<1>10. /\ rec'[t].pc = "format" /\ rec'[t].slot = slot
      /\ rec'[t].timestamp = rec[t].timestamp
      /\ \A u \in Threads : u # t => rec'[u] = rec[u]
  BY <1>2 DEF Calls
<1>11. event.timestamp = rec[t].timestamp
  <2>1. buffer[b].events[slot] \in Event
    BY <1>6, Logs
  <2>2. QED
    BY <1>1, <2>1 DEF Event
<1>12. Taken(b)' = 1
  BY <1>2, <1>10 DEF Taken, Filling
<1>13. RingLogged(b)'
  <2>1. RingLogged(b) /\ log'[b] = log[b] /\ Taken(b)' = Taken(b)
    BY <1>2, <1>6, <1>12 DEF Rings
  <2>2. 1 + Taken(b) = 2
    BY <1>6
  <2>3. \A d \in (1 + Taken(b))..BUFFER_SIZE :
          buffer'[b].events[Back(buffer[b].next_index, d)] =
            buffer[b].events[Back(buffer[b].next_index, d)]
    BY <1>8, <2>2
  <2>4. buffer'[b].next_index = buffer[b].next_index
    BY <1>7
  <2>5. QED
    BY <2>1, <2>3, <2>4 DEF RingLogged
<1>14. SlotTaken(t)'
  BY <1>2, <1>6, <1>7, <1>10, <1>11 DEF SlotTaken
<1>15. /\ \A c \in DOMAIN log : c # b => RingLogged(c)'
      /\ \A u \in Threads : u # t => SlotTaken(u)'
  <2>1. tb' = tb /\ log' = log /\ tb[t] = b
    BY <1>2
  <2>2. QED
    BY <1>10, <1>9, <2>1, OthersRings
<1>16. DOMAIN log' = DOMAIN log
  BY <1>2
<1>17. QED
  BY <1>13, <1>14, <1>15, <1>16 DEF Rings

LEMMA StoreFormatRings ==
  ASSUME TraceInv, Rings, NEW t \in Threads, StoreFormat(t)
  PROVE  Rings'
<1>0. Filling(t) /\ tb[t] \in DOMAIN log /\ rec[t].pc = "format"
  BY Logs DEF StoreFormat, Filling
<1> PICK b \in DOMAIN log : b = tb[t]
  BY <1>0
<1> PICK slot : slot = rec[t].slot
  OBVIOUS
<1> PICK time : time = rec[t].timestamp
  OBVIOUS
<1>1. PICK event : event = [buffer[b].events[slot] EXCEPT !.format = time]
  OBVIOUS
<1>2. /\ tb' = tb /\ log' = [log EXCEPT ![b] = Append(@, time)]
      /\ rec' = [rec EXCEPT ![t] = NoRecord]
      /\ buffer' = [buffer EXCEPT ![b].events[slot] = event]
      /\ rec \in [Threads -> Calls] /\ time \in Nat
  BY <1>1 DEF StoreFormat, TraceInv, TraceType, Calls
<1>3. buffer' = [buffer EXCEPT ![b].events[slot] = event]
  BY <1>2
<1>4. /\ buffer[b] \in Ring /\ DOMAIN buffer = DOMAIN log
       /\ buffer[b].events \in [Slots -> Event]
  BY Logs
<1>5. /\ buffer'[b].next_index = buffer[b].next_index
       /\ buffer'[b].events = [buffer[b].events EXCEPT ![slot] = event]
       /\ \A c \in DOMAIN log : c # b => buffer'[c] = buffer[c]
  BY <1>3, <1>4 DEF Ring
<1>6. Taken(b) = 1 /\ slot \in Slots /\ slot = Back(buffer[b].next_index, 1)
  BY <1>0, StoredIn
<1>7. buffer'[b].next_index = buffer[b].next_index /\ buffer'[b].events[slot] = event
  BY <1>6, <1>4, <1>5
<1>8. \A d \in 2..BUFFER_SIZE : buffer'[b].events[Back(buffer[b].next_index, d)] =
                                   buffer[b].events[Back(buffer[b].next_index, d)]
  <2>1. \A d \in 2..BUFFER_SIZE :
          Back(buffer[b].next_index, d) \in Slots /\ Back(buffer[b].next_index, d) # slot
    BY <1>0, StoredIn
  <2>2. \A other \in Slots : other # slot => buffer'[b].events[other] = buffer[b].events[other]
    BY <1>4, <1>5
  <2>3. QED
    BY <2>1, <2>2
<1>9. \A c \in DOMAIN log : c # b => buffer'[c] = buffer[c]
  BY <1>5
<1>10. /\ rec'[t].pc = "none"
      /\ \A u \in Threads : u # t => rec'[u] = rec[u]
  BY <1>2 DEF NoRecord
<1>11. event = Recorded(time)
  <2>1. buffer[b].events[slot] \in Event
    BY <1>6, Logs
  <2>2. buffer[b].events[slot].timestamp = time
    BY <1>0 DEF Rings, SlotTaken
  <2>3. QED
    BY <1>1, <2>1, <2>2 DEF Event, Recorded
<1>12. Taken(b)' = 0
  <2>1. \A u \in Threads : u # t => tb[u] # b
    BY <1>0, OwnBuffer, Logs DEF Filling
  <2>2. QED
    BY <1>2, <1>10, <2>1 DEF Taken, Filling
<1> DEFINE n == Len(log[b])
<1>13. /\ n \in Nat /\ log[b] \in Seq(Nat) /\ DOMAIN log' = DOMAIN log
      /\ \A c \in DOMAIN log : c # b => log'[c] = log[c]
      /\ log'[b] = Append(log[b], time)
  BY <1>2, Logs
<1>14. /\ Len(log'[b]) = n + 1 /\ log'[b][n + 1] = time
      /\ \A i \in 1..n : log'[b][i] = log[b][i]
  BY <1>2, <1>13
<1>15. RingLogged(b)'
  <2> PICK next : next = buffer[b].next_index
    OBVIOUS
  <2> PICK m \in Nat : m = n
    BY <1>13
  <2>1. /\ m + 1 < BUFFER_SIZE => next = m + 1
        /\ \A d \in 2..BUFFER_SIZE :
             buffer[b].events[Back(next, d)] =
               IF d <= m + 1 THEN Recorded(log[b][m + 1 + 1 - d]) ELSE NoEvent
    <3>1. RingLogged(b)
      BY DEF Rings
    <3>2. n + Taken(b) = m + 1 /\ 1 + Taken(b) = 2
      BY <1>6, <1>13
    <3>3. QED
      BY <3>1, <3>2 DEF RingLogged
  <2>2. ASSUME NEW d \in 1..BUFFER_SIZE
        PROVE  buffer'[b].events[Back(next, d)] =
                 IF d <= m + 1 THEN Recorded(log'[b][m + 1 + 1 - d]) ELSE NoEvent
    <3>1. CASE d = 1
      <4>1. buffer'[b].events[Back(next, 1)] = Recorded(time)
        BY <1>6, <1>11, <1>7
      <4>2. 1 <= m + 1 /\ log'[b][m + 1 + 1 - 1] = time
        BY <1>14
      <4>3. QED
        BY <3>1, <4>1, <4>2
    <3>2. CASE d # 1
      <4>1. d \in 2..BUFFER_SIZE
        BY TraceAssumption, <3>2
      <4>2. d <= m + 1 => m + 1 + 1 - d \in 1..m
        BY <4>1
      <4>3. buffer'[b].events[Back(next, d)] = buffer[b].events[Back(next, d)]
        BY <1>8, <4>1
      <4>4. QED
        BY <1>14, <2>1, <4>1, <4>2, <4>3
    <3>3. QED
      BY <3>1, <3>2
  <2>3. Len(log'[b]) + Taken(b)' = m + 1 /\ 1 + Taken(b)' = 1
    BY <1>12, <1>14
  <2>4. buffer'[b].next_index = next
    BY <1>7
  <2>5. QED
    BY <2>1, <2>2, <2>3, <2>4 DEF RingLogged
<1>16. SlotTaken(t)'
  BY <1>10 DEF SlotTaken, Filling
<1>17. /\ \A c \in DOMAIN log : c # b => RingLogged(c)'
       /\ \A u \in Threads : u # t => SlotTaken(u)'
  <2>1. tb' = tb /\ tb[t] = b
    BY <1>2
  <2>2. \A c \in DOMAIN log : c # b => log'[c] = log[c] /\ buffer'[c] = buffer[c]
    BY <1>9, <1>13
  <2>3. QED
    BY <1>10, <1>13, <2>1, <2>2, OthersRings
<1>18. QED
  BY <1>13, <1>15, <1>16, <1>17 DEF Rings

\* An object that comes or goes changes a count of references only.
LEMMA CountOnly ==
  ASSUME TraceInv, NEW t \in Threads, ShareBuffer(t) \/ Destroy(t)
  PROVE  /\ Len(buffer') = Len(buffer)
         /\ \A b \in DOMAIN log : /\ buffer'[b].events = buffer[b].events
                                  /\ buffer'[b].next_index = buffer[b].next_index
<1>1. \E count : buffer' = [buffer EXCEPT ![tb[t]].ref_count = count]
  BY DEF ShareBuffer, Destroy
<1>2. PICK count : buffer' = [buffer EXCEPT ![tb[t]].ref_count = count]
  BY <1>1
<1>3. /\ buffer \in Seq(Ring) /\ DOMAIN buffer = DOMAIN log
      /\ \A b \in DOMAIN log : buffer[b] \in Ring
  BY Logs
<1>4. \A b \in DOMAIN log :
        buffer'[b] = IF b = tb[t] THEN [buffer[b] EXCEPT !.ref_count = count] ELSE buffer[b]
  BY <1>2, <1>3
<1>5. Len(buffer') = Len(buffer)
  BY <1>2, <1>3
<1>6. QED
  BY <1>3, <1>4, <1>5 DEF Ring

LEMMA RingsStep ==
  ASSUME TraceInv, Rings, [Next]_vars
  PROVE  Rings'
<1>0. rec \in [Threads -> Calls] /\ tb \in [Threads -> Nat]
  BY DEF TraceInv, TraceType
<1>1. ASSUME NEW t \in Threads, Cleanup(t) \/ Freeze(t) \/ PrintInternal(t)
               \/ Copy(t) \/ Start(t) \/ Skip(t) \/ Emit(t) \/ Return(t)
      PROVE  Rings'
  <2>1. UNCHANGED <<buffer, log, tb, rec>>
    BY <1>1 DEF Cleanup, Freeze, PrintInternal, Copy, Start, Skip, Emit, Return
  <2>2. \A u \in Threads : Filling(u)' <=> Filling(u)
    BY <2>1 DEF Filling
  <2>3. QED
    BY <2>1, <2>2, RingsKept
<1>2. ASSUME NEW t \in Threads, ShareBuffer(t) \/ Destroy(t)
      PROVE  Rings'
  <2>1. /\ log' = log /\ rec' = rec /\ rec[t].pc = "none"
        /\ \A u \in Threads : u # t => tb'[u] = tb[u]
        /\ tb[t] # NULL
    BY <1>0, <1>2 DEF ShareBuffer, Destroy, Idle, TraceInv, Referred, TraceType
  <2>3. \A b \in DOMAIN log : /\ buffer'[b].events = buffer[b].events
                              /\ buffer'[b].next_index = buffer[b].next_index
    BY <1>2, CountOnly
  <2>4. \A u \in Threads : (Filling(u)' <=> Filling(u)) /\ (Filling(u) => u # t)
    BY <2>1 DEF Filling
  <2>5. QED
    BY <2>1, <2>3, <2>4, RingsKept
<1>3. ASSUME NEW t \in Threads, Rdtsc(t) \/ TestFrozen(t)
      PROVE  Rings'
  <2>1. /\ log' = log /\ buffer' = buffer /\ tb' = tb
        /\ rec[t].pc \in {"none", "test"}
    BY <1>3 DEF Rdtsc, TestFrozen, Idle
  <2>2. /\ \A u \in Threads : u # t => rec'[u] = rec[u]
        /\ rec'[t].pc \in {"none", "test", "index"}
    <3>1. CASE Rdtsc(t)
      BY <1>0, <3>1 DEF Rdtsc
    <3>2. CASE TestFrozen(t)
      BY <1>0, <3>2 DEF TestFrozen, NoRecord, Calls
    <3>3. QED
      BY <1>3, <3>1, <3>2
  <2>3. \A u \in Threads : (Filling(u)' <=> Filling(u)) /\ (Filling(u) => u # t)
    BY <2>1, <2>2 DEF Filling
  <2>4. QED
    BY <2>1, <2>2, <2>3, RingsKept
<1>4. CASE UNCHANGED vars
  <2>1. UNCHANGED <<buffer, log, tb, rec>>
    BY <1>4 DEF vars
  <2>2. \A u \in Threads : Filling(u)' <=> Filling(u)
    BY <2>1 DEF Filling
  <2>3. QED
    BY <2>1, <2>2, RingsKept
<1>5. CASE Next
  <2>1. \A t \in Threads :
          NewBuffer(t) \/ TakeSlot(t) \/ StoreTimestamp(t) \/ StoreFormat(t) => Rings'
    BY NewBufferRings, TakeSlotRings, StoreTimestampRings, StoreFormatRings
  <2>2. QED
    BY <1>1, <1>2, <1>3, <1>5, <2>1 DEF Next, Proceed
<1>6. QED
  BY <1>4, <1>5

-----------------------------------------------------------------------------
\* Sets of numbers and their elements in order.
LEMMA Largest ==
  ASSUME NEW S, S \subseteq Nat, S # {}, NEW bound \in Nat, \A x \in S : x <= bound
  PROVE  Max(S) \in S /\ \A x \in S : x <= Max(S)
<1> DEFINE T == {bound - x : x \in S}
<1>1. T \subseteq Nat /\ T # {}
  <2>1. \A x \in S : bound - x \in Nat
    OBVIOUS
  <2>2. PICK x \in S : TRUE
    OBVIOUS
  <2>3. QED
    BY <2>1, <2>2
<1>2. \E m \in T : \A y \in T : <<y, m>> \notin OpToRel(<, Nat)
  BY <1>1, NatLessThanWellFounded, WFMin, Zenon
<1>3. PICK m \in T : \A y \in T : <<y, m>> \notin OpToRel(<, Nat)
  BY <1>2, Zenon
<1>4. \A y \in T : ~(y < m)
  BY <1>1, <1>3 DEF OpToRel
<1>5. PICK top \in S : m = bound - top
  OBVIOUS
<1>6. ASSUME NEW x \in S PROVE top >= x /\ x <= top
  <2>1. ~(bound - x < bound - top)
    BY <1>4, <1>5
  <2>2. x \in Nat /\ top \in Nat
    OBVIOUS
  <2> HIDE DEF T
  <2>3. \A y, z \in Nat : ~(bound - y < bound - z) => z >= y /\ y <= z
    OBVIOUS
  <2>4. QED
    BY <2>1, <2>2, <2>3
<1> HIDE DEF T
<1>7. Max(S) \in S /\ \A x \in S : Max(S) >= x
  BY <1>6, Zenon DEF Max
<1>8. QED
  BY <1>7

LEMMA Lowest ==
  ASSUME NEW S, S \subseteq Nat, S # {}
  PROVE  Min(S) \in S /\ \A x \in S : Min(S) <= x
<1>1. \E m \in S : \A y \in S : <<y, m>> \notin OpToRel(<, Nat)
  BY NatLessThanWellFounded, WFMin, Zenon
<1>2. PICK m \in S : \A y \in S : <<y, m>> \notin OpToRel(<, Nat)
  BY <1>1, Zenon
<1>3. \A y \in S : ~(y < m)
  BY <1>2 DEF OpToRel
<1>4. \A y \in S : m <= y
  BY <1>3
<1>5. QED
  BY <1>4, Zenon DEF Min

\* How many elements are not above x: no two elements share the rank.
LEMMA Ranks ==
  ASSUME NEW S, S \subseteq Nat, IsFiniteSet(S)
  PROVE  /\ \A x \in S : Cardinality({y \in S : y <= x}) \in 1..Cardinality(S)
         /\ \A x, z \in S : x < z =>
              Cardinality({y \in S : y <= x}) < Cardinality({y \in S : y <= z})
<1> DEFINE Upto(x) == {y \in S : y <= x}
<1>1. ASSUME NEW x \in S
      PROVE  /\ IsFiniteSet(Upto(x)) /\ Cardinality(Upto(x)) \in 1..Cardinality(S)
  <2>1. Upto(x) \in SUBSET S /\ x \in Upto(x)
    OBVIOUS
  <2> HIDE DEF Upto
  <2>2. /\ IsFiniteSet(Upto(x)) /\ Cardinality(Upto(x)) <= Cardinality(S)
    BY <2>1, FS_Subset
  <2>3. Cardinality(Upto(x)) # 0 /\ Cardinality(Upto(x)) \in Nat /\ Cardinality(S) \in Nat
    BY <2>1, <2>2, FS_EmptySet, FS_CardinalityType
  <2>4. QED
    BY <2>2, <2>3
<1>2. ASSUME NEW x \in S, NEW z \in S, x < z
      PROVE  Cardinality(Upto(x)) < Cardinality(Upto(z))
  <2>1. Upto(x) \in SUBSET Upto(z) /\ z \in Upto(z) /\ z \notin Upto(x)
    <3>1. x \in Nat /\ z \in Nat /\ \A y \in S : y \in Nat
      OBVIOUS
    <3>2. \A y \in S : y <= x => y <= z
      BY <1>2, <3>1
    <3>3. ~(z <= x) /\ z <= z
      BY <1>2, <3>1
    <3>4. QED
      BY <3>2, <3>3
  <2>2. IsFiniteSet(Upto(z)) /\ IsFiniteSet(Upto(x))
    BY <1>1
  <2> HIDE DEF Upto
  <2>3. /\ Cardinality(Upto(x)) <= Cardinality(Upto(z))
        /\ Cardinality(Upto(x)) # Cardinality(Upto(z))
    BY <2>1, <2>2, FS_Subset
  <2>4. Cardinality(Upto(x)) \in Nat /\ Cardinality(Upto(z)) \in Nat
    BY <2>2, FS_CardinalityType
  <2>5. QED
    BY <2>3, <2>4
<1>3. QED
  BY <1>1, <1>2

\* Sorted lists each element once.
LEMMA SortedLists ==
  ASSUME NEW S, S \subseteq Nat, IsFiniteSet(S)
  PROVE  /\ Sorted(S) \in Seq(S) /\ DOMAIN Sorted(S) = 1..Cardinality(S)
         /\ \A i, j \in DOMAIN Sorted(S) : Sorted(S)[i] = Sorted(S)[j] => i = j
         /\ \A n \in DOMAIN Sorted(S) :
              Cardinality({y \in S : y <= Sorted(S)[n]}) = n
<1> DEFINE n == Cardinality(S)
           rank == [x \in S |-> Cardinality({y \in S : y <= x})]
<1>1. n \in Nat /\ IsFiniteSet(1..n) /\ Cardinality(1..n) = n
  BY FS_CardinalityType, FS_Interval
<1>2. \A x \in S : rank[x] \in 1..n
  BY Ranks
<1>3. \A x, z \in S : x < z => rank[x] < rank[z]
  BY Ranks
<1>4. rank \in [S -> 1..n]
  BY <1>2
<1>5. \A x, z \in S : rank[x] = rank[z] => x = z
  <2> HIDE DEF rank, n
  <2>1. \A x, z \in S : x < z \/ z < x \/ x = z
    OBVIOUS
  <2>2. \A x \in S : rank[x] \in Int
    BY <1>1, <1>2
  <2>3. QED
    BY <1>3, <2>1, <2>2
<1> HIDE DEF rank
<1>6. rank \in Injection(S, 1..n)
  BY <1>4, <1>5 DEF Injection, IsInjective
<1> HIDE DEF n
<1>7. Cardinality(S) = Cardinality(1..n)
  BY <1>1 DEF n
<1>8. rank \in Surjection(S, 1..n)
  BY <1>1, <1>6, <1>7, FS_Injection
<1>9. \A k \in 1..n : \E x \in S : rank[x] = k
  BY <1>8 DEF Surjection
<1>10. Sorted(S) = [k \in 1..n |-> CHOOSE x \in S : Cardinality({y \in S : y <= x}) = k]
  BY DEF Sorted, n
<1>11. ASSUME NEW k \in 1..n
       PROVE  Sorted(S)[k] \in S /\ Cardinality({y \in S : y <= Sorted(S)[k]}) = k
  <2>1. \E x \in S : Cardinality({y \in S : y <= x}) = k
    BY <1>9 DEF rank
  <2>2. Sorted(S)[k] = CHOOSE x \in S : Cardinality({y \in S : y <= x}) = k
    BY <1>10
  <2>3. QED
    BY <2>1, <2>2, Zenon
<1>12. \A k \in 1..n : Sorted(S)[k] \in S /\ rank[Sorted(S)[k]] = k
  BY <1>11 DEF rank
<1>13. DOMAIN Sorted(S) = 1..n /\ Sorted(S) \in [1..n -> S]
  BY <1>10, <1>12
<1>14. QED
  BY <1>1, <1>12, <1>13, <1>11 DEF n

-----------------------------------------------------------------------------
\* The fields of a call of print_internal() that a step changes.
CallsShaped == pr = [t \in Threads |-> pr[t]] /\ \A t \in Threads : CallShape(pr[t])

LEMMA CopyFields ==
  ASSUME CallsShaped, NEW t \in Threads, Copy(t)
  PROVE  /\ \A u \in Threads : u # t => pr'[u] = pr[u]
         /\ pr'[t].pc = "start" /\ pr'[t].printed = pr[t].printed
         /\ pr'[t].clean = pr[t].clean /\ pr'[t].buffers = Sorted(thread_buffers)
         /\ pr'[t].current = [i \in DOMAIN Sorted(thread_buffers) |->
                                Oldest(Sorted(thread_buffers)[i])]
         /\ CallsShaped'
<1> PICK list : list = Sorted(thread_buffers)
  OBVIOUS
<1> PICK current : current = [i \in DOMAIN list |-> Oldest(list[i])]
  OBVIOUS
<1>1. pr' = [pr EXCEPT ![t].pc = "start", ![t].buffers = list, ![t].current = current]
  BY DEF Copy
<1>2. pr[t] = [pc |-> pr[t].pc, buffers |-> pr[t].buffers, current |-> pr[t].current,
             start_time |-> pr[t].start_time, printed |-> pr[t].printed,
             clean |-> pr[t].clean]
  BY DEF CallsShaped, CallShape
<1>3. /\ \A u \in Threads : u # t => pr'[u] = pr[u]
      /\ pr' = [u \in Threads |-> pr'[u]]
  BY <1>1 DEF CallsShaped
<1>4. pr'[t] = [pc |-> "start", buffers |-> list, current |-> current,
               start_time |-> pr[t].start_time, printed |-> pr[t].printed,
               clean |-> pr[t].clean]
  BY <1>1, <1>2 DEF CallsShaped
<1>5. \A u \in Threads : CallShape(pr[u])'
  BY <1>3, <1>4 DEF CallsShaped, CallShape
<1>6. QED
  BY <1>3, <1>4, <1>5 DEF CallsShaped

LEMMA StartFields ==
  ASSUME CallsShaped, NEW t \in Threads, Start(t)
  PROVE  /\ \A u \in Threads : u # t => pr'[u] = pr[u]
         /\ pr'[t].pc = "skip" /\ pr'[t].printed = pr[t].printed
         /\ pr'[t].clean = pr[t].clean /\ pr'[t].buffers = pr[t].buffers
         /\ pr'[t].current = pr[t].current
         /\ pr'[t].start_time =
              Max({EventAt(pr[t], i).timestamp :
                     i \in {j \in DOMAIN pr[t].buffers : EventAt(pr[t], j).format # NULL}}
                  \cup {0})
         /\ CallsShaped'
<1> PICK time : time = Max({EventAt(pr[t], i).timestamp :
                     i \in {j \in DOMAIN pr[t].buffers : EventAt(pr[t], j).format # NULL}}
                  \cup {0})
  OBVIOUS
<1>1. pr' = [pr EXCEPT ![t].pc = "skip", ![t].start_time = time]
  BY DEF Start
<1>2. pr[t] = [pc |-> pr[t].pc, buffers |-> pr[t].buffers, current |-> pr[t].current,
             start_time |-> pr[t].start_time, printed |-> pr[t].printed,
             clean |-> pr[t].clean]
  BY DEF CallsShaped, CallShape
<1>3. /\ \A u \in Threads : u # t => pr'[u] = pr[u]
      /\ pr' = [u \in Threads |-> pr'[u]]
  BY <1>1 DEF CallsShaped
<1>4. pr'[t] = [pc |-> "skip", buffers |-> pr[t].buffers, current |-> pr[t].current,
               start_time |-> time, printed |-> pr[t].printed, clean |-> pr[t].clean]
  BY <1>1, <1>2 DEF CallsShaped
<1>5. \A u \in Threads : CallShape(pr[u])'
  BY <1>3, <1>4 DEF CallsShaped, CallShape
<1>6. QED
  BY <1>3, <1>4, <1>5 DEF CallsShaped

LEMMA SkipFields ==
  ASSUME CallsShaped, NEW t \in Threads, Skip(t)
  PROVE  /\ \A u \in Threads : u # t => pr'[u] = pr[u]
         /\ pr'[t].pc = "emit" /\ pr'[t].printed = pr[t].printed
         /\ pr'[t].clean = pr[t].clean /\ pr'[t].buffers = pr[t].buffers
         /\ pr'[t].start_time = pr[t].start_time
         /\ pr'[t].current = [i \in DOMAIN pr[t].current |->
                                From(pr[t].buffers[i], pr[t].current[i], pr[t].start_time)]
         /\ CallsShaped'
<1> PICK current : current = [i \in DOMAIN pr[t].current |->
                                From(pr[t].buffers[i], pr[t].current[i], pr[t].start_time)]
  OBVIOUS
<1>1. pr[t] = [pc |-> pr[t].pc, buffers |-> pr[t].buffers, current |-> pr[t].current,
             start_time |-> pr[t].start_time, printed |-> pr[t].printed,
             clean |-> pr[t].clean]
  BY DEF CallsShaped, CallShape
<1>2. pr' = [pr EXCEPT ![t] = [pr[t] EXCEPT !.pc = "emit", !.current = current]]
  BY <1>1 DEF Skip, CallsShaped
<1>3. /\ \A u \in Threads : u # t => pr'[u] = pr[u]
      /\ pr' = [u \in Threads |-> pr'[u]]
  BY <1>2 DEF CallsShaped
<1>4. pr'[t] = [pc |-> "emit", buffers |-> pr[t].buffers, current |-> current,
               start_time |-> pr[t].start_time, printed |-> pr[t].printed,
               clean |-> pr[t].clean]
  BY <1>2, <1>1 DEF CallsShaped
<1>5. \A u \in Threads : CallShape(pr[u])'
  BY <1>3, <1>4 DEF CallsShaped, CallShape
<1>6. QED
  BY <1>3, <1>4, <1>5 DEF CallsShaped

LEMMA EmitFields ==
  ASSUME CallsShaped, NEW t \in Threads, Emit(t)
  PROVE  /\ \A u \in Threads : u # t => pr'[u] = pr[u]
         /\ pr[t].pc = "emit" /\ pr'[t].pc = "emit"
         /\ pr'[t].clean = pr[t].clean /\ pr'[t].buffers = pr[t].buffers
         /\ \E i \in Left(pr[t]) :
              /\ Earliest(pr[t], i)
              /\ pr'[t].printed = Append(pr[t].printed, EventAt(pr[t], i))
              /\ pr'[t].current = [pr[t].current EXCEPT ![i] = Following(@)]
         /\ CallsShaped'
<1>1. PICK i \in Left(pr[t]) :
        /\ pr[t].pc = "emit" /\ Earliest(pr[t], i)
        /\ pr' = [pr EXCEPT ![t].printed = Append(@, EventAt(pr[t], i)),
                            ![t].current[i] = Following(@)]
  BY DEF Emit
<1> PICK printed : printed = Append(pr[t].printed, EventAt(pr[t], i))
  OBVIOUS
<1> PICK current : current = [pr[t].current EXCEPT ![i] = Following(@)]
  OBVIOUS
<1>2. pr[t] = [pc |-> pr[t].pc, buffers |-> pr[t].buffers, current |-> pr[t].current,
             start_time |-> pr[t].start_time, printed |-> pr[t].printed,
             clean |-> pr[t].clean]
  BY DEF CallsShaped, CallShape
<1>3. /\ \A u \in Threads : u # t => pr'[u] = pr[u]
      /\ pr' = [u \in Threads |-> pr'[u]]
  BY <1>1 DEF CallsShaped
<1>4. pr'[t] = [pc |-> "emit", buffers |-> pr[t].buffers, current |-> current,
               start_time |-> pr[t].start_time, printed |-> printed,
               clean |-> pr[t].clean]
  BY <1>1, <1>2 DEF CallsShaped
<1>5. \A u \in Threads : CallShape(pr[u])'
  BY <1>3, <1>4 DEF CallsShaped, CallShape
<1>6. /\ pr'[t].pc = "emit" /\ pr'[t].printed = printed /\ pr'[t].current = current
      /\ pr'[t].clean = pr[t].clean /\ pr'[t].buffers = pr[t].buffers
  BY <1>4
<1>7. /\ Earliest(pr[t], i)
      /\ pr'[t].printed = Append(pr[t].printed, EventAt(pr[t], i))
      /\ pr'[t].current = [pr[t].current EXCEPT ![i] = Following(@)]
  BY <1>1, <1>6, Zenon
<1>8. CallsShaped'
  BY <1>3, <1>5 DEF CallsShaped
<1>9. QED
  BY <1>1, <1>3, <1>6, <1>7, <1>8, Zenon

LEMMA PrintInternalFields ==
  ASSUME CallsShaped, NEW t \in Threads, PrintInternal(t)
  PROVE  /\ \A u \in Threads : u # t => pr'[u] = pr[u]
         /\ pr'[t].pc = "copy" /\ pr'[t].printed = <<>>
         /\ pr'[t].clean => \A u \in Threads : ~Recording(u)
         /\ CallsShaped'
<1>1. PICK clean \in BOOLEAN : /\ clean <=> ~\E u \in Threads : Recording(u)
                               /\ pr' = [pr EXCEPT ![t] = [NoPrint EXCEPT !.pc = "copy",
                                                                          !.clean = clean]]
  BY Zenon DEF PrintInternal
<1>2. /\ \A u \in Threads : u # t => pr'[u] = pr[u]
      /\ pr' = [u \in Threads |-> pr'[u]]
  BY <1>1 DEF CallsShaped
<1>3. pr'[t] = [pc |-> "copy", buffers |-> <<>>, current |-> <<>>, start_time |-> 0,
               printed |-> <<>>, clean |-> clean]
  BY <1>1 DEF CallsShaped, NoPrint
<1>4. /\ pr'[t].pc = "copy" /\ pr'[t].printed = <<>> /\ pr'[t].clean = clean
      /\ pr'[t].buffers = <<>> /\ pr'[t].current = <<>> /\ pr'[t].start_time = 0
  BY <1>3
<1>5. CallShape(pr[t])'
  BY <1>3, <1>4, Zenon DEF CallShape
<1>6. \A u \in Threads : CallShape(pr[u])'
  <2>1. \A u \in Threads : u # t => CallShape(pr[u])'
    BY <1>2 DEF CallsShaped, CallShape
  <2>2. QED
    BY <1>5, <2>1
<1>7. pr'[t].clean => \A u \in Threads : ~Recording(u)
  BY <1>1, <1>4, Zenon
<1>8. QED
  BY <1>2, <1>4, <1>6, <1>7, Zenon DEF CallsShaped

\* A print ends, or a buffer is deleted: the other prints are disturbed.
LEMMA DisturbedFields ==
  ASSUME CallsShaped, NEW t \in Threads, Return(t) \/ Cleanup(t), NEW u \in Threads
  PROVE  /\ pr'[u] = pr[u] \/ pr'[u].clean = FALSE \/ pr'[u].pc = "none"
         /\ Return(t) => pr'[u].clean = FALSE \/ pr'[u].pc = "none"
         /\ CallShape(pr[u])'
         /\ pr' = [v \in Threads |-> pr'[v]]
<1>1. ASSUME pr'[u] = [pr[u] EXCEPT !.clean = FALSE]
      PROVE  pr'[u].clean = FALSE /\ CallShape(pr[u])'
  <2>1. pr[u] = [pc |-> pr[u].pc, buffers |-> pr[u].buffers, current |-> pr[u].current,
                 start_time |-> pr[u].start_time, printed |-> pr[u].printed,
                 clean |-> pr[u].clean]
    BY DEF CallsShaped, CallShape
  <2>2. pr'[u] = [pc |-> pr[u].pc, buffers |-> pr[u].buffers, current |-> pr[u].current,
                  start_time |-> pr[u].start_time, printed |-> pr[u].printed,
                  clean |-> FALSE]
    BY <1>1, <2>1
  <2>3. QED
    BY <2>2 DEF CallsShaped, CallShape
<1>2. CASE Return(t)
  <2>1. pr' = [v \in Threads |-> IF v = t THEN NoPrint ELSE [pr[v] EXCEPT !.clean = FALSE]]
    BY <1>2 DEF Return
  <2>2. u # t => pr'[u] = [pr[u] EXCEPT !.clean = FALSE]
    BY <2>1
  <2>3. pr' = [v \in Threads |-> pr'[v]]
    BY <2>1
  <2>4. CASE u = t
    <3>1. pr'[u] = NoPrint
      BY <2>1, <2>4
    <3>2. CallShape(NoPrint) /\ NoPrint.pc = "none"
      BY DEF NoPrint, CallShape
    <3>3. pr'[u].pc = "none" /\ CallShape(pr[u])'
      BY <3>1, <3>2 DEF CallShape
    <3>4. QED
      BY <2>3, <3>3
  <2>5. QED
    BY <1>1, <2>2, <2>3, <2>4
<1>3. CASE Cleanup(t)
  <2>1. pr' = [v \in Threads |->
                 IF \A b \in Range(pr[v].buffers) : buffer[b].ref_count # 0 THEN pr[v]
                 ELSE [pr[v] EXCEPT !.clean = FALSE]]
    BY <1>3 DEF Cleanup
  <2>2. pr'[u] = pr[u] \/ pr'[u] = [pr[u] EXCEPT !.clean = FALSE]
    BY <2>1
  <2>3. pr' = [v \in Threads |-> pr'[v]]
    BY <2>1
  <2>4. pr'[u] = pr[u] => CallShape(pr[u])'
    BY DEF CallShape, CallsShaped
  <2>5. thread_buffers' # thread_buffers
    BY <1>3 DEF Cleanup
  <2>6. ~Return(t)
    BY <2>5 DEF Return
  <2>7. QED
    BY <1>1, <2>2, <2>3, <2>4, <2>6
<1>4. QED
  BY <1>2, <1>3

-----------------------------------------------------------------------------
\* The events that a buffer retains are the last ones of its log.
LEMMA RetainedIs ==
  ASSUME TraceInv, NEW b \in DOMAIN log
  PROVE  /\ Kept(b) \in 0..Len(log[b]) /\ Kept(b) < BUFFER_SIZE
         /\ BUFFER_SIZE > 1 /\ Len(log[b]) > 0 => Kept(b) > 0
         /\ Range(Retained(b)) = Latest(b, Kept(b))
         /\ Retained(b) # <<>> <=> Kept(b) > 0
         /\ Kept(b) > 0 => Head(Retained(b)) = log[b][Len(log[b]) - Kept(b) + 1]
<1> DEFINE n == Len(log[b])
           m == Kept(b)
           kept == Min({Len(log[b]), BUFFER_SIZE - 1})
<1>1. /\ n \in Nat /\ log[b] \in Seq(Nat) /\ DOMAIN log[b] = 1..n
      /\ BUFFER_SIZE \in Nat \ {0}
  BY Logs, TraceAssumption
<1>2. m = (IF n < BUFFER_SIZE THEN n ELSE BUFFER_SIZE - 1)
  BY DEF Kept
<1> HIDE DEF m
<1>3. m \in 0..n /\ m < BUFFER_SIZE
  BY <1>1, <1>2
<1>4. kept = m
  <2>1. {n, BUFFER_SIZE - 1} \subseteq Nat /\ {n, BUFFER_SIZE - 1} # {}
    BY <1>1
  <2>2. kept \in {n, BUFFER_SIZE - 1} /\ kept <= n /\ kept <= BUFFER_SIZE - 1
    BY <2>1, Lowest
  <2> HIDE DEF kept
  <2>3. QED
    BY <1>1, <1>2, <2>2
<1>5. Retained(b) = SubSeq(log[b], n - m + 1, n)
  BY <1>4 DEF Retained
<1> HIDE DEF n, kept
<1>6. /\ DOMAIN Retained(b) = 1..m /\ Len(Retained(b)) = m
      /\ \A k \in 1..m : Retained(b)[k] = log[b][n - m + k]
  <2>1. Len(log[b]) = n
    BY DEF n
  <2>2. QED
    BY <1>1, <1>3, <1>5, <2>1
<1>7. Range(Retained(b)) = {log[b][k] : k \in (n - m + 1)..n}
  <2>1. \A k \in 1..m : n - m + k \in (n - m + 1)..n
    BY <1>1, <1>3
  <2>2. \A k \in (n - m + 1)..n : k - (n - m) \in 1..m /\ n - m + (k - (n - m)) = k
    BY <1>1, <1>3
  <2>3. ASSUME NEW x \in Range(Retained(b)) PROVE x \in {log[b][k] : k \in (n - m + 1)..n}
    BY <1>6, <2>1, <2>3 DEF Range
  <2>4. ASSUME NEW k \in (n - m + 1)..n PROVE log[b][k] \in Range(Retained(b))
    <3>1. Retained(b)[k - (n - m)] = log[b][k]
      BY <1>6, <2>2
    <3>2. k - (n - m) \in DOMAIN Retained(b)
      BY <1>6, <2>2
    <3>3. QED
      BY <3>1, <3>2 DEF Range
  <2>5. QED
    BY <2>3, <2>4
<1>8. Retained(b) # <<>> <=> m > 0
  <2>1. Retained(b) \in Seq(Nat)
    <3>1. \A k \in (n - m + 1)..n : log[b][k] \in Nat
      BY <1>1, <1>3
    <3>2. n - m + 1 \in Int /\ n \in Int
      BY <1>1, <1>3
    <3>3. SubSeq(log[b], n - m + 1, n) \in Seq(Nat)
      BY <3>1, <3>2, SubSeqProperties
    <3>4. QED
      BY <1>5, <3>3
  <2>2. Retained(b) = <<>> <=> Len(Retained(b)) = 0
    BY <2>1, EmptySeq
  <2>3. QED
    BY <1>3, <1>6, <2>2
<1>9. m > 0 => Head(Retained(b)) = log[b][n - m + 1]
  BY <1>1, <1>3, <1>5, <1>6
<1>10. BUFFER_SIZE > 1 /\ n > 0 => m > 0
  BY <1>1, <1>2
<1>11. QED
  BY <1>3, <1>7, <1>8, <1>9, <1>10 DEF n, m, Latest

\* The times of a log.
LEMMA LogTimes ==
  ASSUME TraceInv, TimesDiffer
  PROVE  /\ \A b \in DOMAIN log : \A i \in DOMAIN log[b] : log[b][i] \in Nat \ {0}
         /\ \A b \in DOMAIN log : \A i, j \in DOMAIN log[b] : i < j => log[b][i] < log[b][j]
         /\ \A b, c \in DOMAIN log : \A i \in DOMAIN log[b], j \in DOMAIN log[c] :
              b # c => log[b][i] # log[c][j]
BY DEF TimesDiffer, TraceInv, TraceType

\* A ring that no record() has a slot of: before next_index are the events
\* retained, the last one first, and get_trace finds the oldest of them.
LEMMA QuietRing ==
  ASSUME TraceInv, Rings, TimesDiffer, NEW b \in DOMAIN log,
         \A u \in Threads : ~Recording(u)
  PROVE  /\ \A d \in 1..Kept(b) :
              buffer[b].events[Back(buffer[b].next_index, d)] =
                Recorded(log[b][Len(log[b]) + 1 - d])
         /\ Oldest(b) = Back(buffer[b].next_index, Kept(b))
         /\ Kept(b) = 0 => buffer[b].next_index = 0
         /\ Kept(b) = 0 /\ BUFFER_SIZE > 1 =>
              buffer[b].events[buffer[b].next_index] = NoEvent
<1> DEFINE n == Len(log[b])
           next == buffer[b].next_index
           m == Kept(b)
           events == buffer[b].events
<1>1. /\ n \in Nat /\ BUFFER_SIZE \in Nat \ {0} /\ next \in Slots
      /\ DOMAIN log[b] = 1..n
  BY Logs, TraceAssumption
<1>2. m = (IF n < BUFFER_SIZE THEN n ELSE BUFFER_SIZE - 1)
  BY DEF Kept
<1>3. Taken(b) = 0
  BY DEF Taken, Filling, Recording
<1>4. /\ n < BUFFER_SIZE => next = n
      /\ \A d \in 1..BUFFER_SIZE :
           events[Back(next, d)] = IF d <= n THEN Recorded(log[b][n + 1 - d]) ELSE NoEvent
  <2>1. RingLogged(b)
    BY DEF Rings
  <2>2. n + Taken(b) = n /\ 1 + Taken(b) = 1
    BY <1>1, <1>3
  <2>3. QED
    BY <2>1, <2>2 DEF RingLogged
<1> HIDE DEF n, next, m, events
<1>5. \A d \in 1..m : events[Back(next, d)] = Recorded(log[b][n + 1 - d])
  BY <1>1, <1>2, <1>4
<1>6. m = 0 => next = 0
  BY <1>1, <1>2, <1>4 DEF Slots
<1>7. m = 0 /\ BUFFER_SIZE > 1 => events[next] = NoEvent
  <2>1. Back(next, BUFFER_SIZE) = next
    BY <1>1, StepsBack
  <2>2. m = 0 /\ BUFFER_SIZE > 1 => n = 0
    BY <1>1, <1>2
  <2>3. BUFFER_SIZE \in 1..BUFFER_SIZE /\ ~(BUFFER_SIZE <= 0)
    BY <1>1
  <2>4. QED
    BY <1>4, <2>1, <2>2, <2>3
<1>8. Oldest(b) = Back(next, m)
  <2>1. Following(next) = Back(next, BUFFER_SIZE - 1) /\ Following(next) \in Slots
    BY <1>1, StepsBack
  <2>2. Oldest(b) = IF events[Following(next)].format # NULL THEN Following(next) ELSE 0
    BY DEF Oldest, next, events
  <2>3. CASE BUFFER_SIZE = 1
    <3>1. Slots = {0} /\ m = 0 /\ Back(next, 0) = next
      BY <1>1, <1>2, <2>3, StepsBack DEF Slots
    <3>2. QED
      BY <1>1, <2>1, <2>2, <3>1
  <2>4. CASE BUFFER_SIZE > 1
    <3>1. BUFFER_SIZE - 1 \in 1..BUFFER_SIZE
      BY <1>1, <2>4
    <3>2. CASE BUFFER_SIZE - 1 <= n
      <4>1. m = BUFFER_SIZE - 1
        BY <1>1, <1>2, <3>2
      <4>2. events[Following(next)] = Recorded(log[b][n + 1 - m])
        BY <1>4, <2>1, <3>1, <3>2, <4>1
      <4>3. log[b][n + 1 - m] # 0
        <5>1. n + 1 - m \in 1..n
          BY <1>1, <2>4, <3>2, <4>1
        <5>2. QED
          BY <1>1, <5>1, LogTimes
      <4>4. QED
        BY <2>1, <2>2, <4>1, <4>2, <4>3 DEF Recorded, NULL
    <3>3. CASE ~(BUFFER_SIZE - 1 <= n)
      <4>1. m = n /\ next = n
        BY <1>1, <1>2, <1>4, <3>3
      <4>2. events[Following(next)] = NoEvent
        BY <1>4, <2>1, <3>1, <3>3
      <4>3. Back(n, n) = 0
        BY <1>1 DEF Back
      <4>4. QED
        BY <2>2, <4>1, <4>2, <4>3 DEF NoEvent
    <3>4. QED
      BY <3>2, <3>3
  <2>5. QED
    BY <1>1, <2>3, <2>4
<1>9. QED
  BY <1>5, <1>6, <1>7, <1>8 DEF n, next, m, events

\* How far a slot is before next_index.
LEMMA AheadIs ==
  ASSUME NEW call, NEW i, NEW d \in 0..(BUFFER_SIZE - 1), NEW next \in Slots,
         next = buffer[call.buffers[i]].next_index
  PROVE  /\ call.current[i] = Back(next, d) => Ahead(call, i) = d
         /\ call.current[i] \in Slots =>
              /\ Ahead(call, i) \in 0..(BUFFER_SIZE - 1)
              /\ call.current[i] = Back(next, Ahead(call, i))
<1>1. BUFFER_SIZE \in Nat \ {0} /\ next \in 0..(BUFFER_SIZE - 1)
  BY TraceAssumption DEF Slots
<1> PICK current : current = call.current[i]
  OBVIOUS
<1>2. Ahead(call, i) = IF current <= next THEN next - current
                       ELSE next - current + BUFFER_SIZE
  BY DEF Ahead
<1>3. current = Back(next, d) => Ahead(call, i) = d
  BY <1>1, <1>2 DEF Back
<1>4. current \in Slots => /\ Ahead(call, i) \in 0..(BUFFER_SIZE - 1)
                           /\ current = Back(next, Ahead(call, i))
  BY <1>1, <1>2 DEF Back, Slots
<1>5. QED
  BY <1>3, <1>4

-----------------------------------------------------------------------------
\* Nothing that a print looks at changes.
Quiet ==
  /\ \A v \in Threads : ~Recording(v)'
  /\ Len(buffer) \in Nat /\ Len(buffer') \in Nat /\ Len(buffer) <= Len(buffer')
  /\ \A b \in 1..Len(buffer) : /\ log'[b] = log[b]
                               /\ buffer'[b].events = buffer[b].events
                               /\ buffer'[b].next_index = buffer[b].next_index

LEMMA ListKept ==
  ASSUME Quiet, NEW list, list \in Seq(1..Len(buffer))
  PROVE  Complete(list)' = Complete(list) /\ Expected(list)' = Expected(list)
<1>1. \A b \in Range(list) : b \in 1..Len(buffer)
  BY DEF Range
<1>2. \A b \in Range(list) : Retained(b)' = Retained(b)
  BY <1>1 DEF Quiet, Retained
<1>3. {Head(Retained(b)') : b \in {c \in Range(list) : Retained(c)' # <<>>}} =
        {Head(Retained(b)) : b \in {c \in Range(list) : Retained(c) # <<>>}}
  BY <1>2
<1>4. Complete(list)' = Complete(list)
  BY <1>3 DEF Complete
<1>5. {Range(Retained(b)') : b \in Range(list)} = {Range(Retained(b)) : b \in Range(list)}
  BY <1>2
<1>6. QED
  BY <1>4, <1>5 DEF Expected

LEMMA CallKept ==
  ASSUME Quiet, NEW call, Listed(call)
  PROVE  /\ Listed(call)' /\ (AtOldest(call) => AtOldest(call)')
         /\ (Started(call) => Started(call)') /\ (Merging(call) => Merging(call)')
<1>1. \A i \in DOMAIN call.buffers : call.buffers[i] \in 1..Len(buffer)
  BY DEF Listed
<1>2. \A i \in DOMAIN call.buffers : /\ Kept(call.buffers[i])' = Kept(call.buffers[i])
                                     /\ Ahead(call, i)' = Ahead(call, i)
  BY <1>1 DEF Quiet, Kept, Ahead
<1>3. ToPrint(call)' = ToPrint(call)
  <2>1. \A i \in DOMAIN call.buffers :
          Latest(call.buffers[i], Ahead(call, i))' = Latest(call.buffers[i], Ahead(call, i))
    BY <1>1, <1>2 DEF Quiet, Latest
  <2>2. QED
    BY <2>1 DEF ToPrint
<1>4. /\ Complete(call.buffers)' = Complete(call.buffers)
      /\ Expected(call.buffers)' = Expected(call.buffers)
  BY ListKept DEF Listed
<1>5. Listed(call)'
  <2>1. 1..Len(buffer) \subseteq 1..Len(buffer')
    BY DEF Quiet
  <2>2. call.buffers \in Seq(1..Len(buffer'))
    <3>1. /\ call.buffers \in [1..Len(call.buffers) -> 1..Len(buffer)]
          /\ Len(call.buffers) \in Nat
      BY LenProperties DEF Listed
    <3>2. call.buffers \in [1..Len(call.buffers) -> 1..Len(buffer')]
      BY <2>1, <3>1
    <3>3. QED
      BY <3>1, <3>2, SeqDef
  <2>3. QED
    BY <2>2 DEF Listed
<1>6. AtOldest(call) => AtOldest(call)'
  BY <1>1, <1>2 DEF AtOldest, Quiet
<1>7. Started(call) => Started(call)'
  BY <1>4 DEF Started
<1>8. Merging(call) => Merging(call)'
  BY <1>2, <1>3, <1>4 DEF Merging, Printed
<1>9. QED
  BY <1>5, <1>6, <1>7, <1>8

LEMMA PrintKept ==
  ASSUME NEW u \in Threads, PrintRight(u), pr'[u] = pr[u],
         pr[u].pc # "none" /\ pr[u].clean => frozen' /\ Quiet
  PROVE  PrintRight(u)'
<1>1. CASE ~(pr[u].pc # "none" /\ pr[u].clean)
  <2>1. ~(pr'[u].pc # "none" /\ pr'[u].clean)
    BY <1>1
  <2>2. QED
    BY <2>1 DEF PrintRight
<1>2. CASE pr[u].pc # "none" /\ pr[u].clean
  <2> PICK call : call = pr[u]
    OBVIOUS
  <2>1. frozen' /\ Quiet
    BY <1>2
  <2>2. Listed(call) => /\ Listed(call)' /\ (AtOldest(call) => AtOldest(call)')
                        /\ (Started(call) => Started(call)')
                        /\ (Merging(call) => Merging(call)')
    BY <2>1, CallKept
  <2>3. QED
    BY <1>2, <2>1, <2>2, Zenon DEF PrintRight, Quiet
<1>3. QED
  BY <1>1, <1>2

-----------------------------------------------------------------------------
\* A step of a print changes its call and no more.
LEMMA StepOfPrint ==
  ASSUME TraceInv, NEW t \in Threads, UNCHANGED <<frozen, buffer, rec, log>>,
         \A u \in Threads : ~Recording(u), frozen
  PROVE  frozen' /\ Quiet
<1>1. Len(buffer) \in Nat
  BY Logs
<1>2. QED
  BY <1>1 DEF Quiet, Recording

LEMMA CopyRight ==
  ASSUME TraceInv, Rings, TimesDiffer, CallsShaped, NEW t \in Threads, PrintRight(t),
         Copy(t)
  PROVE  PrintRight(t)'
<1>1. /\ pr[t].pc = "copy" /\ UNCHANGED <<frozen, buffer, rec, log>>
      /\ thread_buffers \subseteq 1..Len(buffer) /\ Len(buffer) \in Nat
      /\ DOMAIN log = 1..Len(buffer)
  BY Logs DEF Copy, TraceInv, TraceType
<1> PICK call : call = pr'[t]
  OBVIOUS
<1> PICK list : list = Sorted(thread_buffers)
  OBVIOUS
<1>2. /\ call.pc = "start" /\ call.printed = pr[t].printed /\ call.clean = pr[t].clean
      /\ call.buffers = list /\ call.current = [i \in DOMAIN list |-> Oldest(list[i])]
  BY CopyFields
<1>3. CASE ~call.clean
  BY <1>3 DEF PrintRight
<1>4. CASE call.clean
  <2>1. frozen /\ (\A u \in Threads : ~Recording(u)) /\ call.printed = <<>>
    BY <1>1, <1>2, <1>4 DEF PrintRight
  <2>2. Listed(call)
    <3>1. IsFiniteSet(thread_buffers) /\ thread_buffers \subseteq Nat
      <4>1. IsFiniteSet(1..Len(buffer)) /\ thread_buffers \in SUBSET (1..Len(buffer))
        <5>1. IsFiniteSet(1..Len(buffer))
          BY <1>1, FS_Interval
        <5>2. QED
          BY <1>1, <5>1
      <4>2. IsFiniteSet(thread_buffers)
        BY <4>1, FS_Subset
      <4>3. QED
        BY <1>1, <4>2
    <3>2. /\ list \in Seq(thread_buffers)
          /\ \A i, j \in DOMAIN list : list[i] = list[j] => i = j
      BY <3>1, SortedLists
    <3>3. list \in Seq(1..Len(buffer))
      <4>1. list \in [1..Len(list) -> thread_buffers] /\ Len(list) \in Nat
        BY <3>2, LenProperties
      <4>2. list \in [1..Len(list) -> 1..Len(buffer)]
        BY <1>1, <4>1
      <4>3. QED
        BY <4>1, <4>2, SeqDef
    <3>4. QED
      BY <1>2, <3>2, <3>3 DEF Listed
  <2>3. AtOldest(call)
    <3>1. \A i \in DOMAIN list : list[i] \in DOMAIN log
      BY <1>1, <1>2, <2>2 DEF Listed
    <3>2. QED
      BY <1>2, <2>1, <3>1, QuietRing DEF AtOldest
  <2>4. frozen' /\ Quiet
    BY <1>1, <2>1, StepOfPrint
  <2>5. Listed(call)' /\ AtOldest(call)'
    BY <2>2, <2>3, <2>4, CallKept
  <2>6. QED
    BY <1>2, <2>1, <2>4, <2>5 DEF PrintRight, Quiet
<1>5. QED
  BY <1>3, <1>4

\* The starting time is the one from which no buffer has lost an event.
LEMMA StartRight ==
  ASSUME TraceInv, Rings, TimesDiffer, CallsShaped, NEW t \in Threads, PrintRight(t),
         Start(t)
  PROVE  PrintRight(t)'
<1>1. /\ pr[t].pc = "start" /\ UNCHANGED <<frozen, buffer, rec, log>>
      /\ DOMAIN log = 1..Len(buffer)
  BY Logs DEF Start
<1> PICK call : call = pr'[t]
  OBVIOUS
<1> DEFINE old == pr[t]
           events == {i \in DOMAIN old.buffers : EventAt(old, i).format # NULL}
           times == {EventAt(old, i).timestamp : i \in events}
<1>2. /\ call.pc = "skip" /\ call.printed = old.printed /\ call.clean = old.clean
      /\ call.buffers = old.buffers /\ call.current = old.current
      /\ call.start_time = Max(times \cup {0})
  BY StartFields, Zenon
<1>3. CASE ~call.clean
  BY <1>3 DEF PrintRight
<1>4. CASE call.clean
  <2>1. /\ frozen /\ (\A u \in Threads : ~Recording(u)) /\ old.printed = <<>>
        /\ Listed(old) /\ AtOldest(old)
    BY <1>1, <1>2, <1>4, Zenon DEF PrintRight
  <2>2. Listed(call) /\ AtOldest(call)
    BY <1>2, <2>1 DEF Listed, AtOldest
  <2>3. ASSUME BUFFER_SIZE > 1 PROVE call.start_time = Complete(call.buffers)
    <3> DEFINE list == old.buffers
               heads == {Head(Retained(b)) : b \in {c \in Range(list) : Retained(c) # <<>>}}
    <3>1. \A i \in DOMAIN list : list[i] \in DOMAIN log
      BY <1>1, <2>1 DEF Listed
    <3>2. ASSUME NEW i \in DOMAIN list
          PROVE  /\ i \in events <=> Retained(list[i]) # <<>>
                 /\ i \in events => EventAt(old, i).timestamp = Head(Retained(list[i]))
      <4> PICK b \in DOMAIN log : b = list[i]
        BY <3>1
      <4> PICK m : m = Kept(b)
        OBVIOUS
      <4>1. EventAt(old, i) = buffer[b].events[Back(buffer[b].next_index, m)]
        BY <2>1 DEF AtOldest, EventAt
      <4>2. /\ m \in Nat /\ m <= Len(log[b]) /\ Len(log[b]) \in Nat
            /\ Retained(b) # <<>> <=> m > 0
            /\ m > 0 => Head(Retained(b)) = log[b][Len(log[b]) - m + 1]
            /\ DOMAIN log[b] = 1..Len(log[b])
        <5>1. /\ Kept(b) \in 0..Len(log[b])
              /\ Retained(b) # <<>> <=> Kept(b) > 0
              /\ Kept(b) > 0 => Head(Retained(b)) = log[b][Len(log[b]) - Kept(b) + 1]
          BY RetainedIs
        <5>2. DOMAIN log[b] = 1..Len(log[b]) /\ Len(log[b]) \in Nat
          BY Logs
        <5>3. QED
          BY <5>1, <5>2
      <4>3. CASE m = 0
        <5>1. Back(buffer[b].next_index, 0) = buffer[b].next_index
          BY Logs, StepsBack
        <5>2. buffer[b].events[buffer[b].next_index] = NoEvent
          BY <2>1, <2>3, <4>3, QuietRing
        <5>4. EventAt(old, i) = NoEvent
          BY <4>1, <4>3, <5>1, <5>2
        <5>3. QED
          BY <4>2, <4>3, <5>4 DEF NoEvent
      <4>4. CASE m > 0
        <5>1. m \in 1..Kept(b) /\ Len(log[b]) + 1 - m = Len(log[b]) - m + 1
              /\ Len(log[b]) - m + 1 \in DOMAIN log[b]
          BY <4>2, <4>4
        <5>2. EventAt(old, i) = Recorded(log[b][Len(log[b]) - m + 1])
          BY <2>1, <4>1, <5>1, QuietRing
        <5>3. log[b][Len(log[b]) - m + 1] # 0
          BY <5>1, LogTimes
        <5>4. QED
          BY <4>2, <4>4, <5>2, <5>3 DEF Recorded, NULL
      <4>5. QED
        BY <4>2, <4>3, <4>4
    <3> HIDE DEF events
    <3>3. \A x : x \in times <=> x \in heads
      <4>1. \A x : x \in times <=> \E i \in DOMAIN list :
                     Retained(list[i]) # <<>> /\ x = Head(Retained(list[i]))
        <5>1. \A i \in events : i \in DOMAIN list
          BY DEF events
        <5>2. QED
          BY <3>2, <5>1
      <4>2. \A x : x \in heads <=> \E b \in Range(list) :
                     Retained(b) # <<>> /\ x = Head(Retained(b))
        OBVIOUS
      <4>3. \A b : b \in Range(list) <=> \E i \in DOMAIN list : b = list[i]
        BY DEF Range
      <4> HIDE DEF times, heads, list
      <4>4. QED
        BY <4>1, <4>2, <4>3
    <3>4. times = heads
      BY <3>3
    <3> HIDE DEF times, heads
    <3>5. call.start_time = Max(heads \cup {0})
      BY <1>2, <3>4
    <3>6. Complete(list) = Max(heads \cup {0})
      BY DEF Complete, heads
    <3>7. QED
      BY <1>2, <3>5, <3>6
  <2>4. Started(call)
    BY <2>3 DEF Started
  <2>5. frozen' /\ Quiet
    BY <1>1, <2>1, StepOfPrint
  <2>6. Listed(call)' /\ AtOldest(call)' /\ Started(call)'
    BY <2>2, <2>4, <2>5, CallKept
  <2>7. call.printed = <<>>
    BY <1>2, <2>1
  <2>8. QED
    BY <1>2, <2>5, <2>6, <2>7 DEF PrintRight, Quiet
<1>5. QED
  BY <1>3, <1>4

-----------------------------------------------------------------------------
\* The starting time is a number.
LEMMA CompleteIs ==
  ASSUME TraceInv, TimesDiffer, NEW list \in Seq(DOMAIN log)
  PROVE  Complete(list) \in Nat
<1> DEFINE heads == {Head(Retained(b)) : b \in {c \in Range(list) : Retained(c) # <<>>}}
<1>1. clock \in Nat
  BY DEF TraceInv, TraceType
<1>2. ASSUME NEW b \in Range(list), Retained(b) # <<>>
      PROVE  Head(Retained(b)) \in 1..clock
  <2>1. b \in DOMAIN log
    BY DEF Range
  <2>2. /\ Kept(b) \in 1..Len(log[b]) /\ Len(log[b]) \in Nat /\ DOMAIN log[b] = 1..Len(log[b])
        /\ Head(Retained(b)) = log[b][Len(log[b]) - Kept(b) + 1]
    BY <1>2, <2>1, RetainedIs, Logs
  <2>3. Len(log[b]) - Kept(b) + 1 \in DOMAIN log[b]
    BY <2>2
  <2>4. QED
    BY <2>1, <2>2, <2>3 DEF TimesDiffer
<1>3. heads \subseteq 1..clock
  BY <1>2
<1> HIDE DEF heads
<1>4. Max(heads \cup {0}) \in heads \cup {0}
  <2>1. /\ heads \cup {0} \subseteq Nat /\ heads \cup {0} # {}
        /\ \A x \in heads \cup {0} : x <= clock
    BY <1>1, <1>3
  <2>2. QED
    BY <1>1, <2>1, Largest
<1>5. Complete(list) = Max(heads \cup {0})
  BY DEF Complete, heads
<1>6. heads \cup {0} \subseteq Nat
  BY <1>1, <1>3
<1>7. QED
  BY <1>4, <1>5, <1>6

\* A sum of two indices in the ring.
LEMMA Wrapped ==
  ASSUME NEW size \in Nat \ {0}, NEW a \in 0..(size - 1), NEW k \in 0..(size - 1)
  PROVE  (a + k) % size = IF a + k < size THEN a + k ELSE a + k - size
OBVIOUS

\* Skipping from the oldest event of a ring leaves those not before start_time.
LEMMA SkipTo ==
  ASSUME TraceInv, Rings, TimesDiffer, NEW b \in DOMAIN log, NEW start,
         \A u \in Threads : ~Recording(u)
  PROVE  \E d \in 0..Kept(b) :
           /\ From(b, Back(buffer[b].next_index, Kept(b)), start) =
                Back(buffer[b].next_index, d)
           /\ start \in Nat =>
                \A x : x \in Latest(b, d) <=> x \in Latest(b, Kept(b)) /\ x >= start
<1> DEFINE n == Len(log[b])
           m == Kept(b)
           next == buffer[b].next_index
           slot(k) == (Back(next, m) + k) % BUFFER_SIZE
           event(k) == buffer[b].events[slot(k)]
           stops(k) == \/ event(k).format = NULL
                       \/ event(k).timestamp >= start
                       \/ slot(k) = next
           low == Min({k \in Slots : stops(k)})
<1>1. /\ n \in Nat /\ BUFFER_SIZE \in Nat \ {0} /\ next \in Slots
      /\ DOMAIN log[b] = 1..n /\ m \in 0..n /\ m < BUFFER_SIZE
  BY Logs, TraceAssumption, RetainedIs
<1>2. \A d \in 1..m : buffer[b].events[Back(next, d)] = Recorded(log[b][n + 1 - d])
  BY QuietRing
<1>3. From(b, Back(next, m), start) = slot(low)
  BY DEF From
<1>4. \A k \in 0..m : slot(k) = Back(next, m - k)
  <2> HIDE DEF m, next
  <2>1. next \in 0..(BUFFER_SIZE - 1)
    BY <1>1 DEF Slots
  <2>2. \A a \in 0..(BUFFER_SIZE - 1) : \A k \in 0..(BUFFER_SIZE - 1) :
          (a + k) % BUFFER_SIZE = IF a + k < BUFFER_SIZE THEN a + k ELSE a + k - BUFFER_SIZE
    BY <1>1, Wrapped
  <2>3. \A k \in 0..m : /\ Back(next, m) \in 0..(BUFFER_SIZE - 1)
                        /\ k \in 0..(BUFFER_SIZE - 1)
    BY <1>1, <2>1 DEF Back
  <2>4. \A k \in 0..m :
          slot(k) = IF Back(next, m) + k < BUFFER_SIZE THEN Back(next, m) + k
                    ELSE Back(next, m) + k - BUFFER_SIZE
    BY <2>2, <2>3
  <2>5. QED
    BY <1>1, <2>1, <2>4 DEF Back
<1>5. Back(next, 0) = next
  BY <1>1, StepsBack
<1>6. stops(m) /\ m \in Slots
  BY <1>1, <1>4, <1>5 DEF Slots
<1>7. low \in Slots /\ stops(low) /\ low \in 0..m /\ \A k \in 0..(low - 1) : ~stops(k)
  <2> DEFINE S == {k \in Slots : stops(k)}
  <2>2. m \in S
    BY <1>6
  <2>1. S \subseteq Nat /\ S # {}
    <3>1. S \subseteq Slots
      OBVIOUS
    <3>2. Slots \subseteq Nat
      BY <1>1 DEF Slots
    <3>3. QED
      BY <2>2, <3>1, <3>2
  <2>3. Min(S) \in S /\ \A k \in S : Min(S) <= k
    <3> HIDE DEF S
    <3>1. QED
      BY <2>1, Lowest
  <2>4. low \in Slots /\ stops(low)
    BY <2>3
  <2>5. low <= m /\ \A k \in Slots : stops(k) => low <= k
    BY <2>2, <2>3
  <2> HIDE DEF low, stops, S, m
  <2>6. QED
    BY <1>1, <2>4, <2>5 DEF Slots
<1> HIDE DEF low
<1>8. low \in 0..m
  BY <1>7, Zenon
<1>9. m \in Nat /\ low \in Nat /\ low <= m
  <2> HIDE DEF m
  <2>1. m \in Nat
    BY <1>1
  <2>2. QED
    BY <1>8, <2>1
<1> DEFINE d == m - low
<1>10. d \in 0..m /\ slot(low) = Back(next, d)
  <2>1. slot(low) = Back(next, m - low)
    BY <1>4, <1>8
  <2> HIDE DEF m, slot, next
  <2>2. QED
    BY <1>9, <2>1
<1>11. d > 0 => log[b][n + 1 - d] >= start
  <2>1. CASE d > 0
    <3>1. d \in 1..m /\ n + 1 - d \in DOMAIN log[b]
      BY <1>1, <1>10, <2>1
    <3>2. event(low) = Recorded(log[b][n + 1 - d])
      BY <1>2, <1>10, <3>1
    <3>3. log[b][n + 1 - d] # 0
      BY <3>1, LogTimes
    <3>4. Back(next, d) # next
      BY <1>1, <1>10, <2>1 DEF Back, Slots
    <3>5. event(low).timestamp >= start
      BY <1>7, <1>10, <3>2, <3>3, <3>4 DEF Recorded, NULL
    <3>6. QED
      BY <3>2, <3>5 DEF Recorded
  <2>2. QED
    BY <2>1
<1>12. \A k \in (d + 1)..m : ~(log[b][n + 1 - k] >= start)
  <2>1. ASSUME NEW k \in (d + 1)..m PROVE ~(log[b][n + 1 - k] >= start)
    <3>1. k \in 1..m /\ m - k \in 0..(low - 1) /\ m - k \in 0..m /\ m - (m - k) = k
      <4>1. k \in (m - low + 1)..m
        OBVIOUS
      <4>2. \A j, l, e \in Nat : l <= j /\ e \in (j - l + 1)..j =>
              /\ e \in 1..j /\ j - e \in 0..(l - 1) /\ j - e \in 0..j
              /\ j - (j - e) = e
        OBVIOUS
      <4> HIDE DEF m
      <4>3. k \in Nat
        BY <1>9, <4>1
      <4>4. QED
        BY <1>9, <4>1, <4>2, <4>3
    <3>2. slot(m - k) = Back(next, k)
      BY <1>4, <3>1
    <3>3. event(m - k) = Recorded(log[b][n + 1 - k])
      BY <1>2, <3>1, <3>2
    <3>4. ~(event(m - k).timestamp >= start)
      BY <1>7, <3>1
    <3>5. QED
      BY <3>3, <3>4 DEF Recorded
  <2>2. QED
    BY <2>1
<1>13. ASSUME start \in Nat
       PROVE  \A x : x \in Latest(b, d) <=> x \in Latest(b, m) /\ x >= start
  <2> HIDE DEF d, m, n
  <2>0. Len(log[b]) = n
    BY DEF n
  <2>1. \A i, j \in 1..n : i < j => log[b][i] < log[b][j]
    BY <1>1, LogTimes
  <2>2. \A i \in 1..n : log[b][i] \in Nat
    BY <1>1, LogTimes
  <2>3. \A k \in (n - d + 1)..n : log[b][k] >= start
    <3>1. ASSUME NEW k \in (n - d + 1)..n PROVE log[b][k] >= start
      <4>1. d > 0 /\ n + 1 - d \in 1..n /\ k \in 1..n /\ n + 1 - d <= k
        BY <1>1, <1>10
      <4>2. log[b][n + 1 - d] <= log[b][k]
        BY <2>1, <2>2, <4>1
      <4>3. QED
        BY <1>11, <1>13, <2>2, <4>1, <4>2
    <3>2. QED
      BY <3>1
  <2>4. \A k \in (n - m + 1)..(n - d) : ~(log[b][k] >= start)
    <3>1. ASSUME NEW k \in (n - m + 1)..(n - d) PROVE ~(log[b][k] >= start)
      <4>1. n + 1 - k \in (d + 1)..m /\ n + 1 - (n + 1 - k) = k
        BY <1>1, <1>10
      <4>2. QED
        BY <1>12, <4>1
    <3>2. QED
      BY <3>1
  <2>5. /\ \A k \in (n - m + 1)..n : k \in (n - m + 1)..(n - d) \/ k \in (n - d + 1)..n
        /\ \A k \in (n - d + 1)..n : k \in (n - m + 1)..n
    BY <1>1, <1>10
  <2>6. /\ Latest(b, d) = {log[b][k] : k \in (n - d + 1)..n}
        /\ Latest(b, m) = {log[b][k] : k \in (n - m + 1)..n}
    BY <2>0 DEF Latest
  <2>7. QED
    BY <2>3, <2>4, <2>5, <2>6
<1>14. QED
  BY <1>3, <1>10, <1>13

-----------------------------------------------------------------------------
\* What a print ought to show, buffer by buffer.
LEMMA ExpectedIs ==
  ASSUME TraceInv, NEW call, Listed(call)
  PROVE  \A x : x \in Expected(call.buffers) <=>
                /\ x >= Complete(call.buffers)
                /\ \E i \in DOMAIN call.buffers :
                     x \in Latest(call.buffers[i], Kept(call.buffers[i]))
<1> DEFINE list == call.buffers
<1>1. \A b : b \in Range(list) <=> \E i \in DOMAIN list : b = list[i]
  BY DEF Range
<1>2. \A i \in DOMAIN list : list[i] \in DOMAIN log
  BY Logs DEF Listed
<1>3. \A i \in DOMAIN list : Range(Retained(list[i])) = Latest(list[i], Kept(list[i]))
  BY <1>2, RetainedIs
<1>4. \A x : x \in Expected(list) <=>
             x >= Complete(list) /\ \E b \in Range(list) : x \in Range(Retained(b))
  <2> HIDE DEF list
  <2>1. Expected(list) =
          {x \in UNION {Range(Retained(b)) : b \in Range(list)} : x >= Complete(list)}
    BY DEF Expected
  <2>2. QED
    BY <2>1, Zenon
<1> HIDE DEF list
<1>5. \A x : x \in Expected(list) <=>
             x >= Complete(list) /\ \E i \in DOMAIN list : x \in Latest(list[i], Kept(list[i]))
  BY <1>1, <1>3, <1>4
<1>6. QED
  BY <1>5 DEF list

LEMMA LatestIs ==
  ASSUME TraceInv, NEW b \in DOMAIN log, NEW d \in 0..Len(log[b])
  PROVE  /\ Latest(b, d) \subseteq Nat
         /\ d = 0 => Latest(b, d) = {}
<1>1. Len(log[b]) \in Nat /\ \A i \in 1..Len(log[b]) : log[b][i] \in Nat
  BY Logs
<1>2. \A k \in (Len(log[b]) - d + 1)..Len(log[b]) : k \in 1..Len(log[b]) /\ d # 0
  BY <1>1
<1>3. QED
  BY <1>1, <1>2 DEF Latest

LEMMA SkipRight ==
  ASSUME TraceInv, Rings, TimesDiffer, CallsShaped, NEW t \in Threads, PrintRight(t),
         Skip(t)
  PROVE  PrintRight(t)'
<1>1. /\ pr[t].pc = "skip" /\ UNCHANGED <<frozen, buffer, rec, log>>
      /\ DOMAIN log = 1..Len(buffer)
  BY Logs DEF Skip
<1> PICK old : old = pr[t]
  OBVIOUS
<1> PICK call : call = pr'[t]
  OBVIOUS
<1>2. /\ call.pc = "emit" /\ call.printed = old.printed /\ call.clean = old.clean
      /\ call.buffers = old.buffers
      /\ call.current = [i \in DOMAIN old.current |->
                           From(old.buffers[i], old.current[i], old.start_time)]
  BY SkipFields
<1>3. CASE ~call.clean
  BY <1>3 DEF PrintRight
<1>4. CASE call.clean
  <2>1. /\ frozen /\ (\A u \in Threads : ~Recording(u)) /\ old.printed = <<>>
        /\ Listed(old) /\ AtOldest(old) /\ Started(old)
    BY <1>1, <1>2, <1>4, Zenon DEF PrintRight
  <2> PICK list : list = call.buffers
    OBVIOUS
  <2>2. Listed(call)
    BY <1>2, <2>1 DEF Listed
  <2>3. /\ \A i \in DOMAIN list : list[i] \in DOMAIN log
        /\ list \in Seq(DOMAIN log)
    BY <1>1, <2>2 DEF Listed
  <2> PICK start \in Nat : start = Complete(list)
    BY <2>3, CompleteIs
  <2>4. ASSUME NEW i \in DOMAIN list
        PROVE  /\ call.current[i] \in Slots /\ Ahead(call, i) \in 0..Kept(list[i])
               /\ \A x : x \in Latest(list[i], Ahead(call, i)) <=>
                         x \in Latest(list[i], Kept(list[i])) /\ x >= start
    <3> PICK b \in DOMAIN log : b = list[i]
      BY <2>3
    <3> PICK next \in Slots : next = buffer[b].next_index
      BY Logs
    <3>1. /\ Kept(b) \in 0..Len(log[b]) /\ Kept(b) < BUFFER_SIZE
          /\ BUFFER_SIZE \in Nat \ {0} /\ Len(log[b]) \in Nat
      BY RetainedIs, TraceAssumption, Logs
    <3>2. call.current[i] = From(b, Back(next, Kept(b)), old.start_time)
      BY <1>2, <2>1 DEF Listed, AtOldest
    <3> PICK time : time = old.start_time
      OBVIOUS
    <3>3. PICK d \in 0..Kept(b) :
            /\ call.current[i] = Back(next, d)
            /\ time \in Nat =>
                 \A x : x \in Latest(b, d) <=> x \in Latest(b, Kept(b)) /\ x >= time
      <4>1. \E d \in 0..Kept(b) :
              /\ From(b, Back(buffer[b].next_index, Kept(b)), time) =
                   Back(buffer[b].next_index, d)
              /\ time \in Nat =>
                   \A x : x \in Latest(b, d) <=> x \in Latest(b, Kept(b)) /\ x >= time
        BY <2>1, SkipTo
      <4>2. call.current[i] = From(b, Back(buffer[b].next_index, Kept(b)), time)
        BY <3>2
      <4>3. QED
        BY <4>1, <4>2
    <3>4. d \in 0..(BUFFER_SIZE - 1) /\ d \in 0..BUFFER_SIZE
      BY <3>1
    <3>5. call.current[i] \in Slots /\ Ahead(call, i) = d
      BY <3>3, <3>4, AheadIs, StepsBack
    <3>6. CASE BUFFER_SIZE = 1
      <4>1. Kept(b) = 0 /\ Latest(b, 0) = {}
        BY <3>1, <3>6, LatestIs
      <4>2. QED
        BY <3>5, <4>1
    <3>7. CASE BUFFER_SIZE > 1
      <4>1. old.start_time = start
        BY <1>2, <2>1, <3>7 DEF Started
      <4>2. QED
        BY <3>3, <3>5, <4>1
    <3>8. QED
      BY <3>1, <3>6, <3>7
  <2>5. \A x : x \in ToPrint(call) <=> x \in Expected(list)
    <3>1. \A i \in DOMAIN list : Latest(list[i], Kept(list[i])) \subseteq Nat
      BY <2>3, RetainedIs, LatestIs
    <3>2. \A x : x \in ToPrint(call) <=>
                 /\ x \in Nat
                 /\ \E i \in DOMAIN list : x \in Latest(list[i], Ahead(call, i))
      BY DEF ToPrint
    <3>3. \A x : x \in Expected(list) <=>
                 /\ x >= start
                 /\ \E i \in DOMAIN list : x \in Latest(list[i], Kept(list[i]))
      BY <2>2, ExpectedIs
    <3>4. QED
      BY <2>4, <3>1, <3>2, <3>3
  <2>6. call.printed = <<>>
    BY <1>2, <2>1
  <2>7. Printed(call) = {}
    BY <2>6 DEF Printed
  <2>8. Merging(call)
    <3>1. call.printed \in Seq(Event)
      BY <2>6
    <3>2. Printed(call) \cup ToPrint(call) = Expected(call.buffers)
      BY <2>5, <2>7
    <3>3. QED
      BY <2>4, <2>6, <2>7, <3>1, <3>2 DEF Merging
  <2>9. frozen' /\ Quiet
    BY <1>1, <2>1, StepOfPrint
  <2>10. Listed(call)' /\ Merging(call)'
    BY <2>2, <2>8, <2>9, CallKept
  <2>11. QED
    BY <1>2, <2>9, <2>10 DEF PrintRight, Quiet
<1>5. QED
  BY <1>3, <1>4

-----------------------------------------------------------------------------
\* The event at which a print is in a ring, and what is left without it.
LEMMA EventLeft ==
  ASSUME TraceInv, Rings, TimesDiffer, NEW call, Listed(call), NEW i \in DOMAIN call.buffers,
         \A u \in Threads : ~Recording(u), NEW b, b = call.buffers[i],
         call.current[i] \in Slots, Ahead(call, i) \in 0..Kept(b)
  PROVE  /\ b \in DOMAIN log /\ Len(log[b]) \in Nat /\ Ahead(call, i) <= Len(log[b])
         /\ call.current[i] = Back(buffer[b].next_index, Ahead(call, i))
         /\ i \in Left(call) <=> Ahead(call, i) > 0
         /\ Ahead(call, i) > 0 =>
              /\ EventAt(call, i) = Recorded(log[b][Len(log[b]) - Ahead(call, i) + 1])
              /\ Len(log[b]) - Ahead(call, i) + 1 \in DOMAIN log[b]
<1> PICK d : d = Ahead(call, i)
  OBVIOUS
<1> PICK next : next = buffer[b].next_index
  OBVIOUS
<1>1. b \in DOMAIN log
  BY Logs DEF Listed
<1>2. /\ Len(log[b]) \in Nat /\ DOMAIN log[b] = 1..Len(log[b]) /\ next \in Slots
      /\ Kept(b) \in 0..Len(log[b]) /\ Kept(b) < BUFFER_SIZE /\ BUFFER_SIZE \in Nat \ {0}
      /\ d \in 0..Kept(b)
  BY <1>1, Logs, RetainedIs, TraceAssumption
<1>3. call.current[i] = Back(next, d) /\ d \in 0..(BUFFER_SIZE - 1)
  BY <1>2, AheadIs
<1>4. EventAt(call, i) = buffer[b].events[Back(next, d)]
  BY <1>3 DEF EventAt
<1>5. i \in Left(call) <=> Back(next, d) # next /\ EventAt(call, i).format # NULL
  BY <1>3 DEF Left
<1>6. CASE d = 0
  BY <1>1, <1>2, <1>3, <1>5, <1>6, StepsBack
<1>7. CASE d > 0
  <2>1. d \in 1..Kept(b) /\ Len(log[b]) + 1 - d = Len(log[b]) - d + 1
        /\ Len(log[b]) - d + 1 \in DOMAIN log[b]
    BY <1>2, <1>7
  <2>2. EventAt(call, i) = Recorded(log[b][Len(log[b]) - d + 1])
    BY <1>1, <1>4, <2>1, QuietRing
  <2>3. log[b][Len(log[b]) - d + 1] # 0
    BY <1>1, <2>1, LogTimes
  <2>4. Back(next, d) # next
    BY <1>2, <1>7 DEF Back, Slots
  <2>5. QED
    BY <1>1, <1>2, <1>3, <1>5, <1>7, <2>1, <2>2, <2>3, <2>4 DEF Recorded, NULL
<1>8. QED
  BY <1>2, <1>6, <1>7

\* The earliest event left is the least of what is to print.
LEMMA NextToPrint ==
  ASSUME TraceInv, Rings, TimesDiffer, NEW call, Listed(call), Merging(call),
         NEW i \in Left(call), Earliest(call, i),
         \A u \in Threads : ~Recording(u), NEW b, b = call.buffers[i]
  PROVE  /\ b \in DOMAIN log /\ Ahead(call, i) \in 1..Len(log[b]) /\ Len(log[b]) \in Nat
         /\ call.current[i] = Back(buffer[b].next_index, Ahead(call, i))
         /\ \E time \in ToPrint(call) :
              /\ EventAt(call, i) = Recorded(time)
              /\ time = log[b][Len(log[b]) - Ahead(call, i) + 1]
              /\ \A y \in ToPrint(call) : time <= y
<1> DEFINE first(j) ==
      log[call.buffers[j]][Len(log[call.buffers[j]]) - Ahead(call, j) + 1]
<1>0. \A j \in DOMAIN call.buffers : call.buffers[j] \in DOMAIN log
  <2>1. DOMAIN log = 1..Len(buffer)
    BY Logs
  <2>2. QED
    BY <2>1 DEF Listed
<1>1. \A j \in DOMAIN call.buffers :
        /\ call.buffers[j] \in DOMAIN log /\ Len(log[call.buffers[j]]) \in Nat
        /\ Ahead(call, j) \in Nat /\ Ahead(call, j) <= Len(log[call.buffers[j]])
        /\ call.current[j] = Back(buffer[call.buffers[j]].next_index, Ahead(call, j))
        /\ j \in Left(call) <=> Ahead(call, j) > 0
        /\ Ahead(call, j) > 0 => EventAt(call, j) = Recorded(first(j))
  <2>1. ASSUME NEW j \in DOMAIN call.buffers, NEW c, c = call.buffers[j]
        PROVE  /\ c \in DOMAIN log /\ Len(log[c]) \in Nat
               /\ Ahead(call, j) \in Nat /\ Ahead(call, j) <= Len(log[c])
               /\ call.current[j] = Back(buffer[c].next_index, Ahead(call, j))
               /\ j \in Left(call) <=> Ahead(call, j) > 0
               /\ Ahead(call, j) > 0 =>
                    EventAt(call, j) = Recorded(log[c][Len(log[c]) - Ahead(call, j) + 1])
    <3>1. call.current[j] \in Slots /\ Ahead(call, j) \in 0..Kept(c)
      BY <2>1 DEF Merging
    <3>2. c \in DOMAIN log
      BY <1>0, <2>1
    <3>3. Ahead(call, j) \in Nat
      BY <3>1, <3>2, RetainedIs
    <3>4. QED
      BY <2>1, <3>1, <3>3, EventLeft
  <2>2. QED
    BY <2>1
<1>2. i \in DOMAIN call.buffers
  BY DEF Left
<1>3. \A j \in DOMAIN call.buffers : \A k \in 1..Len(log[call.buffers[j]]) :
        log[call.buffers[j]][k] \in Nat
  BY <1>1, Logs
<1>4. Ahead(call, i) \in 1..Len(log[b]) /\ first(i) \in Nat
  <2>1. Ahead(call, i) \in 1..Len(log[b])
    BY <1>1, <1>2
  <2>2. Len(log[b]) - Ahead(call, i) + 1 \in 1..Len(log[b])
    BY <1>1, <1>2, <2>1
  <2>3. QED
    BY <1>2, <1>3, <2>1, <2>2
<1>5. first(i) \in ToPrint(call)
  <2>1. Len(log[b]) - Ahead(call, i) + 1 \in (Len(log[b]) - Ahead(call, i) + 1)..Len(log[b])
    BY <1>1, <1>2, <1>4
  <2>2. first(i) \in Latest(call.buffers[i], Ahead(call, i))
    BY <2>1 DEF Latest
  <2> HIDE DEF first
  <2>3. QED
    BY <1>2, <1>4, <2>2 DEF ToPrint
<1>6. ASSUME NEW y \in ToPrint(call) PROVE first(i) <= y
  <2>1. PICK j \in DOMAIN call.buffers : y \in Latest(call.buffers[j], Ahead(call, j))
    BY DEF ToPrint
  <2> PICK c : c = call.buffers[j]
    OBVIOUS
  <2>2. PICK k \in (Len(log[c]) - Ahead(call, j) + 1)..Len(log[c]) : y = log[c][k]
    BY <2>1 DEF Latest
  <2>3. /\ c \in DOMAIN log /\ Len(log[c]) \in Nat /\ DOMAIN log[c] = 1..Len(log[c])
        /\ Ahead(call, j) > 0 /\ j \in Left(call) /\ k \in 1..Len(log[c])
        /\ Len(log[c]) - Ahead(call, j) + 1 \in 1..Len(log[c])
        /\ Len(log[c]) - Ahead(call, j) + 1 <= k
    <3>1. /\ c \in DOMAIN log /\ Len(log[c]) \in Nat /\ DOMAIN log[c] = 1..Len(log[c])
          /\ Ahead(call, j) \in Nat /\ Ahead(call, j) <= Len(log[c])
          /\ j \in Left(call) <=> Ahead(call, j) > 0
      BY <1>1, Logs
    <3>2. Ahead(call, j) > 0
      BY <2>2, <3>1
    <3>3. QED
      BY <2>2, <3>1, <3>2
  <2>4. first(j) \in Nat /\ y \in Nat /\ first(j) <= y
    <3>1. /\ log[c][Len(log[c]) - Ahead(call, j) + 1] \in Nat /\ log[c][k] \in Nat
          /\ Len(log[c]) - Ahead(call, j) + 1 < k =>
               log[c][Len(log[c]) - Ahead(call, j) + 1] < log[c][k]
      BY <2>3, LogTimes
    <3>2. QED
      BY <2>2, <2>3, <3>1
  <2>5. /\ EventAt(call, i).timestamp = first(i) /\ EventAt(call, j).timestamp = first(j)
    BY <1>1, <1>2, <1>4, <2>3 DEF Recorded
  <2>6. first(i) < first(j) \/ first(i) = first(j)
    BY <2>3, <2>5 DEF Earliest
  <2> HIDE DEF first
  <2>7. QED
    BY <1>4, <2>4, <2>6
<1>7. QED
  BY <1>1, <1>2, <1>4, <1>5, <1>6

-----------------------------------------------------------------------------
\* The latest d events of a buffer without the first of them.
LEMMA LatestLess ==
  ASSUME TraceInv, TimesDiffer, NEW b \in DOMAIN log, NEW d \in 1..Len(log[b]),
         NEW time, time = log[b][Len(log[b]) - d + 1]
  PROVE  /\ d - 1 \in Nat
         /\ \A x : x \in Latest(b, d) <=> x \in Latest(b, d - 1) \/ x = time
         /\ time \notin Latest(b, d - 1)
<1> PICK n : n = Len(log[b])
  OBVIOUS
<1>1. n \in Nat /\ DOMAIN log[b] = 1..n
  BY Logs
<1>2. /\ Latest(b, d) = {log[b][k] : k \in (n - d + 1)..n}
      /\ Latest(b, d - 1) = {log[b][k] : k \in (n - (d - 1) + 1)..n}
  BY DEF Latest
<1>3. \A k : k \in (n - d + 1)..n <=> k \in (n - (d - 1) + 1)..n \/ k = n - d + 1
  BY <1>1
<1>4. \A k \in (n - (d - 1) + 1)..n : time # log[b][k]
  <2>1. ASSUME NEW k \in (n - (d - 1) + 1)..n PROVE time # log[b][k]
    <3>1. k \in DOMAIN log[b] /\ n - d + 1 \in DOMAIN log[b] /\ n - d + 1 < k
      BY <1>1
    <3>2. /\ log[b][n - d + 1] < log[b][k]
          /\ log[b][n - d + 1] \in Nat /\ log[b][k] \in Nat
      BY <3>1, LogTimes
    <3>3. QED
      BY <3>2
  <2>2. QED
    BY <2>1
<1>5. \A x : x \in Latest(b, d) <=> x \in Latest(b, d - 1) \/ x = time
  BY <1>2, <1>3
<1>6. QED
  BY <1>1, <1>2, <1>4, <1>5

\* The index of the event printed moves on.
LEMMA PassOne ==
  ASSUME TraceInv, NEW b \in DOMAIN log, NEW d \in 1..Kept(b), NEW old, NEW call, NEW i,
         b = call.buffers[i], old.current[i] = Back(buffer[b].next_index, d),
         call.current[i] = Following(old.current[i])
  PROVE  /\ call.current[i] \in Slots /\ Ahead(call, i) = d - 1
         /\ d - 1 \in 0..Kept(b)
<1> PICK next \in Slots : next = buffer[b].next_index
  BY Logs
<1>1. Kept(b) < BUFFER_SIZE /\ BUFFER_SIZE \in Nat \ {0} /\ Kept(b) \in Nat
  BY RetainedIs, Logs, TraceAssumption
<1>2. /\ d \in 1..BUFFER_SIZE /\ d - 1 \in 0..(BUFFER_SIZE - 1)
      /\ d - 1 \in 0..BUFFER_SIZE /\ d - 1 \in 0..Kept(b)
  BY <1>1
<1>3. call.current[i] = Back(next, d - 1) /\ Back(next, d - 1) \in Slots
  BY <1>2, StepsBack
<1>4. Ahead(call, i) = d - 1
  BY <1>2, <1>3, AheadIs
<1>5. QED
  BY <1>2, <1>3, <1>4

LEMMA EmitRight ==
  ASSUME TraceInv, Rings, TimesDiffer, CallsShaped, NEW t \in Threads, PrintRight(t),
         Emit(t)
  PROVE  PrintRight(t)'
<1>1. UNCHANGED <<frozen, buffer, rec, log>> /\ DOMAIN log = 1..Len(buffer)
  BY Logs DEF Emit
<1> PICK old : old = pr[t]
  OBVIOUS
<1> PICK call : call = pr'[t]
  OBVIOUS
<1>2. /\ old.pc = "emit" /\ call.pc = "emit" /\ call.clean = old.clean
      /\ call.buffers = old.buffers
  BY EmitFields
<1>3. \E i \in Left(old) :
        /\ Earliest(old, i)
        /\ call.printed = Append(old.printed, EventAt(old, i))
        /\ call.current = [old.current EXCEPT ![i] = Following(@)]
  BY EmitFields
<1>4. CASE ~call.clean
  BY <1>4 DEF PrintRight
<1>5. CASE call.clean
  <2>1. frozen /\ (\A u \in Threads : ~Recording(u)) /\ Listed(old) /\ Merging(old)
    BY <1>2, <1>5, Zenon DEF PrintRight
  <2>0. PICK i \in Left(old) :
        /\ Earliest(old, i)
        /\ call.printed = Append(old.printed, EventAt(old, i))
        /\ call.current = [old.current EXCEPT ![i] = Following(@)]
    BY <1>3
  <2> PICK b : b = old.buffers[i]
    OBVIOUS
  <2> PICK d : d = Ahead(old, i)
    OBVIOUS
  <2>2. PICK time \in ToPrint(old) :
          /\ b \in DOMAIN log /\ d \in 1..Len(log[b]) /\ Len(log[b]) \in Nat
          /\ old.current[i] = Back(buffer[b].next_index, d)
          /\ EventAt(old, i) = Recorded(time)
          /\ time = log[b][Len(log[b]) - d + 1]
          /\ \A y \in ToPrint(old) : time <= y
    <3>1. i \in Left(old) /\ Earliest(old, i)
      BY <2>0
    <3>2. QED
      BY <2>1, <3>1, NextToPrint
  <2>3. i \in DOMAIN old.buffers /\ time \in Nat
    BY <2>0 DEF Left, ToPrint
  <2>4. Listed(call)
    BY <1>2, <2>0, <2>1 DEF Listed
  <2>5. /\ call.current[i] \in Slots /\ Ahead(call, i) = d - 1
        /\ d - 1 \in 0..Kept(b)
    <3>1. d \in 1..Kept(b)
      <4>1. d \in 0..Kept(b)
        BY <2>1, <2>3 DEF Merging
      <4>2. QED
        BY <2>2, <4>1
    <3>2. call.current[i] = Following(old.current[i])
      BY <2>0, <2>1, <2>3 DEF Listed
    <3>3. b = call.buffers[i]
      BY <1>2
    <3>4. b \in DOMAIN log /\ old.current[i] = Back(buffer[b].next_index, d)
      BY <2>2
    <3>5. QED
      BY <3>1, <3>2, <3>3, <3>4, PassOne
  <2>6. \A j \in DOMAIN old.buffers : j # i =>
          call.current[j] = old.current[j] /\ Ahead(call, j) = Ahead(old, j)
    BY <1>2, <2>0, <2>1 DEF Listed, Ahead
  <2>7. \A y : y \in ToPrint(call) <=> y \in ToPrint(old) /\ y # time
    <3>1. ASSUME NEW j \in DOMAIN old.buffers, j # i
          PROVE  time \notin Latest(old.buffers[j], Ahead(old, j))
      <4> PICK c : c = old.buffers[j]
        OBVIOUS
      <4>1. c \in DOMAIN log /\ c # b
        BY <1>1, <2>1, <2>3, <3>1 DEF Listed
      <4>2. /\ Ahead(old, j) \in 0..Len(log[c]) /\ Len(log[c]) \in Nat
            /\ DOMAIN log[c] = 1..Len(log[c]) /\ DOMAIN log[b] = 1..Len(log[b])
        <5>1. Ahead(old, j) \in 0..Kept(c)
          BY <2>1 DEF Merging
        <5>2. Kept(c) \in 0..Len(log[c])
          BY <4>1, RetainedIs
        <5>3. /\ Len(log[c]) \in Nat
              /\ DOMAIN log[c] = 1..Len(log[c]) /\ DOMAIN log[b] = 1..Len(log[b])
          BY <2>2, <4>1, Logs
        <5>4. Ahead(old, j) \in 0..Len(log[c])
          BY <5>1, <5>2, <5>3
        <5>5. QED
          BY <5>3, <5>4
      <4>3. \A k \in (Len(log[c]) - Ahead(old, j) + 1)..Len(log[c]) : k \in DOMAIN log[c]
        BY <4>2
      <4>4. Len(log[b]) - d + 1 \in DOMAIN log[b]
        <5>1. \A m \in Nat : \A e \in 1..m : m - e + 1 \in 1..m
          OBVIOUS
        <5>2. d \in 1..Len(log[b]) /\ Len(log[b]) \in Nat
          BY <2>2
        <5>3. QED
          BY <4>2, <5>1, <5>2
      <4>5. \A k \in DOMAIN log[c] : time # log[c][k]
        BY <2>2, <4>1, <4>4, LogTimes
      <4>6. QED
        BY <4>3, <4>5 DEF Latest
    <3>2. /\ \A x : x \in Latest(b, d) <=> x \in Latest(b, d - 1) \/ x = time
          /\ time \notin Latest(b, d - 1)
      BY <2>2, LatestLess
    <3>3. /\ \A y : y \in ToPrint(old) <=>
                    /\ y \in Nat
                    /\ \E j \in DOMAIN old.buffers : y \in Latest(old.buffers[j], Ahead(old, j))
          /\ \A y : y \in ToPrint(call) <=>
                    /\ y \in Nat
                    /\ \E j \in DOMAIN old.buffers : y \in Latest(old.buffers[j], Ahead(call, j))
      BY <1>2 DEF ToPrint
    <3>4. ASSUME NEW y \in ToPrint(call) PROVE y \in ToPrint(old) /\ y # time
      <4>1. PICK j \in DOMAIN old.buffers :
              y \in Nat /\ y \in Latest(old.buffers[j], Ahead(call, j))
        BY <3>3
      <4>2. CASE j = i
        BY <2>3, <2>5, <3>2, <3>3, <4>1, <4>2
      <4>3. CASE j # i
        BY <2>6, <3>1, <3>3, <4>1, <4>3
      <4>4. QED
        BY <4>2, <4>3
    <3>5. ASSUME NEW y \in ToPrint(old), y # time PROVE y \in ToPrint(call)
      <4>1. PICK j \in DOMAIN old.buffers :
              y \in Nat /\ y \in Latest(old.buffers[j], Ahead(old, j))
        BY <3>3
      <4>2. CASE j = i
        BY <2>3, <2>5, <3>2, <3>3, <3>5, <4>1, <4>2
      <4>3. CASE j # i
        BY <2>6, <3>3, <4>1, <4>3
      <4>4. QED
        BY <4>2, <4>3
    <3>6. QED
      BY <3>4, <3>5
  <2>8. call.printed = Append(old.printed, Recorded(time)) /\ old.printed \in Seq(Event)
    BY <2>0, <2>1, <2>2 DEF Merging
  <2> PICK n : n = Len(old.printed)
    OBVIOUS
  <2>9. /\ call.printed \in Seq(Event) /\ n \in Nat
        /\ DOMAIN old.printed = 1..n /\ DOMAIN call.printed = 1..(n + 1)
        /\ call.printed[n + 1] = Recorded(time)
        /\ \A k \in 1..n : call.printed[k] = old.printed[k]
    <3>1. Recorded(time) \in Event
      BY <2>3 DEF Recorded, Event
    <3>2. QED
      BY <2>8, <3>1
  <2>10. \A k \in 1..(n + 1) : k \in 1..n \/ k = n + 1
    BY <2>9
  <2>11. Recorded(time).timestamp = time
    BY DEF Recorded
  <2>12. \A x : x \in Printed(call) <=> x \in Printed(old) \/ x = time
    <3>1. n + 1 \in 1..(n + 1) /\ \A k \in 1..n : k \in 1..(n + 1)
      BY <2>9
    <3>2. /\ Printed(old) = {old.printed[k].timestamp : k \in 1..n}
          /\ Printed(call) = {call.printed[k].timestamp : k \in 1..(n + 1)}
      BY <2>9 DEF Printed
    <3>3. /\ \A k \in 1..n : call.printed[k].timestamp = old.printed[k].timestamp
          /\ call.printed[n + 1].timestamp = time
      BY <2>9, <2>11
    <3>4. ASSUME NEW x \in Printed(call) PROVE x \in Printed(old) \/ x = time
      <4>1. PICK k \in 1..(n + 1) : x = call.printed[k].timestamp
        BY <3>2
      <4>2. QED
        BY <2>10, <3>2, <3>3, <4>1
    <3>5. \A x \in Printed(old) : x \in Printed(call)
      <4>1. ASSUME NEW x \in Printed(old) PROVE x \in Printed(call)
        <5>1. PICK k \in 1..n : x = old.printed[k].timestamp
          BY <3>2
        <5>2. k \in 1..(n + 1) /\ x = call.printed[k].timestamp
          BY <3>1, <3>3, <5>1
        <5>3. QED
          BY <3>2, <5>2
      <4>2. QED
        BY <4>1
    <3>6. time \in Printed(call)
      BY <3>1, <3>2, <3>3
    <3>7. QED
      BY <3>4, <3>5, <3>6
  <2>13. Merging(call)
    <3>1. \A j \in DOMAIN call.buffers :
            call.current[j] \in Slots /\ Ahead(call, j) \in 0..Kept(call.buffers[j])
      BY <1>2, <2>1, <2>5, <2>6 DEF Merging
    <3>2. \A k \in DOMAIN call.printed :
            call.printed[k] = Recorded(call.printed[k].timestamp)
      BY <2>1, <2>9, <2>10, <2>11 DEF Merging
    <3>3. \A k, m \in DOMAIN call.printed :
            k < m => call.printed[k].timestamp < call.printed[m].timestamp
      <4>1. \A k, m \in 1..n : k < m => old.printed[k].timestamp < old.printed[m].timestamp
        BY <2>1, <2>9 DEF Merging
      <4>2. \A k \in 1..n : old.printed[k].timestamp < time
        BY <2>1, <2>9 DEF Merging, Printed
      <4>3. ASSUME NEW k \in 1..(n + 1), NEW m \in 1..(n + 1), k < m
            PROVE  call.printed[k].timestamp < call.printed[m].timestamp
        <5>1. k \in 1..n /\ (m \in 1..n \/ m = n + 1)
          BY <2>9, <4>3
        <5>2. QED
          <6>1. call.printed[k].timestamp = old.printed[k].timestamp
            BY <2>9, <5>1
          <6>2. CASE m \in 1..n
            BY <2>9, <4>1, <4>3, <5>1, <6>1, <6>2
          <6>3. CASE m = n + 1
            BY <2>9, <2>11, <4>2, <5>1, <6>1, <6>3
          <6>4. QED
            BY <5>1, <6>2, <6>3
      <4>4. QED
        BY <2>9, <4>3
    <3>4. Printed(call) \cup ToPrint(call) = Expected(call.buffers)
      <4>1. Printed(old) \cup ToPrint(old) = Expected(call.buffers)
        BY <1>2, <2>1 DEF Merging
      <4>2. QED
        BY <2>7, <2>12, <4>1
    <3>5. \A x \in Printed(call), y \in ToPrint(call) : x < y
      <4>1. \A x \in Printed(old), y \in ToPrint(call) : x < y
        BY <2>1, <2>7 DEF Merging
      <4>2. \A y \in ToPrint(call) : time < y
        <5>1. \A y \in ToPrint(call) : y \in Nat /\ time <= y /\ y # time
          BY <2>2, <2>7 DEF ToPrint
        <5>2. QED
          BY <2>3, <5>1
      <4>3. QED
        BY <2>12, <4>1, <4>2
    <3>6. QED
      BY <2>9, <3>1, <3>2, <3>3, <3>4, <3>5 DEF Merging
  <2>14. frozen' /\ Quiet
    BY <1>1, <2>1, StepOfPrint
  <2>15. Listed(call)' /\ Merging(call)'
    BY <2>4, <2>13, <2>14, CallKept
  <2>16. QED
    BY <1>2, <2>14, <2>15 DEF PrintRight, Quiet
<1>6. QED
  BY <1>4, <1>5

-----------------------------------------------------------------------------
PrintsRight == CallsShaped /\ \A t \in Threads : PrintRight(t)

\* What the rest of the program does while a print is undisturbed.
LEMMA OthersQuiet ==
  ASSUME TraceInv, NEW t \in Threads, frozen, \A u \in Threads : ~Recording(u),
         \/ NewBuffer(t) \/ ShareBuffer(t) \/ Destroy(t) \/ Cleanup(t) \/ Freeze(t)
         \/ Rdtsc(t) \/ TestFrozen(t) \/ TakeSlot(t) \/ StoreTimestamp(t)
         \/ StoreFormat(t) \/ PrintInternal(t)
  PROVE  frozen' /\ Quiet
<1>1. /\ Len(buffer) \in Nat /\ Len(log) = Len(buffer) /\ DOMAIN log = 1..Len(buffer)
      /\ buffer \in Seq(Ring) /\ log \in Seq(Seq(Nat)) /\ rec \in [Threads -> Calls]
      /\ DOMAIN buffer = 1..Len(buffer)
  BY Logs DEF TraceInv, TraceType
<1>2. CASE NewBuffer(t)
  <2>1. \E ring : buffer' = Append(buffer, ring)
    BY <1>2 DEF NewBuffer
  <2>2. \E times : log' = Append(log, times)
    BY <1>2 DEF NewBuffer
  <2>3. /\ Len(buffer') = Len(buffer) + 1
        /\ \A b \in 1..Len(buffer) : buffer'[b] = buffer[b] /\ log'[b] = log[b]
    BY <1>1, <2>1, <2>2
  <2>4. frozen' /\ rec' = rec
    BY <1>2 DEF NewBuffer
  <2>5. \A u \in Threads : ~Recording(u)'
    BY <2>4 DEF Recording
  <2>6. Len(buffer') \in Nat /\ Len(buffer) <= Len(buffer')
    BY <1>1, <2>3
  <2>7. QED
    BY <1>1, <2>3, <2>4, <2>5, <2>6 DEF Quiet
<1>3. CASE ShareBuffer(t) \/ Destroy(t)
  <2>1. log' = log /\ rec' = rec /\ frozen' = frozen
    BY <1>3 DEF ShareBuffer, Destroy
  <2>2. /\ Len(buffer') = Len(buffer)
        /\ \A b \in 1..Len(buffer) : /\ buffer'[b].events = buffer[b].events
                                     /\ buffer'[b].next_index = buffer[b].next_index
    BY <1>1, <1>3, CountOnly
  <2>3. QED
    BY <1>1, <2>1, <2>2 DEF Quiet, Recording
<1>4. CASE Cleanup(t) \/ Freeze(t) \/ PrintInternal(t)
  <2>1. log' = log /\ rec' = rec /\ buffer' = buffer /\ frozen'
    BY <1>4 DEF Cleanup, Freeze, PrintInternal
  <2>2. QED
    BY <1>1, <2>1 DEF Quiet, Recording
<1>5. CASE Rdtsc(t) \/ TestFrozen(t)
  <2>1. log' = log /\ buffer' = buffer /\ frozen' = frozen
    BY <1>5 DEF Rdtsc, TestFrozen
  <2>2. /\ \A u \in Threads : u # t => rec'[u] = rec[u]
        /\ rec'[t].pc \in {"none", "test"}
    <3>1. CASE Rdtsc(t)
      BY <1>1, <3>1 DEF Rdtsc
    <3>2. CASE TestFrozen(t)
      BY <1>1, <3>2 DEF TestFrozen, NoRecord
    <3>3. QED
      BY <1>5, <3>1, <3>2
  <2>3. \A u \in Threads : ~Recording(u)'
    BY <2>2 DEF Recording
  <2>4. QED
    BY <1>1, <2>1, <2>3 DEF Quiet
<1>6. ~(TakeSlot(t) \/ StoreTimestamp(t) \/ StoreFormat(t))
  BY DEF TakeSlot, StoreTimestamp, StoreFormat, Recording
<1>7. QED
  BY <1>2, <1>3, <1>4, <1>5, <1>6

LEMMA PrintStep ==
  ASSUME TraceInv, Rings, TimesDiffer, PrintsRight, [Next]_vars
  PROVE  PrintsRight'
<1>0. /\ CallsShaped /\ \A u \in Threads : PrintRight(u)
      /\ \A u \in Threads : pr[u].pc # "none" /\ pr[u].clean =>
           frozen /\ \A v \in Threads : ~Recording(v)
  BY DEF PrintsRight, PrintRight
<1>1. ASSUME NEW t \in Threads,
             \/ NewBuffer(t) \/ ShareBuffer(t) \/ Destroy(t) \/ Freeze(t) \/ Rdtsc(t)
             \/ TestFrozen(t) \/ TakeSlot(t) \/ StoreTimestamp(t) \/ StoreFormat(t)
      PROVE  PrintsRight'
  <2>1. pr' = pr
    BY <1>1 DEF NewBuffer, ShareBuffer, Destroy, Freeze, Rdtsc, TestFrozen, TakeSlot,
                StoreTimestamp, StoreFormat
  <2>2. CallsShaped'
    BY <1>0, <2>1 DEF CallsShaped, CallShape
  <2>3. ASSUME NEW u \in Threads PROVE PrintRight(u)'
    <3>1. pr[u].pc # "none" /\ pr[u].clean => frozen' /\ Quiet
      BY <1>0, <1>1, OthersQuiet
    <3>2. QED
      BY <1>0, <2>1, <3>1, PrintKept
  <2>4. QED
    BY <2>2, <2>3 DEF PrintsRight
<1>2. ASSUME NEW t \in Threads, Copy(t) \/ Start(t) \/ Skip(t) \/ Emit(t)
      PROVE  PrintsRight'
  <2>1. CallsShaped' /\ \A u \in Threads : u # t => pr'[u] = pr[u]
    BY <1>0, <1>2, CopyFields, StartFields, SkipFields, EmitFields
  <2>2. PrintRight(t)'
    BY <1>0, <1>2, CopyRight, StartRight, SkipRight, EmitRight
  <2>3. ASSUME NEW u \in Threads, u # t PROVE PrintRight(u)'
    <3>1. UNCHANGED <<frozen, buffer, rec, log>>
      BY <1>2 DEF Copy, Start, Skip, Emit
    <3>2. pr[u].pc # "none" /\ pr[u].clean => frozen' /\ Quiet
      BY <1>0, <3>1, StepOfPrint
    <3>3. QED
      BY <1>0, <2>1, <2>3, <3>2, PrintKept
  <2>4. QED
    BY <2>1, <2>2, <2>3 DEF PrintsRight
<1>3. ASSUME NEW t \in Threads, PrintInternal(t)
      PROVE  PrintsRight'
  <2>1. /\ CallsShaped' /\ \A u \in Threads : u # t => pr'[u] = pr[u]
        /\ pr'[t].pc = "copy" /\ pr'[t].printed = <<>>
        /\ pr'[t].clean => \A u \in Threads : ~Recording(u)
    BY <1>0, <1>3, PrintInternalFields
  <2>2. PrintRight(t)'
    <3>1. frozen' /\ rec' = rec
      BY <1>3 DEF PrintInternal
    <3>2. pr'[t].clean => \A u \in Threads : ~Recording(u)'
      BY <2>1, <3>1 DEF Recording
    <3>3. QED
      BY <2>1, <3>1, <3>2 DEF PrintRight
  <2>3. ASSUME NEW u \in Threads, u # t PROVE PrintRight(u)'
    <3>1. pr[u].pc # "none" /\ pr[u].clean => frozen' /\ Quiet
      BY <1>0, <1>3, OthersQuiet
    <3>2. QED
      BY <1>0, <2>1, <2>3, <3>1, PrintKept
  <2>4. QED
    BY <2>1, <2>2, <2>3 DEF PrintsRight
<1>4. ASSUME NEW t \in Threads, Return(t) \/ Cleanup(t)
      PROVE  PrintsRight'
  <2>1. \A u \in Threads :
          /\ pr'[u] = pr[u] \/ pr'[u].clean = FALSE \/ pr'[u].pc = "none"
          /\ Return(t) => pr'[u].clean = FALSE \/ pr'[u].pc = "none"
          /\ CallShape(pr[u])'
          /\ pr' = [v \in Threads |-> pr'[v]]
    BY <1>0, <1>4, DisturbedFields
  <2>2. CallsShaped'
    BY <2>1 DEF CallsShaped
  <2>3. ASSUME NEW u \in Threads PROVE PrintRight(u)'
    <3>1. CASE pr'[u].clean = FALSE \/ pr'[u].pc = "none"
      BY <3>1 DEF PrintRight
    <3>2. CASE Cleanup(t) /\ pr'[u] = pr[u]
      <4>1. pr[u].pc # "none" /\ pr[u].clean => frozen' /\ Quiet
        BY <1>0, <3>2, OthersQuiet
      <4>2. QED
        BY <1>0, <3>2, <4>1, PrintKept
    <3>3. QED
      BY <1>4, <2>1, <3>1, <3>2
  <2>4. QED
    BY <2>2, <2>3 DEF PrintsRight
<1>5. CASE UNCHANGED vars
  <2>1. UNCHANGED <<frozen, buffer, rec, log>> /\ pr' = pr
    BY <1>5 DEF vars
  <2>2. CallsShaped'
    BY <1>0, <2>1 DEF CallsShaped, CallShape
  <2>3. ASSUME NEW u \in Threads PROVE PrintRight(u)'
    <3>1. pr[u].pc # "none" /\ pr[u].clean => frozen' /\ Quiet
      BY <1>0, <2>1, StepOfPrint
    <3>2. QED
      BY <1>0, <2>1, <3>1, PrintKept
  <2>4. QED
    BY <2>2, <2>3 DEF PrintsRight
<1>6. CASE Next
  BY <1>1, <1>2, <1>3, <1>4, <1>6 DEF Next, Proceed
<1>7. QED
  BY <1>5, <1>6

-----------------------------------------------------------------------------
\* A list of numbers that increases is the sorted list of its elements.
LEMMA Enumerated ==
  ASSUME NEW n \in Nat, NEW f \in [1..n -> Nat], NEW S, S = {f[k] : k \in 1..n},
         \A i, j \in 1..n : i < j => f[i] < f[j]
  PROVE  DOMAIN Sorted(S) = 1..n /\ \A k \in 1..n : Sorted(S)[k] = f[k]
<1>1. \A i, j \in 1..n : f[i] = f[j] => i = j
  <2>1. \A i, j \in 1..n : i < j \/ j < i \/ i = j
    OBVIOUS
  <2>2. \A i \in 1..n : f[i] \in Nat
    OBVIOUS
  <2>3. QED
    BY <2>1, <2>2
<1>2. \A m \in Nat : IsFiniteSet(1..m) /\ Cardinality(1..m) = m
  BY FS_Interval
<1>3. ASSUME NEW m \in 0..n, NEW T, T = {f[k] : k \in 1..m}
      PROVE  IsFiniteSet(T) /\ Cardinality(T) = m
  <2> DEFINE g == [k \in 1..m |-> f[k]]
  <2>1. 1..m \subseteq 1..n /\ m \in Nat
    OBVIOUS
  <2>2. g \in Bijection(1..m, T)
    <3>1. \A k \in 1..m : g[k] = f[k] /\ f[k] \in T
      BY <1>3
    <3>2. g \in [1..m -> T]
      BY <3>1
    <3>3. \A i, j \in 1..m : g[i] = g[j] => i = j
      BY <1>1, <2>1, <3>1
    <3>4. \A x \in T : \E k \in 1..m : g[k] = x
      BY <1>3, <3>1
    <3> HIDE DEF g
    <3>5. g \in Injection(1..m, T)
      BY <3>2, <3>3 DEF Injection, IsInjective
    <3>6. g \in Surjection(1..m, T)
      BY <3>2, <3>4 DEF Surjection
    <3>7. QED
      BY <3>5, <3>6 DEF Bijection
  <2> HIDE DEF g
  <2>3. QED
    BY <1>2, <2>1, <2>2, FS_Bijection DEF ExistsBijection
<1>4. S \subseteq Nat /\ IsFiniteSet(S) /\ Cardinality(S) = n
  <2>1. n \in 0..n
    OBVIOUS
  <2>2. QED
    BY <1>3, <2>1
<1>5. \A k \in 1..n : Cardinality({y \in S : y <= f[k]}) = k
  <2>1. ASSUME NEW k \in 1..n PROVE Cardinality({y \in S : y <= f[k]}) = k
    <3>1. \A j \in 1..n : f[j] <= f[k] <=> j \in 1..k
      <4>1. \A j \in 1..n : /\ j < k => f[j] < f[k]
                            /\ k < j => f[k] < f[j]
                            /\ f[j] \in Nat
        OBVIOUS
      <4>2. \A j \in 1..n : j < k \/ k < j \/ j = k
        OBVIOUS
      <4>3. \A j \in 1..n : j \in 1..k <=> j <= k
        OBVIOUS
      <4>4. QED
        BY <4>1, <4>2, <4>3
    <3>2. \A j \in 1..k : j \in 1..n
      OBVIOUS
    <3>3. {y \in S : y <= f[k]} = {f[j] : j \in 1..k}
      BY <3>1, <3>2
    <3>4. k \in 0..n
      OBVIOUS
    <3>5. QED
      BY <1>3, <3>3, <3>4
  <2>2. QED
    BY <2>1
<1>6. DOMAIN Sorted(S) = 1..n
  BY <1>4, SortedLists
<1>7. ASSUME NEW k \in 1..n PROVE Sorted(S)[k] = f[k]
  <2>1. Sorted(S)[k] \in S /\ Cardinality({y \in S : y <= Sorted(S)[k]}) = k
    <3>1. Sorted(S) \in Seq(S) /\ k \in DOMAIN Sorted(S)
      BY <1>4, <1>6, SortedLists
    <3>2. Sorted(S)[k] \in S
      <4>1. \A R : \A list \in Seq(R) : \A m \in DOMAIN list : list[m] \in R
        OBVIOUS
      <4>2. QED
        BY <3>1, <4>1, Zenon
    <3>3. \A m \in DOMAIN Sorted(S) : Cardinality({y \in S : y <= Sorted(S)[m]}) = m
      BY <1>4, SortedLists, Zenon
    <3>4. QED
      BY <3>1, <3>2, <3>3
  <2>2. PICK j \in 1..n : Sorted(S)[k] = f[j]
    BY <2>1
  <2>3. j = k
    BY <1>5, <2>1, <2>2
  <2>4. QED
    BY <2>2, <2>3
<1>8. QED
  BY <1>6, <1>7

\* When nothing is left, everything expected has been printed.
LEMMA PrintedWhole ==
  ASSUME TraceInv, Rings, TimesDiffer, NEW call, Listed(call), Merging(call),
         \A u \in Threads : ~Recording(u), Left(call) = {},
         NEW times, times = Sorted(Expected(call.buffers))
  PROVE  call.printed = [n \in DOMAIN times |-> Recorded(times[n])]
<1>1. ToPrint(call) = {}
  <2>1. ASSUME NEW i \in DOMAIN call.buffers, NEW b, b = call.buffers[i]
        PROVE  Latest(b, Ahead(call, i)) = {}
    <3>1. call.current[i] \in Slots /\ Ahead(call, i) \in 0..Kept(b)
      BY <2>1 DEF Merging
    <3>2. b \in DOMAIN log
      BY <2>1, Logs DEF Listed
    <3>3. Kept(b) \in 0..Len(log[b]) /\ Len(log[b]) \in Nat
      BY <3>2, RetainedIs, Logs
    <3>4. ~(Ahead(call, i) > 0)
      BY <2>1, <3>1, EventLeft
    <3>5. Ahead(call, i) = 0
      BY <3>1, <3>3, <3>4
    <3>6. 0 \in 0..Len(log[b])
      BY <3>3
    <3>7. QED
      BY <3>2, <3>5, <3>6, LatestIs
  <2>2. QED
    BY <2>1 DEF ToPrint
<1>2. Printed(call) = Expected(call.buffers)
  BY <1>1 DEF Merging
<1> PICK n : n = Len(call.printed)
  OBVIOUS
<1>3. PICK f : f = [k \in 1..n |-> call.printed[k].timestamp]
  OBVIOUS
<1>4. n \in Nat /\ DOMAIN call.printed = 1..n /\ call.printed \in [1..n -> Event]
  BY LenProperties DEF Merging
<1>5. f \in [1..n -> Nat]
  BY <1>4, <1>3 DEF Event
<1>6. \A i, j \in 1..n : i < j => f[i] < f[j]
  BY <1>4, <1>5, <1>3 DEF Merging
<1>7. Expected(call.buffers) = {f[k] : k \in 1..n}
  <2>1. Printed(call) = {call.printed[k].timestamp : k \in 1..n}
    BY <1>4 DEF Printed
  <2>2. \A k \in 1..n : f[k] = call.printed[k].timestamp
    BY <1>3
  <2>3. QED
    BY <1>2, <2>1, <2>2
<1>8. DOMAIN times = 1..n /\ \A k \in 1..n : times[k] = f[k]
  <2> PICK S : S = Expected(call.buffers)
    OBVIOUS
  <2>1. S = {f[k] : k \in 1..n} /\ times = Sorted(S)
    BY <1>7
  <2>2. DOMAIN Sorted(S) = 1..n /\ \A k \in 1..n : Sorted(S)[k] = f[k]
    <3>1. n \in Nat /\ S = {f[k] : k \in 1..n}
      BY <1>4, <2>1
    <3>2. QED
      BY <1>5, <1>6, <3>1, Enumerated
  <2>3. QED
    BY <2>1, <2>2
<1>9. \A k \in 1..n : call.printed[k] = Recorded(times[k])
  BY <1>4, <1>8, <1>3 DEF Merging
<1>10. QED
  BY <1>4, <1>8, <1>9

LEMMA PrintsInitial ==
  ASSUME Init PROVE Rings /\ TimesDiffer /\ PrintsRight
<1>1. log = <<>> /\ DOMAIN log = {}
  BY DEF Init
<1>2. \A t \in Threads : rec[t] = NoRecord /\ pr[t] = NoPrint
  BY DEF Init
<1>3. Rings
  BY <1>1, <1>2 DEF Rings, SlotTaken, Filling, NoRecord
<1>4. TimesDiffer
  BY <1>1, <1>2 DEF TimesDiffer, NoRecord
<1>5. CallsShaped
  BY <1>2 DEF CallsShaped, CallShape, NoPrint, Init
<1>6. \A t \in Threads : PrintRight(t)
  BY <1>2 DEF PrintRight, NoPrint
<1>7. QED
  BY <1>3, <1>4, <1>5, <1>6 DEF PrintsRight

\* CompletePrint: a print that nobody disturbs shows every event retained since
\* the time from which no buffer has lost any, each once, whole and in order,
\* wherever the rings have wrapped and whatever threads begin meanwhile.
THEOREM PrintsComplete == Spec => []CompletePrint
<1> DEFINE Inv == TraceInv /\ Rings /\ TimesDiffer /\ PrintsRight
<1>1. Init => Inv
  BY TraceInitial, PrintsInitial
<1>2. Inv /\ [Next]_vars => Inv'
  BY TraceInductive, RingsStep, TimesStep, PrintStep
<1>3. Inv => CompletePrint
  <2>1. ASSUME Inv, NEW t \in Threads, pr[t].pc = "emit", Left(pr[t]) = {}, pr[t].clean,
               NEW times, times = Sorted(Expected(pr[t].buffers))
        PROVE  pr[t].printed = [n \in DOMAIN times |-> Recorded(times[n])]
    <3>1. Listed(pr[t]) /\ Merging(pr[t]) /\ \A u \in Threads : ~Recording(u)
      BY <2>1, Zenon DEF PrintsRight, PrintRight
    <3>2. QED
      BY <2>1, <3>1, PrintedWhole
  <2>2. QED
    BY <2>1 DEF CompletePrint
<1> HIDE DEF Inv
<1>4. QED
  BY <1>1, <1>2, <1>3, PTL DEF Spec
=============================================================================
