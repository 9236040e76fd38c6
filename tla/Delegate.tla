------------------------------- MODULE Delegate -------------------------------
(***************************************************************************)
(* Delegate.scala with the queues MgmtCore.scala puts behind its outputs:  *)
(* 64 byte MMIO writes become translations, configuration or messages to   *)
(* send.  One action is one clock cycle out of reset; take is the set of   *)
(* consumers behind the queues that are ready in that cycle.               *)
(***************************************************************************)
EXTENDS Naturals, Sequences, FiniteSets

CONSTANTS
  Pages,       \* pages of the BAR that are written, 0 is the driver's
  Functions,   \* offsets in the page that are written
  Bodies,      \* the 64 bytes, as far as the properties tell them apart
  MaxWrites    \* bound: number of writes

ASSUME DelegateAssumption ==
  /\ Pages \subseteq Nat /\ Functions \subseteq Nat /\ MaxWrites \in Nat

Consumers == {"scheduler", "prefetcher", "dma"}

AtMostOne(S) == {<<>>} \cup {<<x>> : x \in S}

Writes == [user_id : Pages, user_func : Functions, body : Bodies]

VARIABLES
  function_queue,        \* Queue(1, pipe = true, flow = true)
  dynamicConfiguration,  \* the last configuration, or none
  send_id,
  sendmsg_cb,            \* control block RAM: per id, the message header
  newSendmsgQueue,       \* in front of the scheduler
  newFetchableQueue,     \* in front of the prefetcher
  dmaQueue,              \* queueIn of channel 2 of the address map
  accepted,              \* history: the writes taken from the bus
  served,                \* history: the writes that left function_queue
  scheduled, fetched, returned   \* history: what the consumers took

queues == <<newSendmsgQueue, newFetchableQueue, dmaQueue>>
taken == <<scheduled, fetched, returned>>
vars == <<function_queue, dynamicConfiguration, send_id, sendmsg_cb, queues,
          accepted, served, taken>>

IsMap(w)     == w.user_id = 0 /\ w.user_func = 0
IsConfig(w)  == w.user_id = 0 /\ w.user_func = 64
IsSendmsg(w) == w.user_id # 0 /\ w.user_func = 0
IsRecvmsg(w) == w.user_id # 0 /\ w.user_func = 64

-----------------------------------------------------------------------------
\* A Queue(1, pipe = true) is ready when it is empty or being emptied.
Ready(queue, consumer, take) == queue = <<>> \/ consumer \in take

\* Mutants: the prefetcher's queue is not asked; only the cycle in which all
\* receivers take something will do.
BatchReadyUnfetched(take) ==
  Ready(dmaQueue, "dma", take) /\ Ready(newSendmsgQueue, "scheduler", take)
BatchReadyAllTaking(take) ==
  take = Consumers /\ queues # <<<<>>, <<>>, <<>>>>

\* batchSendmsgReady
BatchReady(take) ==
  /\ Ready(dmaQueue, "dma", take)
  /\ Ready(newSendmsgQueue, "scheduler", take)
  /\ Ready(newFetchableQueue, "prefetcher", take)

\* The flow-through queue shows an arriving write in the same cycle.
Presented(in) == IF function_queue = <<>> THEN in ELSE function_queue

\* function_queue.deq.ready for the write it presents: AddressMap takes a
\* translation in every cycle, and a write of any other kind is not taken.
Dequeues(w, take) ==
  \/ IsMap(w) \/ IsConfig(w)
  \/ IsSendmsg(w) /\ BatchReady(take)

\* A queue after a cycle in which new is offered to it.
After(queue, consumer, take, new) ==
  IF Ready(queue, consumer, take) THEN new ELSE queue

\* What a consumer has after the cycle.
Taken(history, queue, consumer, take) ==
  IF consumer \in take THEN history \o queue ELSE history

Receivers(take, new) ==
  /\ newSendmsgQueue' = After(newSendmsgQueue, "scheduler", take, new)
  /\ newFetchableQueue' = After(newFetchableQueue, "prefetcher", take, new)
  /\ dmaQueue' = After(dmaQueue, "dma", take, new)
  /\ scheduled' = Taken(scheduled, newSendmsgQueue, "scheduler", take)
  /\ fetched' = Taken(fetched, newFetchableQueue, "prefetcher", take)
  /\ returned' = Taken(returned, dmaQueue, "dma", take)

\* Mutant: the write that follows is lost.
LeavesDropping(w, in) ==
  /\ function_queue' = <<>>
  /\ served' = Append(served, w)
  /\ accepted' = accepted \o in

\* The write w, presented in this cycle, leaves the queue; in may follow it.
Leaves(w, in) ==
  /\ function_queue' = IF function_queue = <<>> THEN <<>> ELSE in
  /\ served' = Append(served, w)
  /\ accepted' = accepted \o in

\* What is presented stays; in is accepted if the queue was empty.
Stays(in) ==
  /\ function_queue' = Presented(in)
  /\ accepted' = IF function_queue = <<>> THEN accepted \o in ELSE accepted
  /\ UNCHANGED served

\* The write that is valid at the queue's output, if there is one.
Valid(in) == {Presented(in)[i] : i \in DOMAIN Presented(in)}

-----------------------------------------------------------------------------
\* newDmaMap.fire
MapCycle(w, in, take) ==
  /\ IsMap(w) /\ Dequeues(w, take)
  /\ Leaves(w, in)
  /\ Receivers(take, <<>>)
  /\ UNCHANGED <<dynamicConfiguration, send_id, sendmsg_cb>>

ConfigCycle(w, in, take) ==
  /\ IsConfig(w) /\ Dequeues(w, take)
  /\ dynamicConfiguration' = <<w.body>>
  /\ Leaves(w, in)
  /\ Receivers(take, <<>>)
  /\ UNCHANGED <<send_id, sendmsg_cb>>

\* Mutant: the control block is written under the next id.
SendmsgCycleNextId(w, in, take) ==
  /\ IsSendmsg(w) /\ Dequeues(w, take)
  /\ Leaves(w, in)
  /\ Receivers(take, <<[id |-> send_id, port |-> w.user_id, body |-> w.body]>>)
  /\ sendmsg_cb' = [sendmsg_cb EXCEPT ![send_id + 1] = <<w.body>>]
  /\ UNCHANGED <<dynamicConfiguration, send_id>>

\* A new message: its five outputs are valid in one cycle.  The increments of
\* send_id and dbuff_id are commented out.
SendmsgCycle(w, in, take) ==
  /\ IsSendmsg(w) /\ Dequeues(w, take)
  /\ Leaves(w, in)
  /\ Receivers(take, <<[id |-> send_id, port |-> w.user_id, body |-> w.body]>>)
  /\ sendmsg_cb' = [sendmsg_cb EXCEPT ![send_id] = <<w.body>>]
  /\ UNCHANGED <<dynamicConfiguration, send_id>>

SendmsgWaits(w, in, take) ==
  /\ IsSendmsg(w) /\ ~Dequeues(w, take)
  /\ Stays(in)
  /\ Receivers(take, <<>>)
  /\ UNCHANGED <<dynamicConfiguration, send_id, sendmsg_cb>>

\* recvmsg writes the control block RAM of the sendmsgs, in every cycle.
RecvmsgCycle(w, in, take) ==
  /\ IsRecvmsg(w)
  /\ sendmsg_cb' = [sendmsg_cb EXCEPT ![send_id] = <<w.body>>]
  /\ Stays(in)
  /\ Receivers(take, <<>>)
  /\ UNCHANGED <<dynamicConfiguration, send_id>>

\* No write, or one at an offset without a function.
IdleCycle(in, take) ==
  /\ \A w \in Valid(in) : ~(IsMap(w) \/ IsConfig(w) \/ IsSendmsg(w) \/ IsRecvmsg(w))
  /\ Stays(in)
  /\ Receivers(take, <<>>)
  /\ UNCHANGED <<dynamicConfiguration, send_id, sendmsg_cb>>

Init ==
  /\ function_queue = <<>>
  /\ dynamicConfiguration = <<>>
  /\ send_id = 0
  /\ sendmsg_cb = [id \in 0..MaxWrites |-> <<>>]
  /\ newSendmsgQueue = <<>> /\ newFetchableQueue = <<>> /\ dmaQueue = <<>>
  /\ accepted = <<>> /\ served = <<>>
  /\ scheduled = <<>> /\ fetched = <<>> /\ returned = <<>>

Cycle(in, take) ==
  \/ \E w \in Valid(in) :
       \/ MapCycle(w, in, take)
       \/ ConfigCycle(w, in, take)
       \/ SendmsgCycle(w, in, take)
       \/ SendmsgWaits(w, in, take)
       \/ RecvmsgCycle(w, in, take)
  \/ IdleCycle(in, take)

\* The writes the bus may offer.
Offered == IF Len(accepted) < MaxWrites THEN AtMostOne(Writes) ELSE {<<>>}

Next == \E in \in Offered, take \in SUBSET Consumers : Cycle(in, take)

Spec == Init /\ [][Next]_vars

\* The clock ticks and each consumer is ready again and again; nothing says
\* that they are ready in the same cycle.
CycleTaking(consumer) ==
  \E in \in Offered, take \in SUBSET Consumers : consumer \in take /\ Cycle(in, take)

FairSpec ==
  /\ Spec
  /\ WF_vars(Next)
  /\ \A consumer \in Consumers : WF_vars(CycleTaking(consumer))

-----------------------------------------------------------------------------
\* How many of the first n writes are messages.
Sends(writes, n) == Cardinality({i \in 1..n : IsSendmsg(writes[i])})

\* The messages are those written, each once and in the order of the writes.
Onboards(messages, writes) ==
  /\ Len(messages) = Sends(writes, Len(writes))
  /\ \A i \in DOMAIN writes : IsSendmsg(writes[i]) =>
       LET message == messages[Sends(writes, i)]
       IN  message.port = writes[i].user_id /\ message.body = writes[i].body

\* Every register holds a value of its type.
TypeOK ==
  LET Message == [id : 0..MaxWrites, port : Pages \ {0}, body : Bodies]
  IN  /\ function_queue \in AtMostOne(Writes)
      /\ dynamicConfiguration \in AtMostOne(Bodies)
      /\ send_id \in 0..MaxWrites
      /\ sendmsg_cb \in [0..MaxWrites -> AtMostOne(Bodies)]
      /\ {newSendmsgQueue, newFetchableQueue, dmaQueue} \subseteq AtMostOne(Message)

\* "We wish to onboard a new RPC as one operation": the scheduler, the
\* prefetcher and the DMA engine get the same messages, each once and in the
\* order of the writes, whichever of them is ready when.
OnboardedAsOne ==
  /\ Onboards(scheduled \o newSendmsgQueue, served)
  /\ Onboards(fetched \o newFetchableQueue, served)
  /\ Onboards(returned \o dmaQueue, served)

\* No write is lost, served twice or overtaken: a translation reaches the
\* address map before the messages written after it.
ServedInOrder == accepted = served \o function_queue

\* A message that is offered to the scheduler has its header in the control
\* block RAM under its id, though later messages use the same id.  (A recvmsg
\* writes this RAM too.)
ControlBlockReady ==
  (\A i \in DOMAIN accepted : ~IsRecvmsg(accepted[i])) =>
    \A i \in DOMAIN newSendmsgQueue :
      sendmsg_cb[newSendmsgQueue[i].id] = <<newSendmsgQueue[i].body>>

\* A translation, a configuration or a message does not wait for ever, though
\* its three receivers may be ready only in turn; only a write that no function
\* dequeues holds up the writes behind it.
FunctionsServed ==
  \A n \in 1..MaxWrites :
    (Len(accepted) >= n) ~>
      \/ Len(served) >= n
      \/ \E w \in Valid(<<>>) :
            ~(IsMap(w) \/ IsConfig(w) \/ IsSendmsg(w))
=============================================================================
