---------------------------- MODULE DelegateProofs ----------------------------
(***************************************************************************)
(* The delegate, proved for every number of pages, functions, bodies and   *)
(* writes and every readiness of the receivers.                            *)
(***************************************************************************)
EXTENDS Delegate, Integers, SequenceTheorems, FiniteSetTheorems, TLAPS

Message == [id : 0..MaxWrites, port : Pages \ {0}, body : Bodies]

\* The types of the history variables.
HistoryType ==
  /\ accepted \in Seq(Writes) /\ served \in Seq(Writes)
  /\ scheduled \in Seq(Message) /\ fetched \in Seq(Message) /\ returned \in Seq(Message)

DelegateInv ==
  TypeOK /\ HistoryType /\ ServedInOrder /\ ControlBlockReady /\ OnboardedAsOne

-----------------------------------------------------------------------------
\* A queue of depth one.
LEMMA Register ==
  ASSUME NEW S, NEW q \in AtMostOne(S)
  PROVE  /\ q # <<>> => q[1] \in S /\ q = <<q[1]>> /\ DOMAIN q = 1..1
         /\ q = <<>> => DOMAIN q = {}
         /\ q \in Seq(S)
<1>1. CASE q = <<>>
  BY <1>1
<1>2. CASE q # <<>>
  <2>1. PICK x \in S : q = <<x>>
    BY <1>2 DEF AtMostOne
  <2>2. QED
    BY <2>1
<1>3. QED
  BY <1>1, <1>2

\* What a queue and its consumer have after a cycle is what they had, and what
\* was put into the queue.
LEMMA QueueStep ==
  ASSUME NEW S, NEW history \in Seq(S), NEW queue \in AtMostOne(S), NEW consumer, NEW take,
         NEW new \in AtMostOne(S), new = <<>> \/ Ready(queue, consumer, take)
  PROVE  /\ After(queue, consumer, take, new) \in AtMostOne(S)
         /\ Taken(history, queue, consumer, take) \in Seq(S)
         /\ Taken(history, queue, consumer, take) \o After(queue, consumer, take, new)
              = (history \o queue) \o new
<1>1. queue \in Seq(S) /\ new \in Seq(S)
  BY Register
<1>2. history \o queue \in Seq(S)
  BY <1>1
<1>3. CASE consumer \in take
  BY <1>1, <1>2, <1>3 DEF After, Taken, Ready
<1>4. CASE consumer \notin take /\ queue = <<>>
  BY <1>1, <1>4 DEF After, Taken, Ready
<1>5. CASE consumer \notin take /\ queue # <<>>
  <2>1. new = <<>> /\ ~Ready(queue, consumer, take)
    BY <1>5 DEF Ready
  <2>2. QED
    BY <1>1, <1>2, <1>5, <2>1 DEF After, Taken
<1>6. QED
  BY <1>3, <1>4, <1>5

\* Counting the messages among the writes.
LEMMA SendsFacts ==
  ASSUME NEW writes, NEW n \in Nat
  PROVE  /\ Sends(writes, n) \in 0..n
         /\ Sends(writes, n + 1) =
              IF IsSendmsg(writes[n + 1]) THEN Sends(writes, n) + 1 ELSE Sends(writes, n)
<1> DEFINE A == {i \in 1..n : IsSendmsg(writes[i])}
           B == {i \in 1..(n + 1) : IsSendmsg(writes[i])}
<1>1. IsFiniteSet(1..n) /\ Cardinality(1..n) = n
  BY FS_Interval
<1>2. A \in SUBSET (1..n)
  OBVIOUS
<1>3. IsFiniteSet(A) /\ Cardinality(A) <= n /\ Cardinality(A) \in Nat
  BY <1>1, <1>2, FS_Subset, FS_CardinalityType
<1>4. B = IF IsSendmsg(writes[n + 1]) THEN A \cup {n + 1} ELSE A
  OBVIOUS
<1>5. n + 1 \notin A
  OBVIOUS
<1>6. Cardinality(A \cup {n + 1}) = Cardinality(A) + 1
  BY <1>3, <1>5, FS_AddElement
<1>7. Sends(writes, n) = Cardinality(A) /\ Sends(writes, n + 1) = Cardinality(B)
  BY DEF Sends
<1> HIDE DEF A, B
<1>8. QED
  BY <1>3, <1>4, <1>6, <1>7

\* Only the first n writes count.
LEMMA SendsLocal ==
  ASSUME NEW writes, NEW more, NEW n \in Nat, \A i \in 1..n : writes[i] = more[i]
  PROVE  Sends(writes, n) = Sends(more, n)
<1>1. {i \in 1..n : IsSendmsg(writes[i])} = {i \in 1..n : IsSendmsg(more[i])}
  BY DEF IsSendmsg
<1>2. QED
  BY <1>1 DEF Sends

\* A write that is served adds its message, or none.
LEMMA OnboardStep ==
  ASSUME NEW messages \in Seq(Message), NEW writes \in Seq(Writes), NEW w \in Writes,
         Onboards(messages, writes), NEW new \in AtMostOne(Message),
         IF IsSendmsg(w)
         THEN new # <<>> /\ new[1].port = w.user_id /\ new[1].body = w.body
         ELSE new = <<>>
  PROVE  Onboards(messages \o new, Append(writes, w))
<1> DEFINE n == Len(writes)
           more == Append(writes, w)
           k == Sends(writes, n)
           all == messages \o new
<1>1. /\ n \in Nat /\ Len(more) = n + 1 /\ more[n + 1] = w
      /\ DOMAIN writes = 1..n /\ DOMAIN more = 1..(n + 1)
      /\ \A i \in 1..n : more[i] = writes[i]
  OBVIOUS
<1>2. k = Len(messages) /\ k \in 0..n
  BY <1>1, SendsFacts DEF Onboards
<1> HIDE DEF more, n
<1>3. ASSUME NEW i \in 0..n PROVE Sends(more, i) = Sends(writes, i)
  BY <1>1, SendsLocal
<1>4. Sends(more, n + 1) = IF IsSendmsg(w) THEN k + 1 ELSE k
  <2>1. n \in 0..n
    BY <1>1
  <2>2. Sends(more, n) = k
    BY <1>3, <2>1
  <2>3. Sends(more, n + 1) =
          IF IsSendmsg(more[n + 1]) THEN Sends(more, n) + 1 ELSE Sends(more, n)
    BY <1>1, SendsFacts
  <2>4. QED
    BY <1>1, <2>2, <2>3
<1>5. new \in Seq(Message) /\ Len(new) = IF IsSendmsg(w) THEN 1 ELSE 0
  <2>1. CASE IsSendmsg(w)
    BY <2>1, Register
  <2>2. CASE ~IsSendmsg(w)
    BY <2>2
  <2>3. QED
    BY <2>1, <2>2
<1>6. /\ Len(all) = Len(messages) + Len(new)
      /\ \A i \in 1..Len(messages) : all[i] = messages[i]
      /\ IsSendmsg(w) => all[k + 1] = new[1]
  <2>1. Len(all) = Len(messages) + Len(new) /\ Len(messages) \in Nat
    BY <1>5, SMTT(60)
  <2>2. \A i \in 1..Len(messages) : all[i] = messages[i]
    BY <1>5
  <2>3. IsSendmsg(w) => all[k + 1] = new[1]
    BY <1>2, <1>5, <2>1, ConcatProperties
  <2>4. QED
    BY <2>1, <2>2, <2>3
<1> HIDE DEF all, k
<1>7. Len(all) = Sends(more, Len(more))
  BY <1>1, <1>2, <1>4, <1>5, <1>6
<1>8. ASSUME NEW i \in 1..(n + 1), IsSendmsg(more[i])
      PROVE  /\ all[Sends(more, i)].port = more[i].user_id
             /\ all[Sends(more, i)].body = more[i].body
  <2>1. CASE i = n + 1
    <3>1. Sends(more, i) = k + 1 /\ IsSendmsg(w) /\ more[i] = w
      BY <1>1, <1>4, <1>8, <2>1
    <3>2. QED
      BY <1>6, <3>1
  <2>2. CASE i # n + 1
    <3>1. i \in 1..n /\ more[i] = writes[i] /\ Sends(more, i) = Sends(writes, i)
      BY <1>1, <1>3, <2>2
    <3>2. Sends(writes, i) \in 1..Len(messages)
      <4>1. i - 1 \in Nat /\ (i - 1) + 1 = i
        BY <3>1, <1>1
      <4>2. Sends(writes, i) = Sends(writes, i - 1) + 1 /\ Sends(writes, i - 1) \in 0..(i - 1)
        BY <1>8, <3>1, <4>1, SendsFacts
      <4>3. Sends(writes, i) <= Sends(writes, n)
        <5>1. {j \in 1..i : IsSendmsg(writes[j])} \in SUBSET {j \in 1..n : IsSendmsg(writes[j])}
          BY <1>1, <3>1
        <5>2. IsFiniteSet({j \in 1..n : IsSendmsg(writes[j])})
          <6>1. IsFiniteSet(1..n)
            BY <1>1, FS_Interval
          <6>2. {j \in 1..n : IsSendmsg(writes[j])} \in SUBSET (1..n)
            OBVIOUS
          <6>3. QED
            BY <6>1, <6>2, FS_Subset
        <5>3. QED
          BY <5>1, <5>2, FS_Subset DEF Sends
      <4>4. QED
        BY <1>1, <1>2, <3>1, <4>1, <4>2, <4>3 DEF k
    <3>3. /\ messages[Sends(writes, i)].port = writes[i].user_id
          /\ messages[Sends(writes, i)].body = writes[i].body
      BY <1>1, <1>8, <3>1 DEF Onboards
    <3>4. QED
      BY <1>6, <3>1, <3>2, <3>3
  <2>3. QED
    BY <2>1, <2>2
<1>9. QED
  BY <1>1, <1>7, <1>8 DEF Onboards, all, more

-----------------------------------------------------------------------------
\* The write that is presented, when it leaves and when it stays.
LEMMA PresentedWrite ==
  ASSUME TypeOK, NEW in \in AtMostOne(Writes), NEW w \in Valid(in)
  PROVE  w \in Writes /\ Presented(in) = <<w>>
<1>1. Presented(in) \in AtMostOne(Writes)
  BY DEF Presented, TypeOK
<1>2. Presented(in) # <<>>
  BY <1>1, Register DEF Valid
<1>3. w = Presented(in)[1]
  BY <1>1, <1>2, Register DEF Valid
<1>4. QED
  BY <1>1, <1>2, <1>3, Register

\* A write that leaves is the oldest that was accepted and not served.
LEMMA LeavesStep ==
  ASSUME DelegateInv, NEW in \in AtMostOne(Writes), NEW w \in Valid(in), Leaves(w, in)
  PROVE  /\ function_queue' \in AtMostOne(Writes)
         /\ accepted' \in Seq(Writes) /\ served' \in Seq(Writes)
         /\ served' = Append(served, w) /\ accepted' = accepted \o in
         /\ ServedInOrder'
<1>0. /\ TypeOK /\ accepted \in Seq(Writes) /\ served \in Seq(Writes)
      /\ accepted = served \o function_queue
  BY DEF DelegateInv, HistoryType, ServedInOrder
<1>1. function_queue \in AtMostOne(Writes) /\ function_queue \in Seq(Writes) /\ in \in Seq(Writes)
  BY <1>0, Register DEF TypeOK
<1>2. w \in Writes /\ Presented(in) = <<w>>
  BY <1>0, PresentedWrite
<1>3. /\ served' = Append(served, w) /\ served' \in Seq(Writes)
      /\ accepted' = accepted \o in /\ accepted' \in Seq(Writes)
  BY <1>0, <1>1, <1>2 DEF Leaves
<1>4. CASE function_queue = <<>>
  <2>1. in = <<w>> /\ function_queue' = <<>>
    BY <1>2, <1>4 DEF Presented, Leaves
  <2>2. accepted' = served \o <<w>>
    BY <1>0, <1>3, <1>4, <2>1
  <2>3. Append(served, w) = served \o <<w>>
    BY <1>0, <1>2, AppendIsConcat
  <2>4. QED
    BY <1>1, <1>3, <1>4, <2>1, <2>2, <2>3 DEF ServedInOrder
<1>5. CASE function_queue # <<>>
  <2>1. function_queue = <<w>> /\ function_queue' = in
    BY <1>2, <1>5 DEF Presented, Leaves
  <2>2. Append(served, w) = served \o <<w>>
    BY <1>0, <1>2, AppendIsConcat
  <2>3. QED
    BY <1>0, <1>3, <2>1, <2>2 DEF ServedInOrder
<1>6. QED
  BY <1>4, <1>5

\* A write that stays has been accepted, and nothing is accepted past it.
LEMMA StaysStep ==
  ASSUME DelegateInv, NEW in \in AtMostOne(Writes), Stays(in)
  PROVE  /\ function_queue' \in AtMostOne(Writes)
         /\ accepted' \in Seq(Writes) /\ served' = served
         /\ accepted' = accepted \/ accepted' = accepted \o in
         /\ ServedInOrder'
         /\ \A w \in Valid(in) : \E i \in DOMAIN accepted' : accepted'[i] = w
<1>0. /\ TypeOK /\ accepted \in Seq(Writes) /\ served \in Seq(Writes)
      /\ accepted = served \o function_queue
  BY DEF DelegateInv, HistoryType, ServedInOrder
<1>1. function_queue \in AtMostOne(Writes) /\ function_queue \in Seq(Writes) /\ in \in Seq(Writes)
  BY <1>0, Register DEF TypeOK
<1>2. /\ function_queue' \in AtMostOne(Writes) /\ function_queue' = Presented(in)
      /\ served' = served
      /\ accepted' = IF function_queue = <<>> THEN accepted \o in ELSE accepted
  BY <1>1 DEF Stays, Presented
<1>3. accepted' \in Seq(Writes)
  BY <1>0, <1>1, <1>2
<1>4. accepted' = served \o Presented(in)
  <2>1. CASE function_queue = <<>>
    <3>1. accepted = served /\ Presented(in) = in
      BY <1>0, <2>1 DEF Presented
    <3>2. QED
      BY <1>2, <2>1, <3>1
  <2>2. CASE function_queue # <<>>
    BY <1>0, <1>2, <2>2 DEF Presented
  <2>3. QED
    BY <2>1, <2>2
<1>5. ASSUME NEW w \in Valid(in) PROVE \E i \in DOMAIN accepted' : accepted'[i] = w
  <2>1. w \in Writes /\ Presented(in) = <<w>>
    BY <1>0, PresentedWrite
  <2>2. accepted' = served \o <<w>>
    BY <1>4, <2>1
  <2>3. Len(served) \in Nat /\ Len(accepted') = Len(served) + 1
        /\ DOMAIN accepted' = 1..Len(accepted') /\ accepted'[Len(served) + 1] = w
    BY <1>0, <2>1, <2>2
  <2>4. QED
    BY <2>3
<1>6. QED
  BY <1>2, <1>3, <1>4, <1>5 DEF ServedInOrder

\* The receivers of a message: nothing that waits is overwritten, and what they
\* have together with what waits for them grows by the new message.
LEMMA ReceiversStep ==
  ASSUME DelegateInv, NEW take, NEW new \in AtMostOne(Message),
         new = <<>> \/ BatchReady(take), Receivers(take, new)
  PROVE  /\ {newSendmsgQueue', newFetchableQueue', dmaQueue'} \subseteq AtMostOne(Message)
         /\ scheduled' \in Seq(Message) /\ fetched' \in Seq(Message) /\ returned' \in Seq(Message)
         /\ scheduled' \o newSendmsgQueue' = (scheduled \o newSendmsgQueue) \o new
         /\ fetched' \o newFetchableQueue' = (fetched \o newFetchableQueue) \o new
         /\ returned' \o dmaQueue' = (returned \o dmaQueue) \o new
<1>0. /\ newSendmsgQueue \in AtMostOne(Message) /\ newFetchableQueue \in AtMostOne(Message)
      /\ dmaQueue \in AtMostOne(Message)
      /\ scheduled \in Seq(Message) /\ fetched \in Seq(Message) /\ returned \in Seq(Message)
  BY DEF DelegateInv, TypeOK, HistoryType, Message
<1>a. ASSUME NEW history \in Seq(Message), NEW queue \in AtMostOne(Message), NEW consumer,
             new = <<>> \/ Ready(queue, consumer, take)
      PROVE  /\ After(queue, consumer, take, new) \in AtMostOne(Message)
             /\ Taken(history, queue, consumer, take) \in Seq(Message)
             /\ Taken(history, queue, consumer, take) \o After(queue, consumer, take, new)
                  = (history \o queue) \o new
  BY <1>a, QueueStep, SMTT(60)
<1>1. /\ newSendmsgQueue' \in AtMostOne(Message) /\ scheduled' \in Seq(Message)
      /\ scheduled' \o newSendmsgQueue' = (scheduled \o newSendmsgQueue) \o new
  <2>1. new = <<>> \/ Ready(newSendmsgQueue, "scheduler", take)
    BY DEF BatchReady
  <2>2. /\ After(newSendmsgQueue, "scheduler", take, new) \in AtMostOne(Message)
        /\ Taken(scheduled, newSendmsgQueue, "scheduler", take) \in Seq(Message)
        /\ Taken(scheduled, newSendmsgQueue, "scheduler", take) \o After(newSendmsgQueue, "scheduler", take, new)
             = (scheduled \o newSendmsgQueue) \o new
    BY <1>0, <1>a, <2>1
  <2>3. /\ newSendmsgQueue' = After(newSendmsgQueue, "scheduler", take, new)
        /\ scheduled' = Taken(scheduled, newSendmsgQueue, "scheduler", take)
    BY DEF Receivers
  <2>4. QED
    BY <2>2, <2>3
<1>2. /\ newFetchableQueue' \in AtMostOne(Message) /\ fetched' \in Seq(Message)
      /\ fetched' \o newFetchableQueue' = (fetched \o newFetchableQueue) \o new
  <2>1. new = <<>> \/ Ready(newFetchableQueue, "prefetcher", take)
    BY DEF BatchReady
  <2>2. /\ After(newFetchableQueue, "prefetcher", take, new) \in AtMostOne(Message)
        /\ Taken(fetched, newFetchableQueue, "prefetcher", take) \in Seq(Message)
        /\ Taken(fetched, newFetchableQueue, "prefetcher", take) \o After(newFetchableQueue, "prefetcher", take, new)
             = (fetched \o newFetchableQueue) \o new
    BY <1>0, <1>a, <2>1
  <2>3. /\ newFetchableQueue' = After(newFetchableQueue, "prefetcher", take, new)
        /\ fetched' = Taken(fetched, newFetchableQueue, "prefetcher", take)
    BY DEF Receivers
  <2>4. QED
    BY <2>2, <2>3
<1>3. /\ dmaQueue' \in AtMostOne(Message) /\ returned' \in Seq(Message)
      /\ returned' \o dmaQueue' = (returned \o dmaQueue) \o new
  <2>1. new = <<>> \/ Ready(dmaQueue, "dma", take)
    BY DEF BatchReady
  <2>2. /\ After(dmaQueue, "dma", take, new) \in AtMostOne(Message)
        /\ Taken(returned, dmaQueue, "dma", take) \in Seq(Message)
        /\ Taken(returned, dmaQueue, "dma", take) \o After(dmaQueue, "dma", take, new)
             = (returned \o dmaQueue) \o new
    BY <1>0, <1>a, <2>1
  <2>3. /\ dmaQueue' = After(dmaQueue, "dma", take, new)
        /\ returned' = Taken(returned, dmaQueue, "dma", take)
    BY DEF Receivers
  <2>4. QED
    BY <2>2, <2>3
<1>4. QED
  BY <1>1, <1>2, <1>3

\* All receivers onboard the write that leaves.
LEMMA OnboardedStep ==
  ASSUME DelegateInv, NEW take, NEW new \in AtMostOne(Message),
         new = <<>> \/ BatchReady(take), Receivers(take, new),
         \/ served' = served /\ new = <<>>
         \/ \E w \in Writes :
              /\ served' = Append(served, w)
              /\ IF IsSendmsg(w)
                 THEN new # <<>> /\ new[1].port = w.user_id /\ new[1].body = w.body
                 ELSE new = <<>>
  PROVE  OnboardedAsOne'
<1>0. /\ newSendmsgQueue \in Seq(Message) /\ newFetchableQueue \in Seq(Message)
      /\ dmaQueue \in Seq(Message) /\ served \in Seq(Writes)
      /\ scheduled \in Seq(Message) /\ fetched \in Seq(Message) /\ returned \in Seq(Message)
  <2>1. /\ newSendmsgQueue \in AtMostOne(Message) /\ newFetchableQueue \in AtMostOne(Message)
        /\ dmaQueue \in AtMostOne(Message)
    BY DEF DelegateInv, TypeOK, Message
  <2>2. QED
    BY <2>1, Register DEF DelegateInv, HistoryType
<1>1. /\ scheduled \o newSendmsgQueue \in Seq(Message)
      /\ fetched \o newFetchableQueue \in Seq(Message)
      /\ returned \o dmaQueue \in Seq(Message)
  BY <1>0
<1>2. ASSUME NEW messages \in Seq(Message), Onboards(messages, served)
      PROVE  Onboards(messages \o new, served')
  <2>1. CASE served' = served /\ new = <<>>
    BY <1>2, <2>1
  <2>2. CASE ~(served' = served /\ new = <<>>)
    BY <1>0, <1>2, <2>2, OnboardStep
  <2>3. QED
    BY <2>1, <2>2
<1>3. /\ Onboards((scheduled \o newSendmsgQueue) \o new, served')
      /\ Onboards((fetched \o newFetchableQueue) \o new, served')
      /\ Onboards((returned \o dmaQueue) \o new, served')
  BY <1>1, <1>2 DEF DelegateInv, OnboardedAsOne
<1>4. /\ scheduled' \o newSendmsgQueue' = (scheduled \o newSendmsgQueue) \o new
      /\ fetched' \o newFetchableQueue' = (fetched \o newFetchableQueue) \o new
      /\ returned' \o dmaQueue' = (returned \o dmaQueue) \o new
  BY ReceiversStep
<1>5. /\ Onboards(scheduled' \o newSendmsgQueue', served')
      /\ Onboards(fetched' \o newFetchableQueue', served')
      /\ Onboards(returned' \o dmaQueue', served')
  BY <1>3, <1>4
<1>6. QED
  BY <1>5 DEF OnboardedAsOne, Onboards, Sends, IsSendmsg

\* The control block of the message in front of the scheduler is only written
\* together with the message.
LEMMA ControlBlockStep ==
  ASSUME DelegateInv, NEW take, Receivers(take, <<>>), NEW in \in AtMostOne(Writes),
         accepted' = accepted \/ accepted' = accepted \o in,
         \/ UNCHANGED sendmsg_cb
         \/ \E i \in DOMAIN accepted' : IsRecvmsg(accepted'[i])
  PROVE  ControlBlockReady'
<1>1. newSendmsgQueue' = newSendmsgQueue \/ newSendmsgQueue' = <<>>
  BY DEF Receivers, After
<1>2. \A i \in DOMAIN accepted : i \in DOMAIN accepted' /\ accepted'[i] = accepted[i]
  <2>1. accepted \in Seq(Writes) /\ in \in Seq(Writes)
    BY Register DEF DelegateInv, HistoryType
  <2>2. \A i \in DOMAIN accepted :
          i \in DOMAIN (accepted \o in) /\ (accepted \o in)[i] = accepted[i]
    BY <2>1
  <2>3. CASE accepted' = accepted
    BY <2>3
  <2>4. CASE accepted' = accepted \o in
    BY <2>2, <2>4
  <2>5. QED
    BY <2>3, <2>4
<1>3. ASSUME \A i \in DOMAIN accepted' : ~IsRecvmsg(accepted'[i])
      PROVE  /\ \A i \in DOMAIN accepted : ~IsRecvmsg(accepted[i])
             /\ UNCHANGED sendmsg_cb
  BY <1>2, <1>3
<1>4. ASSUME \A i \in DOMAIN accepted' : ~IsRecvmsg(accepted'[i]),
             NEW i \in DOMAIN newSendmsgQueue'
      PROVE  sendmsg_cb'[newSendmsgQueue'[i].id] = <<newSendmsgQueue'[i].body>>
  <2>1. newSendmsgQueue' = newSendmsgQueue
    <3>1. newSendmsgQueue' # <<>>
      BY <1>4
    <3>2. QED
      BY <1>1, <3>1
  <2>2. sendmsg_cb[newSendmsgQueue[i].id] = <<newSendmsgQueue[i].body>>
    BY <1>3, <1>4, <2>1 DEF DelegateInv, ControlBlockReady
  <2>3. QED
    BY <1>3, <1>4, <2>1, <2>2
<1>5. QED
  BY <1>4 DEF ControlBlockReady, IsRecvmsg

-----------------------------------------------------------------------------
\* What the bus offers is one write or none.
LEMMA OfferedWrites ==
  ASSUME NEW in \in Offered
  PROVE  in \in AtMostOne(Writes)
BY DEF Offered, AtMostOne

\* A cycle that puts no message before the receivers.
LEMMA QuietCycle ==
  ASSUME DelegateInv, NEW in \in AtMostOne(Writes), NEW take, Receivers(take, <<>>),
         \/ \E w \in Valid(in) : ~IsSendmsg(w) /\ Leaves(w, in)
         \/ Stays(in),
         dynamicConfiguration' \in AtMostOne(Bodies), UNCHANGED send_id,
         sendmsg_cb' \in [0..MaxWrites -> AtMostOne(Bodies)],
         \/ UNCHANGED sendmsg_cb
         \/ \E i \in DOMAIN accepted' : IsRecvmsg(accepted'[i])
  PROVE  DelegateInv'
<1>0. <<>> \in AtMostOne(Message)
  BY DEF AtMostOne
<1>1. /\ {newSendmsgQueue', newFetchableQueue', dmaQueue'} \subseteq AtMostOne(Message)
      /\ scheduled' \in Seq(Message) /\ fetched' \in Seq(Message) /\ returned' \in Seq(Message)
  BY <1>0, ReceiversStep
<1>2. /\ function_queue' \in AtMostOne(Writes) /\ accepted' \in Seq(Writes)
      /\ served' \in Seq(Writes) /\ ServedInOrder'
      /\ (accepted' = accepted \/ accepted' = accepted \o in)
      /\ \/ served' = served
         \/ \E w \in Writes : served' = Append(served, w) /\ ~IsSendmsg(w)
  <2>1. CASE Stays(in)
    BY <2>1, StaysStep DEF DelegateInv, HistoryType
  <2>2. CASE \E w \in Valid(in) : ~IsSendmsg(w) /\ Leaves(w, in)
    <3>1. PICK w \in Valid(in) : ~IsSendmsg(w) /\ Leaves(w, in)
      BY <2>2
    <3>2. w \in Writes
      BY PresentedWrite DEF DelegateInv
    <3>3. QED
      BY <3>1, <3>2, LeavesStep
  <2>3. QED
    BY <2>1, <2>2
<1>3. OnboardedAsOne'
  BY <1>0, <1>2, OnboardedStep
<1>4. ControlBlockReady'
  BY <1>2, ControlBlockStep
<1>5. TypeOK'
  BY <1>1, <1>2 DEF TypeOK, DelegateInv, Message
<1>6. QED
  BY <1>1, <1>2, <1>3, <1>4, <1>5 DEF DelegateInv, HistoryType

\* The cycle in which a message is onboarded: the three queues take it, and its
\* header is written.
LEMMA SendmsgStep ==
  ASSUME DelegateInv, NEW in \in AtMostOne(Writes), NEW take, NEW w \in Valid(in),
         SendmsgCycle(w, in, take)
  PROVE  DelegateInv'
<1> DEFINE m == [id |-> send_id, port |-> w.user_id, body |-> w.body]
<1>0. TypeOK /\ w \in Writes /\ IsSendmsg(w) /\ send_id \in 0..MaxWrites
  BY PresentedWrite DEF DelegateInv, TypeOK, SendmsgCycle
<1>1. m \in Message
  BY <1>0 DEF Message, Writes, IsSendmsg
<1>2. <<m>> \in AtMostOne(Message)
  BY <1>1 DEF AtMostOne
<1>3. BatchReady(take) /\ Leaves(w, in) /\ Receivers(take, <<m>>)
  BY <1>0 DEF SendmsgCycle, Dequeues, IsSendmsg, IsMap, IsConfig
<1>4. /\ {newSendmsgQueue', newFetchableQueue', dmaQueue'} \subseteq AtMostOne(Message)
      /\ scheduled' \in Seq(Message) /\ fetched' \in Seq(Message) /\ returned' \in Seq(Message)
  BY <1>2, <1>3, ReceiversStep
<1>5. /\ function_queue' \in AtMostOne(Writes) /\ accepted' \in Seq(Writes)
      /\ served' \in Seq(Writes) /\ ServedInOrder' /\ served' = Append(served, w)
  BY <1>3, LeavesStep
<1>6. <<m>> # <<>> /\ <<m>>[1].port = w.user_id /\ <<m>>[1].body = w.body
  OBVIOUS
<1>7. OnboardedAsOne'
  BY <1>0, <1>2, <1>3, <1>5, <1>6, OnboardedStep
<1>8. w.body \in Bodies
  BY <1>0 DEF Writes
<1>9. /\ sendmsg_cb' \in [0..MaxWrites -> AtMostOne(Bodies)]
      /\ sendmsg_cb'[send_id] = <<w.body>>
  <2>1. <<w.body>> \in AtMostOne(Bodies)
    BY <1>8 DEF AtMostOne
  <2>2. sendmsg_cb \in [0..MaxWrites -> AtMostOne(Bodies)]
    BY <1>0 DEF TypeOK
  <2>3. QED
    BY <1>0, <2>1, <2>2 DEF SendmsgCycle
<1>10. ControlBlockReady'
  <2>1. newSendmsgQueue' = <<m>>
    BY <1>3 DEF Receivers, BatchReady, After
  <2>2. m.id = send_id /\ m.body = w.body
    OBVIOUS
  <2> HIDE DEF m
  <2>3. \A i \in DOMAIN newSendmsgQueue' : newSendmsgQueue'[i] = m
    BY <2>1
  <2>4. \A i \in DOMAIN newSendmsgQueue' :
          sendmsg_cb'[newSendmsgQueue'[i].id] = <<newSendmsgQueue'[i].body>>
    BY <1>9, <2>2, <2>3
  <2>5. QED
    BY <2>4 DEF ControlBlockReady
<1>11. TypeOK'
  BY <1>0, <1>4, <1>5, <1>9 DEF TypeOK, SendmsgCycle, Message
<1>12. QED
  BY <1>4, <1>5, <1>7, <1>10, <1>11 DEF DelegateInv, HistoryType

\* Nothing is written or taken before the first cycle.
LEMMA DelegateInit ==
  Init => DelegateInv
<1> SUFFICES ASSUME Init PROVE DelegateInv
  OBVIOUS
<1>1. TypeOK
  BY DelegateAssumption DEF Init, TypeOK, AtMostOne
<1>2. HistoryType /\ ServedInOrder /\ ControlBlockReady
  BY DEF Init, HistoryType, ServedInOrder, ControlBlockReady
<1>3. Onboards(<<>>, <<>>)
  <2>1. Sends(<<>>, 0) \in 0..0
    BY SendsFacts
  <2>2. Len(<<>>) = 0 /\ DOMAIN <<>> = {}
    OBVIOUS
  <2>3. QED
    BY <2>1, <2>2 DEF Onboards
<1>4. OnboardedAsOne
  BY <1>3 DEF Init, OnboardedAsOne
<1>5. QED
  BY <1>1, <1>2, <1>4 DEF DelegateInv

\* Every cycle keeps the invariant, whatever arrives and whoever is ready.
LEMMA DelegateStep ==
  DelegateInv /\ [Next]_vars => DelegateInv'
<1> SUFFICES ASSUME DelegateInv, [Next]_vars PROVE DelegateInv'
  OBVIOUS
<1>0. /\ dynamicConfiguration \in AtMostOne(Bodies)
      /\ sendmsg_cb \in [0..MaxWrites -> AtMostOne(Bodies)] /\ send_id \in 0..MaxWrites
  BY DEF DelegateInv, TypeOK
<1>1. ASSUME NEW in \in AtMostOne(Writes), NEW take, NEW w \in Valid(in), MapCycle(w, in, take)
      PROVE  DelegateInv'
  <2>1. ~IsSendmsg(w)
    BY <1>1 DEF MapCycle, IsMap, IsSendmsg
  <2>2. QED
    BY <1>0, <1>1, <2>1, QuietCycle DEF MapCycle
<1>2. ASSUME NEW in \in AtMostOne(Writes), NEW take, NEW w \in Valid(in), ConfigCycle(w, in, take)
      PROVE  DelegateInv'
  <2>1. ~IsSendmsg(w)
    BY <1>2 DEF ConfigCycle, IsConfig, IsSendmsg
  <2>2. w \in Writes
    BY PresentedWrite DEF DelegateInv
  <2>3. dynamicConfiguration' \in AtMostOne(Bodies)
    BY <1>2, <2>2 DEF ConfigCycle, AtMostOne, Writes
  <2>4. QED
    BY <1>0, <1>2, <2>1, <2>3, QuietCycle DEF ConfigCycle
<1>3. ASSUME NEW in \in AtMostOne(Writes), NEW take, NEW w \in Valid(in), SendmsgWaits(w, in, take)
      PROVE  DelegateInv'
  BY <1>0, <1>3, QuietCycle DEF SendmsgWaits
<1>4. ASSUME NEW in \in AtMostOne(Writes), NEW take, NEW w \in Valid(in), RecvmsgCycle(w, in, take)
      PROVE  DelegateInv'
  <2>1. w \in Writes
    BY PresentedWrite DEF DelegateInv
  <2>2. <<w.body>> \in AtMostOne(Bodies)
    BY <2>1 DEF AtMostOne, Writes
  <2>3. sendmsg_cb' \in [0..MaxWrites -> AtMostOne(Bodies)]
    BY <1>0, <1>4, <2>2 DEF RecvmsgCycle
  <2>4. \E i \in DOMAIN accepted' : accepted'[i] = w
    BY <1>4, StaysStep DEF RecvmsgCycle
  <2>5. \E i \in DOMAIN accepted' : IsRecvmsg(accepted'[i])
    BY <1>4, <2>4 DEF RecvmsgCycle
  <2>6. QED
    BY <1>0, <1>4, <2>3, <2>5, QuietCycle DEF RecvmsgCycle
<1>5. ASSUME NEW in \in AtMostOne(Writes), NEW take, IdleCycle(in, take)
      PROVE  DelegateInv'
  BY <1>0, <1>5, QuietCycle DEF IdleCycle
<1>6. CASE Next
  <2>1. PICK in \in Offered, take \in SUBSET Consumers : Cycle(in, take)
    BY <1>6 DEF Next
  <2>2. in \in AtMostOne(Writes)
    BY OfferedWrites
  <2>3. QED
    BY <1>1, <1>2, <1>3, <1>4, <1>5, <2>1, <2>2, SendmsgStep DEF Cycle
<1>7. CASE UNCHANGED vars
  <2>1. /\ UNCHANGED <<function_queue, dynamicConfiguration, send_id, sendmsg_cb>>
        /\ UNCHANGED <<newSendmsgQueue, newFetchableQueue, dmaQueue>>
        /\ UNCHANGED <<accepted, served, scheduled, fetched, returned>>
    BY <1>7 DEF vars, queues, taken
  <2>2. QED
    BY <2>1, ZenonT(120) DEF DelegateInv, TypeOK, HistoryType, ServedInOrder, ControlBlockReady,
                OnboardedAsOne, Onboards, Sends, IsSendmsg, IsRecvmsg
<1>8. QED
  BY <1>6, <1>7

-----------------------------------------------------------------------------
\* The invariant holds in every behaviour of Delegate.scala.
THEOREM DelegateInvariant == Spec => []DelegateInv
BY DelegateInit, DelegateStep, PTL DEF Spec

\* Every register holds a value of its type: function_queue and the three
\* queues behind the delegate never hold more than the one entry they have.
THEOREM TypeCorrect == Spec => []TypeOK
<1>1. DelegateInv => TypeOK
  BY DEF DelegateInv
<1>2. QED
  BY <1>1, DelegateInvariant, PTL

\* The writes leave function_queue in the order in which the bus delivered
\* them, none lost and none twice, though the queue both flows through and
\* passes an entry on in the cycle in which it takes the next.
THEOREM WritesServedInOrder == Spec => []ServedInOrder
<1>1. DelegateInv => ServedInOrder
  BY DEF DelegateInv
<1>2. QED
  BY <1>1, DelegateInvariant, PTL

\* "We wish to onboard a new RPC as one operation": scheduler, prefetcher and
\* DMA engine get the same messages, once and in the order of the writes,
\* whichever of them is ready in which cycle.
THEOREM MessagesOnboardedAsOne == Spec => []OnboardedAsOne
<1>1. DelegateInv => OnboardedAsOne
  BY DEF DelegateInv
<1>2. QED
  BY <1>1, DelegateInvariant, PTL

\* The header of the message that waits for the scheduler is in the control
\* block RAM, for as long as no recvmsg is written.
THEOREM ControlBlocksReady == Spec => []ControlBlockReady
<1>1. DelegateInv => ControlBlockReady
  BY DEF DelegateInv
<1>2. QED
  BY <1>1, DelegateInvariant, PTL
=============================================================================
