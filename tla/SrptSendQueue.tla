---------------------------- MODULE SrptSendQueue ----------------------------
(***************************************************************************)
(* The send queue (TYPE "sendmsg") of srpt_queue.v with what the core      *)
(* feeds it: sendmsg requests, grants and data buffer notifications, each  *)
(* an insert.  History variables record what each message was promised     *)
(* and what the receiver got.                                              *)
(***************************************************************************)
EXTENDS SrptQueue

CONSTANTS
  GrantOffsets,     \* granted offsets of sendmsgs and grants
  BufferOffsets     \* dbuffered offsets of sendmsgs and notifications

ASSUME SendAssumption ==
  GrantOffsets \subseteq Nat /\ BufferOffsets \subseteq Nat

VARIABLES
  size,      \* per id: length of its last message
  owed,      \* per id: bytes of it not yet put on the output
  received,  \* per id: bytes of it handed to the receiver
  repeated,  \* per id: bytes of packets an insert left on the output as they were taken
  grant,     \* per id: lowest granted offset submitted for it
  buffer     \* per id: lowest dbuffered offset submitted for it

history == <<size, owed, received, repeated, grant, buffer>>
allvars == <<vars, history>>

Live == {id \in Ids : owed[id] > 0}
OnOutput(id) == m_axis_tvalid /\ m_axis_tdata.rpc_id = id
Bytes(packet) ==
  IF packet.remaining < PAYLOAD_SIZE THEN packet.remaining ELSE PAYLOAD_SIZE

-----------------------------------------------------------------------------
\* A count per id when the receiver takes, or not, the packet on the output.
Taken(ready, before) ==
  IF m_axis_tvalid /\ ready
  THEN [before EXCEPT ![m_axis_tdata.rpc_id] = @ + Bytes(m_axis_tdata)]
  ELSE before

\* An insert leaves a packet on the output also when it is being taken.
TakenAtInsert(ready, had, again) ==
  received' = Taken(ready, had) /\ repeated' = Taken(ready, again)

TakenFromOutput(ready) == received' = Taken(ready, received) /\ UNCHANGED repeated

\* A sendmsg request, of which nothing (dbuffered = length) or a part may be on
\* chip; an id is used again when its last packet is gone.
Sendmsg(id, ready) ==
  \E length \in Lengths, granted \in GrantOffsets :
  \E dbuffered \in BufferOffsets \cup {length} :
    /\ owed[id] = 0 /\ ~OnOutput(id) /\ Cardinality(Live) < MaxLive
    /\ granted <= length /\ dbuffered <= length
    /\ InsertCycle([rpc_id |-> id, dbuff_id |-> id, remaining |-> length,
                    dbuffered |-> dbuffered, granted |-> granted,
                    priority |-> ACTIVE], ready)
    /\ size' = [size EXCEPT ![id] = length]
    /\ owed' = [owed EXCEPT ![id] = length]
    /\ grant' = [grant EXCEPT ![id] = granted]
    /\ buffer' = [buffer EXCEPT ![id] = dbuffered]
    /\ TakenAtInsert(ready, [received EXCEPT ![id] = 0], [repeated EXCEPT ![id] = 0])
    /\ Joins(Live)

\* A grant of more of a message.
Grant(id, offset, ready) ==
  /\ id \in Live /\ offset < grant[id]
  /\ InsertCycle([EmptyEntry EXCEPT !.rpc_id = id, !.granted = offset,
                                    !.priority = GRANT_UPDATE], ready)
  /\ grant' = [grant EXCEPT ![id] = offset]
  /\ TakenAtInsert(ready, received, repeated)
  /\ UNCHANGED <<size, owed, buffer, peak>>

\* A notification that more of a message is on chip.
Notify(id, offset, ready) ==
  /\ id \in Live /\ offset < buffer[id]
  /\ InsertCycle([EmptyEntry EXCEPT !.dbuff_id = id, !.dbuffered = offset,
                                    !.priority = DBUFF_UPDATE], ready)
  /\ buffer' = [buffer EXCEPT ![id] = offset]
  /\ TakenAtInsert(ready, received, repeated)
  /\ UNCHANGED <<size, owed, grant, peak>>

Insert(ready) ==
  \E id \in Ids :
    \/ Sendmsg(id, ready)
    \/ \E offset \in GrantOffsets : Grant(id, offset, ready)
    \/ \E offset \in BufferOffsets : Notify(id, offset, ready)

Dequeue(ready) ==
  /\ DequeueCycle(ready)
  /\ owed' = [owed EXCEPT ![head.rpc_id] = @ - Bytes(head)]
  /\ TakenFromOutput(ready)
  /\ UNCHANGED <<size, grant, buffer>>

Idle(ready) ==
  /\ IdleCycle(ready)
  /\ TakenFromOutput(ready)
  /\ UNCHANGED <<size, owed, grant, buffer>>

Stalled == StalledCycle /\ UNCHANGED history

SendInit ==
  /\ Type = "sendmsg"
  /\ Init
  /\ size = [id \in Ids |-> 0]
  /\ owed = size /\ received = size /\ repeated = size /\ grant = size /\ buffer = size

SendNext ==
  \/ \E ready \in BOOLEAN : Insert(ready) \/ Dequeue(ready) \/ Idle(ready)
  \/ Stalled

SendSpec == SendInit /\ [][SendNext]_allvars

\* The clock ticks and the receiver does not refuse for ever.
FairSendSpec == SendSpec /\ WF_allvars(Dequeue(TRUE) \/ Idle(TRUE))

-----------------------------------------------------------------------------
EntryType == [rpc_id : Ids \cup {0}, dbuff_id : Ids \cup {0},
              remaining : Nat, dbuffered : Nat, granted : Nat,
              priority : INVALIDATE..ACTIVE]

\* Every register holds a value of its type.
SendTypeOK ==
  /\ queue \in [Slots -> EntryType]
  /\ m_axis_tvalid \in BOOLEAN
  /\ m_axis_tdata \in EntryType

\* Slots that hold a message, or what the queue takes for one.
Holding(id) == {i \in Slots : IsMessage(queue[i]) /\ queue[i].rpc_id = id}

\* No message is duplicated or rewound by the swaps, the updates that travel
\* through the queue and the shift of a completed head: it has one slot at
\* most, with the bytes still owed.  A message not yet fully emitted has one,
\* unless an insert had to drop a message (MAX_RPCS is "the maximum number of
\* RPCs that we could be trying to send to"); that takes more messages live at
\* once than half the slots, wherever messages, updates and bubbles stand.
MessagesKept ==
  \A id \in Ids :
    IF Holding(id) = {} THEN id \in Live => crowded /\ 2 * peak > MAX_RPCS
    ELSE id \in Live /\ \E i \in Slots : Holding(id) = {i} /\ queue[i].remaining = owed[id]

\* The receiver gets every packet once ("The values in that entry are updated
\* to reflect that a single payload size of data has been sent"), and once more
\* for each insert in the cycle it takes it in: what it has, what is on the
\* output and what is owed add up to the message and those repetitions.
EachPacketOnce ==
  \A id \in Ids :
    received[id] + owed[id] + (IF OnOutput(id) THEN Bytes(m_axis_tdata) ELSE 0)
      = size[id] + repeated[id]

\* A packet is put on the output only when a grant was submitted for its
\* message that covers its first byte, and a notification that covers all of
\* it ("1) have at least 1 byte of granted data, and 2) the data is availible
\* on chip"): no update reaches the entry of another message.
SentOnlyWhenEligible ==
  [][\A id \in Ids :
       owed'[id] < owed[id] =>
         /\ grant[id] = 0 \/ grant[id] < owed[id]
         /\ buffer[id] = 0 \/ buffer[id] + PAYLOAD_SIZE <= owed[id]]_allvars

\* Every insert brings a message or lowers an offset, and no other cycle does.
Inserts == grant' # grant \/ buffer' # buffer \/ \E id \in Ids : owed'[id] > owed[id]

\* A message that is granted and buffered is sent, unless inserts keep coming
\* ("A grant arrives which needs to [...] potentially unblock it").
EligibleIsSent ==
  \/ []<><<Inserts>>_allvars
  \/ \A id \in Ids :
       (id \in Live /\ grant[id] = 0 /\ buffer[id] = 0) ~> (owed[id] = 0)

\* It is if messages come one at a time: no bubble or update that the message
\* itself leaves behind can get in its way.
LoneMessageIsSent == [](Cardinality(Live) <= 1) => EligibleIsSent
=============================================================================
