---------------------------- MODULE SrptFetchQueue ----------------------------
(***************************************************************************)
(* The fetch queue (TYPE "fetch") of srpt_queue.v: each dequeue requests   *)
(* one block of a message into its cache line and each sent packet frees   *)
(* PAYLOAD_SIZE bytes of it with a DBUFF_UPDATE insert.                    *)
(***************************************************************************)
EXTENDS SrptQueue

VARIABLES
  wanted,  \* per id: bytes of its message not yet requested
  cached   \* per id: bytes requested and not freed

fetches == <<wanted, cached>>
fetchvars == <<vars, fetches>>

Fetching == {id \in Ids : wanted[id] > 0}

-----------------------------------------------------------------------------
\* A message to fetch; its cache line is free.
Fetchable(id, ready) ==
  \E length \in Lengths :
    /\ wanted[id] = 0 /\ cached[id] = 0 /\ Cardinality(Fetching) < MaxLive
    /\ InsertCycle([rpc_id |-> id, dbuff_id |-> id, remaining |-> length,
                    dbuffered |-> 0, granted |-> 0, priority |-> ACTIVE], ready)
    /\ wanted' = [wanted EXCEPT ![id] = length]
    /\ Joins(Fetching)
    /\ UNCHANGED cached

\* A packet of the message was sent; before that, all its bytes were cached.
Free(id, ready) ==
  /\ id \in Fetching /\ cached[id] >= PAYLOAD_SIZE
  /\ InsertCycle([EmptyEntry EXCEPT !.dbuff_id = id, !.priority = DBUFF_UPDATE],
                 ready)
  /\ cached' = [cached EXCEPT ![id] = @ - PAYLOAD_SIZE]
  /\ UNCHANGED <<wanted, peak>>

\* The packets left when everything is requested do not notify the queue.
Drain(id) ==
  /\ wanted[id] = 0 /\ cached[id] > 0
  /\ cached' = [cached EXCEPT ![id] = 0]
  /\ UNCHANGED <<vars, wanted>>

Request(ready) ==
  LET id    == head.rpc_id
      bytes == IF head.remaining < CACHE_BLOCK_SIZE THEN head.remaining
                                                    ELSE CACHE_BLOCK_SIZE
  IN  /\ DequeueCycle(ready)
      /\ wanted' = [wanted EXCEPT ![id] = @ - bytes]
      /\ cached' = [cached EXCEPT ![id] = @ + bytes]

FetchInit ==
  /\ Type = "fetch"
  /\ Init
  /\ wanted = [id \in Ids |-> 0] /\ cached = wanted

FetchNext ==
  \/ \E ready \in BOOLEAN :
       \/ \E id \in Ids : Fetchable(id, ready) \/ Free(id, ready)
       \/ Request(ready)
       \/ IdleCycle(ready) /\ UNCHANGED fetches
  \/ StalledCycle /\ UNCHANGED fetches
  \/ \E id \in Ids : Drain(id)

FetchSpec == FetchInit /\ [][FetchNext]_fetchvars

-----------------------------------------------------------------------------
SlotsOf(id) == {i \in Slots : IsMessage(queue[i]) /\ queue[i].dbuff_id = id}

\* A message that is not fully requested keeps one slot, whose dbuffered never
\* counts less than the cache line holds: frees are not applied twice, nor to
\* another message, and a free under way or lost only counts too much.  It has
\* no slot only if an insert had to drop a message, which takes more messages
\* at once than half the slots.
OccupancyCovered ==
  \A id \in Fetching :
    \/ \E i \in Slots : /\ SlotsOf(id) = {i}
                        /\ queue[i].remaining = wanted[id]
                        /\ queue[i].dbuffered >= cached[id]
    \/ SlotsOf(id) = {} /\ crowded /\ 2 * peak > MAX_RPCS

\* The limit is compared with dbuffered before the request that is being made,
\* and packets are no multiples of blocks: the cache line of a message is still
\* overrun by less than one block.
CacheOverrunBounded == \A id \in Ids : cached[id] < CACHE_SIZE + CACHE_BLOCK_SIZE
=============================================================================
