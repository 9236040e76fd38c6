---------------------------- MODULE SrptQueueProofs ----------------------------
(***************************************************************************)
(* The SRPT queue, proved for every number of slots, ids, lengths, offsets *)
(* and sizes of packets, blocks and caches, however many messages there    *)
(* are: what an insert may drop, and when, is part of what is proved.      *)
(***************************************************************************)
EXTENDS SrptSendQueue, SrptFetchQueue, FiniteSetTheorems, TLAPS

\* The slots of the messages.
Messages(q) == {i \in Slots : IsMessage(q[i])}

\* What every entry is like.  The ids keep an update away from empty entries
\* and from other updates.
WellFormed(e) ==
  /\ e \in EntryType
  /\ IsMessage(e) => e.rpc_id \in Ids /\ e.dbuff_id = e.rpc_id /\ e.remaining > 0
  /\ e.priority = DBUFF_UPDATE => e.dbuff_id \in Ids /\ e.remaining = 0
  /\ e.priority = GRANT_UPDATE => e.rpc_id \in Ids /\ e.dbuff_id = 0 /\ e.remaining = 0
  /\ e.priority = EMPTY => e.rpc_id = 0 /\ e.dbuff_id = 0

\* The same message, or the same other entry.
Same(x, y) ==
  /\ x.rpc_id = y.rpc_id /\ x.dbuff_id = y.dbuff_id /\ x.remaining = y.remaining
  /\ IsMessage(x) <=> IsMessage(y)
  /\ ~IsMessage(x) => x = y

\* What the queue is before the comparisons of an insertion: everything one
\* slot further, the new entry in front.
Shifted(new) == [i \in Slots |-> IF i = 0 THEN new ELSE queue[i - 1]]

\* Where the entry a slot has after an insertion was in Shifted: in the slot
\* itself or in the other slot of the pair.
Origin(new) ==
  LET s == Shifted(new)
  IN  [i \in Slots |->
         IF i % 2 = 0 THEN IF GivesWay(s[i], s[i + 1]) THEN i + 1 ELSE i
                      ELSE IF GivesWay(s[i - 1], s[i]) THEN i - 1 ELSE i]

-----------------------------------------------------------------------------
\* The bytes left of every id, w, and the messages of a queue q: each has one
\* slot with its bytes.  The queue is complete if none has been dropped.
Owing(w) == {id \in Ids : w[id] > 0}
Distinct(q) ==
  \A i, j \in Messages(q) : q[i].rpc_id = q[j].rpc_id => i = j
Accounted(q, w) ==
  \A i \in Messages(q) : q[i].remaining = w[q[i].rpc_id]
Complete(q, w) ==
  \A id \in Owing(w) : \E i \in Messages(q) : q[i].rpc_id = id

\* Messages are never pushed far apart: no slot 1 without slot 0, and behind
\* the pair (0, 1) every even slot in front of a message is a message.
Paired(q) == 1 \in Messages(q) => 0 \in Messages(q)
Packed(q) ==
  \A i \in Messages(q), j \in Slots :
    j % 2 = 0 /\ 2 <= j /\ j <= i => j \in Messages(q)

\* Never do as many messages stand behind that pair as were live at once, p.
Far(q) == {q[i].rpc_id : i \in {k \in Messages(q) : k >= 2}}
Room(q, p) == Far(q) # {} => Cardinality(Far(q)) < p

Kept(q, w, p) ==
  /\ q \in [Slots -> EntryType] /\ w \in [Ids -> Nat]
  /\ \A i \in Slots : WellFormed(q[i])
  /\ q[MAX_RPCS - 1] = EmptyEntry
  /\ Distinct(q) /\ Accounted(q, w)
  /\ Paired(q) /\ Packed(q) /\ Room(q, p)
  /\ p \in Nat /\ IsFiniteSet(Owing(w)) /\ Cardinality(Owing(w)) <= p

\* No message is granted more, or buffered more, than was submitted for it, nor
\* will it be by an update that is still ahead of it.
Bounds(q, g, b) ==
  \A i \in Messages(q) :
    LET id == q[i].rpc_id
    IN  /\ q[i].granted >= g[id] /\ q[i].dbuffered >= b[id]
        /\ \A j \in Slots : j < i =>
             /\ q[j].priority = GRANT_UPDATE /\ q[j].rpc_id = id => q[j].granted >= g[id]
             /\ q[j].priority = DBUFF_UPDATE /\ q[j].dbuff_id = id => q[j].dbuffered >= b[id]

\* The frees that are still ahead of the message in slot i.
Ahead(q, i) ==
  {j \in Slots : j < i /\ q[j].priority = DBUFF_UPDATE /\ q[j].dbuff_id = q[i].dbuff_id}

\* The entry of a message counts what its cache line holds and what those frees
\* will take off, and is below the limit it is compared with.
Occupied(q, c) ==
  \A i \in Messages(q) :
    /\ q[i].dbuffered >= c[q[i].rpc_id] + PAYLOAD_SIZE * Cardinality(Ahead(q, i))
    /\ q[i].dbuffered < CACHE_SIZE + CACHE_BLOCK_SIZE
    /\ q[i].priority = ACTIVE => q[i].dbuffered < CACHE_SIZE

\* The sizes the hardware is built with: a cache line of a positive size, blocks
\* no larger than the payload of a packet, and offsets that do not wrap.
Sizes ==
  /\ CACHE_SIZE > 0 /\ CACHE_BLOCK_SIZE <= PAYLOAD_SIZE
  /\ CACHE_SIZE + CACHE_BLOCK_SIZE <= OffsetRange

-----------------------------------------------------------------------------
\* An update reaches the message it is for and no other entry; what passes is
\* unchanged.
LEMMA Passed ==
  ASSUME NEW low, NEW high, WellFormed(low), WellFormed(high), GivesWay(low, high)
  PROVE  /\ WellFormed(PassedBy(high, low)) /\ Same(PassedBy(high, low), high)
         /\ \/ PassedBy(high, low) = high
            \/ /\ Type = "sendmsg" /\ low.priority = DBUFF_UPDATE
               /\ low.dbuff_id = high.dbuff_id
               /\ PassedBy(high, low).dbuffered = low.dbuffered
               /\ PassedBy(high, low).granted = high.granted
            \/ /\ Type = "sendmsg" /\ low.priority = GRANT_UPDATE
               /\ low.rpc_id = high.rpc_id
               /\ PassedBy(high, low).granted = low.granted
               /\ PassedBy(high, low).dbuffered = high.dbuffered
            \/ /\ Type = "fetch" /\ low.priority = DBUFF_UPDATE
               /\ low.dbuff_id = high.dbuff_id
               /\ PassedBy(high, low).dbuffered
                    = (high.dbuffered - PAYLOAD_SIZE) % OffsetRange
               /\ PassedBy(high, low).priority = ACTIVE
<1> DEFINE x == PassedBy(high, low)
           buffers == low.priority = DBUFF_UPDATE /\ low.dbuff_id = high.dbuff_id
           grants  == low.priority = GRANT_UPDATE /\ low.rpc_id = high.rpc_id
<1> USE DEF INVALIDATE, DBUFF_UPDATE, GRANT_UPDATE, EMPTY, BLOCKED, ACTIVE
<1>1. /\ low \in EntryType /\ high \in EntryType
      /\ low.priority \in 0..5 /\ high.priority \in 0..5
      /\ low.remaining \in Nat /\ high.remaining \in Nat
      /\ low.dbuffered \in Nat /\ low.granted \in Nat /\ high.dbuffered \in Nat
  BY DEF WellFormed, EntryType
<1>2. ASSUME buffers \/ grants PROVE IsMessage(high)
  <2>1. high.priority # 1 /\ high.priority # 2
    BY <1>1, <1>2, IdsAssumption DEF WellFormed, GivesWay
  <2>2. high.priority # 0 /\ high.priority # 3
    BY <1>1, <1>2, IdsAssumption DEF WellFormed, GivesWay
  <2>3. QED
    BY <1>1, <2>1, <2>2 DEF IsMessage
<1>3. CASE Type = "sendmsg" /\ buffers
  <2>1. x = [high EXCEPT !.dbuffered = low.dbuffered, !.priority = 5]
    BY <1>3 DEF PassedBy
  <2> DEFINE y == [high EXCEPT !.dbuffered = low.dbuffered]
  <2>2. y \in EntryType
    BY <1>1 DEF EntryType
  <2>3. x = [y EXCEPT !.priority = 5]
    BY <2>1
  <2> HIDE DEF y
  <2>4. x \in EntryType
    BY <2>2, <2>3 DEF EntryType
  <2>5. /\ x.priority = 5 /\ x.dbuffered = low.dbuffered
        /\ x.granted = high.granted /\ x.rpc_id = high.rpc_id
        /\ x.dbuff_id = high.dbuff_id /\ x.remaining = high.remaining
    BY <1>1, <2>1 DEF EntryType
  <2>6. IsMessage(high) /\ IsMessage(x)
    BY <1>2, <1>3, <2>5 DEF IsMessage
  <2> HIDE DEF x
  <2>7. QED
    BY <1>3, <2>4, <2>5, <2>6 DEF WellFormed, Same, x
<1>4. CASE Type = "sendmsg" /\ ~buffers /\ grants
  <2>1. x = [high EXCEPT !.granted = low.granted, !.priority = 5]
    BY <1>4 DEF PassedBy
  <2> DEFINE y == [high EXCEPT !.granted = low.granted]
  <2>2. y \in EntryType
    BY <1>1 DEF EntryType
  <2>3. x = [y EXCEPT !.priority = 5]
    BY <2>1
  <2> HIDE DEF y
  <2>4. x \in EntryType
    BY <2>2, <2>3 DEF EntryType
  <2>5. /\ x.priority = 5 /\ x.granted = low.granted
        /\ x.dbuffered = high.dbuffered /\ x.rpc_id = high.rpc_id
        /\ x.dbuff_id = high.dbuff_id /\ x.remaining = high.remaining
    BY <1>1, <2>1 DEF EntryType
  <2>6. IsMessage(high) /\ IsMessage(x)
    BY <1>2, <1>4, <2>5 DEF IsMessage
  <2> HIDE DEF x
  <2>7. QED
    BY <1>4, <2>4, <2>5, <2>6 DEF WellFormed, Same, x
<1>5. CASE Type = "fetch" /\ buffers
  <2>1. x = [high EXCEPT !.dbuffered = (high.dbuffered - PAYLOAD_SIZE) % OffsetRange,
                         !.priority = 5]
    BY <1>5 DEF PassedBy
  <2>2. (high.dbuffered - PAYLOAD_SIZE) % OffsetRange \in Nat
    BY <1>1, BytesAssumption DEF OffsetRange
  <2> DEFINE y == [high EXCEPT !.dbuffered = (high.dbuffered - PAYLOAD_SIZE) % OffsetRange]
  <2>3. y \in EntryType
    BY <1>1, <2>2 DEF EntryType
  <2>4. x = [y EXCEPT !.priority = 5]
    BY <2>1
  <2> HIDE DEF y
  <2>5. x \in EntryType
    BY <2>3, <2>4 DEF EntryType
  <2>6. /\ x.priority = 5 /\ x.dbuffered = (high.dbuffered - PAYLOAD_SIZE) % OffsetRange
        /\ x.granted = high.granted /\ x.rpc_id = high.rpc_id
        /\ x.dbuff_id = high.dbuff_id /\ x.remaining = high.remaining
    BY <1>1, <2>1, <2>2 DEF EntryType
  <2>7. IsMessage(high) /\ IsMessage(x)
    BY <1>2, <1>5, <2>6 DEF IsMessage
  <2> HIDE DEF x
  <2>8. QED
    BY <1>5, <2>5, <2>6, <2>7 DEF WellFormed, Same, x
<1>6. CASE /\ ~(Type = "sendmsg" /\ buffers) /\ ~(Type = "sendmsg" /\ grants)
           /\ ~(Type = "fetch" /\ buffers)
  <2>1. x = high
    BY <1>6 DEF PassedBy
  <2>2. QED
    BY <2>1 DEF Same
<1>7. QED
  BY <1>3, <1>4, <1>5, <1>6
\* Slots come in pairs.
LEMMA Pairs ==
  /\ \A i \in Slots : i % 2 = 0 => i + 1 \in Slots /\ (i + 1) % 2 = 1
  /\ \A i \in Slots : i % 2 # 0 => i - 1 \in Slots /\ (i - 1) % 2 = 0
  /\ \A i \in Slots : i # 0 => i - 1 \in Slots /\ i \in Nat
  /\ MAX_RPCS - 1 \in Slots /\ (MAX_RPCS - 1) % 2 = 1 /\ 0 \in Slots /\ 1 \in Slots
<1>1. \A i \in Slots : i % 2 = 0 => i # MAX_RPCS - 1
  BY SlotsAssumption DEF Slots
<1>2. QED
  BY <1>1, SlotsAssumption DEF Slots

\* The origins of the two slots of a pair are the two slots of the pair.
LEMMA Origins ==
  ASSUME NEW new
  PROVE  /\ Origin(new) \in [Slots -> Slots]
         /\ \A i \in Slots : Origin(new)[Origin(new)[i]] = i
         /\ \A i \in Slots : i % 2 = 0 => Origin(new)[i] \in {i, i + 1}
         /\ \A i \in Slots : i % 2 # 0 => Origin(new)[i] \in {i - 1, i}
<1> DEFINE s == Shifted(new)
           o == Origin(new)
<1> HIDE DEF s
<1>1. \A i \in Slots : i % 2 = 0 =>
        /\ o[i] = IF GivesWay(s[i], s[i + 1]) THEN i + 1 ELSE i
        /\ o[i + 1] = IF GivesWay(s[i], s[i + 1]) THEN i ELSE i + 1
  <2> SUFFICES ASSUME NEW i \in Slots, i % 2 = 0
               PROVE  /\ o[i] = IF GivesWay(s[i], s[i + 1]) THEN i + 1 ELSE i
                      /\ o[i + 1] = IF GivesWay(s[i], s[i + 1]) THEN i ELSE i + 1
    OBVIOUS
  <2>1. o[i] = IF GivesWay(s[i], s[i + 1]) THEN i + 1 ELSE i
    BY DEF Origin, s
  <2>2. i + 1 \in Slots /\ (i + 1) % 2 # 0 /\ (i + 1) - 1 = i
    BY Pairs DEF Slots
  <2>3. o[i + 1] = IF GivesWay(s[(i + 1) - 1], s[i + 1]) THEN (i + 1) - 1 ELSE i + 1
    BY <2>2 DEF Origin, s
  <2>4. QED
    BY <2>1, <2>2, <2>3
<1>2. \A i \in Slots : i % 2 # 0 =>
        /\ o[i] = IF GivesWay(s[i - 1], s[i]) THEN i - 1 ELSE i
        /\ o[i - 1] = IF GivesWay(s[i - 1], s[i]) THEN i ELSE i - 1
  <2>1. ASSUME NEW i \in Slots, i % 2 # 0
        PROVE  (i - 1) + 1 = i /\ i - 1 \in Slots /\ (i - 1) % 2 = 0
    BY <2>1, Pairs DEF Slots
  <2>2. QED
    BY <1>1, <2>1
<1>3. o = [i \in Slots |-> o[i]]
  BY DEF Origin, s
<1> HIDE DEF o
<1>4. \A i \in Slots : o[i] \in Slots
  <2>1. \A i \in Slots : i % 2 = 0 => o[i] \in Slots
    BY <1>1, Pairs
  <2>2. \A i \in Slots : i % 2 # 0 => o[i] \in Slots
    BY <1>2, Pairs
  <2>3. QED
    BY <2>1, <2>2
<1>5. \A i \in Slots : i % 2 = 0 => o[i] \in {i, i + 1} /\ o[o[i]] = i
  BY <1>1
<1>6. \A i \in Slots : i % 2 # 0 => o[i] \in {i - 1, i} /\ o[o[i]] = i
  BY <1>2
<1>7. QED
  BY <1>3, <1>4, <1>5, <1>6 DEF o

\* An insertion moves every entry one slot on and compares the entries of a
\* pair: each slot but the last gets one of the two, at most with an update
\* applied; a message is in front of what is no message.
LEMMA Insertion ==
  ASSUME NEW new, WellFormed(new), \A i \in Slots : WellFormed(queue[i])
  PROVE  LET r == Inserted(new)  s == Shifted(new)  o == Origin(new)
         IN  /\ \A i \in Slots : WellFormed(s[i])
             /\ \A i \in Slots : i # MAX_RPCS - 1 => WellFormed(r[i]) /\ Same(r[i], s[o[i]])
             /\ r[MAX_RPCS - 1] = queue[MAX_RPCS - 1]
             /\ \A i \in Slots : i # MAX_RPCS - 1 =>
                  \/ r[i] = s[o[i]]
                  \/ /\ i % 2 = 0 /\ o[i] = i + 1 /\ GivesWay(s[i], s[i + 1])
                     /\ r[i] = PassedBy(s[i + 1], s[i])
             /\ \A i \in Slots : i % 2 = 0 /\
                  (IsMessage(s[i]) \/ IsMessage(s[i + 1])) => IsMessage(s[o[i]])
<1> DEFINE r == Inserted(new)
           s == Shifted(new)
           o == Origin(new)
<1>1. \A i \in Slots : WellFormed(s[i])
  BY Pairs DEF Shifted
<1>2. \A i \in Slots : i % 2 = 0 =>
        /\ o[i] = IF GivesWay(s[i], s[i + 1]) THEN i + 1 ELSE i
        /\ i # MAX_RPCS - 1
        /\ r[i] = IF GivesWay(s[i], s[i + 1]) THEN PassedBy(s[i + 1], s[i]) ELSE s[i]
  <2> SUFFICES ASSUME NEW i \in Slots, i % 2 = 0
               PROVE  /\ o[i] = IF GivesWay(s[i], s[i + 1]) THEN i + 1 ELSE i
                      /\ i # MAX_RPCS - 1
                      /\ r[i] = IF GivesWay(s[i], s[i + 1]) THEN PassedBy(s[i + 1], s[i])
                                                            ELSE s[i]
    OBVIOUS
  <2>1. o[i] = IF GivesWay(s[i], s[i + 1]) THEN i + 1 ELSE i
    BY DEF Origin
  <2>2. i # MAX_RPCS - 1
    BY Pairs
  <2>3. i + 1 \in Slots /\ i + 1 # 0 /\ (i + 1) - 1 = i
    BY Pairs DEF Slots
  <2>4. s[i] = (IF i = 0 THEN new ELSE queue[i - 1]) /\ s[i + 1] = queue[i]
    BY <2>3 DEF Shifted
  <2>5. r[i] = (IF i = 0 THEN Prioritized(new, queue[0])
                         ELSE Prioritized(queue[i - 1], queue[i]))[1]
    BY <2>2 DEF Inserted
  <2>6. r[i] = Prioritized(s[i], s[i + 1])[1]
    BY <2>4, <2>5
  <2>7. QED
    BY <2>1, <2>2, <2>6 DEF Prioritized
<1>3. \A i \in Slots : i % 2 # 0 =>
        /\ o[i] = IF GivesWay(s[i - 1], s[i]) THEN i - 1 ELSE i
        /\ r[i] = IF i = MAX_RPCS - 1 THEN queue[i] ELSE s[o[i]]
  <2> SUFFICES ASSUME NEW i \in Slots, i % 2 # 0
               PROVE  /\ o[i] = IF GivesWay(s[i - 1], s[i]) THEN i - 1 ELSE i
                      /\ r[i] = IF i = MAX_RPCS - 1 THEN queue[i] ELSE s[o[i]]
    OBVIOUS
  <2>1. o[i] = IF GivesWay(s[i - 1], s[i]) THEN i - 1 ELSE i
    BY DEF Origin
  <2>2. i - 1 \in Slots /\ i # 0 /\ (i - 1 = 0 <=> i = 1)
    BY Pairs DEF Slots
  <2>3. s[i] = queue[i - 1] /\ s[i - 1] = IF i - 1 = 0 THEN new ELSE queue[(i - 1) - 1]
    BY <2>2 DEF Shifted
  <2>4. r[i] = IF i = MAX_RPCS - 1 THEN queue[i]
               ELSE (IF i - 1 = 0 THEN Prioritized(new, queue[0])
                     ELSE Prioritized(queue[(i - 1) - 1], queue[i - 1]))[2]
    BY DEF Inserted
  <2>5. r[i] = IF i = MAX_RPCS - 1 THEN queue[i] ELSE Prioritized(s[i - 1], s[i])[2]
    BY <2>3, <2>4
  <2>6. Prioritized(s[i - 1], s[i])[2] = IF GivesWay(s[i - 1], s[i]) THEN s[i - 1] ELSE s[i]
    BY DEF Prioritized
  <2>7. QED
    BY <2>1, <2>5, <2>6
<1>4. r[MAX_RPCS - 1] = queue[MAX_RPCS - 1]
  BY <1>3, Pairs
<1> HIDE DEF r, s, o
<1>5. \A i \in Slots : i % 2 = 0 =>
        /\ WellFormed(r[i]) /\ Same(r[i], s[o[i]])
        /\ \/ r[i] = s[o[i]]
           \/ o[i] = i + 1 /\ GivesWay(s[i], s[i + 1]) /\ r[i] = PassedBy(s[i + 1], s[i])
  <2> SUFFICES ASSUME NEW i \in Slots, i % 2 = 0
               PROVE  /\ WellFormed(r[i]) /\ Same(r[i], s[o[i]])
                      /\ \/ r[i] = s[o[i]]
                         \/ /\ o[i] = i + 1 /\ GivesWay(s[i], s[i + 1])
                            /\ r[i] = PassedBy(s[i + 1], s[i])
    OBVIOUS
  <2>1. WellFormed(s[i]) /\ WellFormed(s[i + 1])
    BY <1>1, Pairs
  <2>2. CASE GivesWay(s[i], s[i + 1])
    BY <1>2, <2>1, <2>2, Passed
  <2>3. CASE ~GivesWay(s[i], s[i + 1])
    BY <1>2, <2>1, <2>3 DEF Same
  <2>4. QED
    BY <2>2, <2>3
<1>6. \A i \in Slots : i % 2 # 0 /\ i # MAX_RPCS - 1 =>
        WellFormed(r[i]) /\ Same(r[i], s[o[i]]) /\ r[i] = s[o[i]]
  BY <1>1, <1>3, Pairs DEF Same
<1>7. ASSUME NEW i \in Slots, i % 2 = 0, IsMessage(s[i]) \/ IsMessage(s[i + 1])
      PROVE  IsMessage(s[o[i]])
  <2>1. s[i].priority \in INVALIDATE..ACTIVE /\ s[i + 1].priority \in INVALIDATE..ACTIVE
    BY <1>1, <1>7, Pairs DEF WellFormed, EntryType
  <2>2. s[i].priority # s[i + 1].priority =>
          (GivesWay(s[i], s[i + 1]) <=> s[i].priority < s[i + 1].priority)
    BY DEF GivesWay
  <2>3. o[i] = IF GivesWay(s[i], s[i + 1]) THEN i + 1 ELSE i
    BY <1>2, <1>7
  <2>4. CASE IsMessage(s[i]) /\ IsMessage(s[i + 1])
    BY <2>3, <2>4
  <2>5. CASE IsMessage(s[i]) /\ ~IsMessage(s[i + 1])
    BY <2>1, <2>2, <2>3, <2>5 DEF IsMessage, BLOCKED, ACTIVE, INVALIDATE
  <2>6. CASE ~IsMessage(s[i]) /\ IsMessage(s[i + 1])
    BY <2>1, <2>2, <2>3, <2>6 DEF IsMessage, BLOCKED, ACTIVE, INVALIDATE
  <2>7. QED
    BY <1>7, <2>4, <2>5, <2>6
<1>8. QED
  BY <1>1, <1>4, <1>5, <1>6, <1>7 DEF r, s, o

-----------------------------------------------------------------------------
\* The ids behind the first pair are ids of messages that are owed bytes.
LEMMA FarOwing ==
  ASSUME NEW q, NEW w, NEW p, Kept(q, w, p)
  PROVE  /\ \A i \in Messages(q) : q[i].rpc_id \in Owing(w)
         /\ Far(q) \subseteq Owing(w)
         /\ IsFiniteSet(Far(q))
<1>1. \A i \in Messages(q) : q[i].rpc_id \in Owing(w)
  BY DEF Kept, WellFormed, Messages, Owing, Accounted
<1>2. Far(q) \subseteq Owing(w)
  BY <1>1 DEF Far
<1>3. IsFiniteSet(Far(q))
  BY <1>2, FS_Subset DEF Kept
<1>4. QED
  BY <1>1, <1>2, <1>3

\* There are n numbers from 1 to n.
LEMMA Counting ==
  ASSUME NEW n \in Nat
  PROVE  Cardinality(1..n) = n
<1>1. 1 \in Int /\ n \in Int
  OBVIOUS
<1>2. Cardinality(1..n) = IF 1 > n THEN 0 ELSE n - 1 + 1
  BY <1>1, FS_Interval, Zenon
<1>3. QED
  BY <1>2

\* The slots that an insertion pushes against the last one are not both
\* messages: then so many messages would stand there, in every second slot,
\* that there is no room for one of them.
LEMMA LastPair ==
  ASSUME NEW q, NEW w, NEW p, Kept(q, w, p), 2 * p <= MAX_RPCS
  PROVE  ~(MAX_RPCS - 3 \in Messages(q) /\ MAX_RPCS - 2 \in Messages(q))
<1> SUFFICES ASSUME MAX_RPCS - 3 \in Messages(q), MAX_RPCS - 2 \in Messages(q)
             PROVE  FALSE
  OBVIOUS
<1>1. \A i, j \in Messages(q) : q[i].rpc_id = q[j].rpc_id => i = j
  BY DEF Kept, Distinct
<1>2. CASE MAX_RPCS = 4
  <2>1. {0, 1, 2} \subseteq Messages(q)
    BY <1>2 DEF Kept, Paired
  <2> DEFINE f == [k \in 1..3 |-> q[k - 1].rpc_id]
  <2>2. f \in Injection(1..3, Owing(w))
    BY <1>1, <2>1, FarOwing DEF Injection, IsInjective
  <2>3. Cardinality(1..3) = 3
    BY Counting
  <2>4. 3 <= Cardinality(Owing(w))
    BY <2>2, <2>3, FS_Injection DEF Kept
  <2>5. QED
    BY <1>2, <2>4, FS_CardinalityType DEF Kept
<1>3. CASE MAX_RPCS >= 6
  <2>1. PICK half \in Nat : MAX_RPCS = 2 * half /\ half >= 3
    BY <1>3, SlotsAssumption
  <2> DEFINE slot(k) == IF k = half THEN MAX_RPCS - 3 ELSE 2 * k
             f == [k \in 1..half |-> q[slot(k)].rpc_id]
  <2>2. \A k \in 1..half : k # half => 2 * k \in Slots /\ (2 * k) % 2 = 0 /\ 2 <= 2 * k
                                      /\ 2 * k <= MAX_RPCS - 2
    BY <2>1 DEF Slots
  <2>3. \A k \in 1..half : slot(k) \in Messages(q) /\ slot(k) >= 2
    BY <1>3, <2>1, <2>2, SlotsAssumption DEF Kept, Packed
  <2>4. \A j, k \in 1..half : slot(j) = slot(k) => j = k
    BY <2>1
  <2> HIDE DEF slot
  <2>5. \A k \in 1..half : f[k] \in Far(q)
    BY <2>3 DEF Far
  <2>6. \A j, k \in 1..half : f[j] = f[k] => j = k
    BY <1>1, <2>3, <2>4
  <2>7. f \in Injection(1..half, Far(q))
    BY <2>5, <2>6 DEF Injection, IsInjective
  <2>8. Cardinality(1..half) = half
    BY <2>1, Counting
  <2>9. half <= Cardinality(Far(q))
    BY <2>7, <2>8, FS_Injection, FarOwing
  <2>10. Far(q) # {}
    BY <2>1, <2>5
  <2>11. Cardinality(Far(q)) \in Nat
    BY FarOwing, FS_CardinalityType
  <2>12. QED
    BY <2>1, <2>9, <2>10, <2>11 DEF Kept, Room
<1>4. QED
  BY <1>2, <1>3, SlotsAssumption

\* The messages before the comparisons of an insertion: those of the queue, one
\* slot further, and the new one, each with its bytes.
LEMMA ShiftKeeps ==
  ASSUME NEW w, NEW w2, NEW p, NEW p2 \in Nat, Kept(queue, w, p), p <= p2,
         NEW new, WellFormed(new),
         \/ ~IsMessage(new) /\ w2 = w
         \/ /\ IsMessage(new) /\ w[new.rpc_id] = 0
            /\ w2 = [w EXCEPT ![new.rpc_id] = new.remaining]
            /\ Cardinality(Owing(w)) < p2
  PROVE  /\ Shifted(new)[0] = new
         /\ \A i \in Slots : i # 0 => Shifted(new)[i] = queue[i - 1]
         /\ \A i \in Messages(Shifted(new)) : i = 0 \/ i - 1 \in Messages(queue)
         /\ \A i \in Messages(queue) : i + 1 \in Messages(Shifted(new))
         /\ Distinct(Shifted(new)) /\ Accounted(Shifted(new), w2)
         /\ w2 \in [Ids -> Nat]
         /\ IsFiniteSet(Owing(w2)) /\ Cardinality(Owing(w2)) <= p2
         /\ Complete(queue, w) => Complete(Shifted(new), w2)
<1> DEFINE s == Shifted(new)
<1>1. s[0] = new /\ \A i \in Slots : i # 0 => s[i] = queue[i - 1]
  BY Pairs DEF Shifted
<1>2. \A i \in Messages(s) : i = 0 \/ i - 1 \in Messages(queue)
  BY <1>1, Pairs DEF Messages
<1>3. \A i \in Messages(queue) : /\ i + 1 \in Messages(s) /\ s[i + 1] = queue[i]
                                 /\ i + 1 \in Slots /\ i + 1 # 0
  <2> SUFFICES ASSUME NEW i \in Messages(queue)
               PROVE  /\ i + 1 \in Messages(s) /\ s[i + 1] = queue[i]
                      /\ i + 1 \in Slots /\ i + 1 # 0
    OBVIOUS
  <2>1. i # MAX_RPCS - 1
    BY DEF Kept, EmptyEntry, Messages, IsMessage, BLOCKED, ACTIVE, EMPTY
  <2>2. i + 1 \in Slots /\ i + 1 # 0 /\ (i + 1) - 1 = i
    BY <2>1, SlotsAssumption DEF Slots, Messages
  <2>3. QED
    BY <1>1, <2>2 DEF Messages
<1> DEFINE Right == /\ Distinct(s) /\ Accounted(s, w2) /\ w2 \in [Ids -> Nat]
                    /\ IsFiniteSet(Owing(w2)) /\ Cardinality(Owing(w2)) <= p2
                    /\ Complete(queue, w) => Complete(s, w2)
<1> HIDE DEF s
<1>4. /\ \A i \in Messages(queue) : /\ queue[i].rpc_id \in Ids /\ w[queue[i].rpc_id] > 0
                                    /\ queue[i].remaining = w[queue[i].rpc_id]
      /\ w \in [Ids -> Nat]
  BY FarOwing DEF Owing, Kept, Accounted
<1>5. ASSUME ~IsMessage(new) /\ w2 = w PROVE Right
  <2>1. 0 \notin Messages(s)
    BY <1>1, <1>5 DEF Messages
  <2>2. Distinct(s)
    BY <1>1, <1>2, <2>1 DEF Distinct, Kept, Messages, Slots
  <2>3. Accounted(s, w2)
    BY <1>1, <1>2, <1>5, <2>1 DEF Accounted, Kept, Messages
  <2>4. Complete(queue, w) => Complete(s, w2)
    BY <1>3, <1>5 DEF Complete
  <2>5. IsFiniteSet(Owing(w)) /\ Cardinality(Owing(w)) <= p2
    <3>1. Cardinality(Owing(w)) \in Nat
      BY FS_CardinalityType DEF Kept
    <3>2. QED
      BY <3>1 DEF Kept
  <2>6. QED
    BY <1>4, <1>5, <2>2, <2>3, <2>4, <2>5
<1>6. ASSUME /\ IsMessage(new) /\ w[new.rpc_id] = 0
             /\ w2 = [w EXCEPT ![new.rpc_id] = new.remaining]
             /\ Cardinality(Owing(w)) < p2
      PROVE  Right
  <2>1. new.rpc_id \in Ids /\ new.remaining \in Nat /\ new.remaining > 0
    BY <1>6 DEF WellFormed, EntryType
  <2>2. \A i \in Messages(queue) : queue[i].rpc_id # new.rpc_id
    BY <1>4, <1>6
  <2>3. Distinct(s)
    <3>1. \A i \in Messages(s) : i # 0 => s[i].rpc_id # new.rpc_id
      BY <1>1, <1>2, <2>2 DEF Messages
    <3>2. \A i, j \in Messages(s) : i # 0 /\ j # 0 /\ s[i].rpc_id = s[j].rpc_id => i = j
      BY <1>1, <1>2 DEF Distinct, Kept, Messages, Slots
    <3>3. QED
      BY <1>1, <3>1, <3>2 DEF Distinct
  <2>4. w2 \in [Ids -> Nat] /\ w2[new.rpc_id] = new.remaining
        /\ \A id \in Ids : id # new.rpc_id => w2[id] = w[id]
    BY <1>4, <1>6, <2>1
  <2>5. Accounted(s, w2)
    <3>1. ASSUME NEW i \in Messages(s)
          PROVE  s[i].remaining = w2[s[i].rpc_id]
      BY <1>1, <1>2, <1>4, <2>2, <2>4, <3>1 DEF Messages
    <3>2. QED
      BY <3>1 DEF Accounted
  <2>6. ASSUME Complete(queue, w) PROVE Complete(s, w2)
    <3>1. ASSUME NEW id \in Owing(w2)
          PROVE  \E i \in Messages(s) : s[i].rpc_id = id
      <4>1. CASE id = new.rpc_id
        <5>1. 0 \in Messages(s)
          BY <1>1, <1>6, Pairs DEF Messages
        <5>2. QED
          BY <1>1, <4>1, <5>1
      <4>2. CASE id # new.rpc_id
        <5>1. id \in Owing(w)
          BY <2>4, <3>1, <4>2 DEF Owing
        <5>2. PICK i \in Messages(queue) : queue[i].rpc_id = id
          BY <2>6, <5>1 DEF Complete
        <5>3. QED
          BY <1>3, <5>2
      <4>3. QED
        BY <4>1, <4>2
    <3>2. QED
      BY <3>1 DEF Complete
  <2>7. Owing(w2) = Owing(w) \cup {new.rpc_id} /\ new.rpc_id \notin Owing(w)
    BY <1>6, <2>1, <2>4 DEF Owing
  <2>8. IsFiniteSet(Owing(w2)) /\ Cardinality(Owing(w2)) = Cardinality(Owing(w)) + 1
    <3>1. IsFiniteSet(Owing(w))
      BY DEF Kept
    <3>2. QED
      BY <2>7, <3>1, FS_AddElement
  <2>9. Cardinality(Owing(w)) \in Nat
    BY FS_CardinalityType DEF Kept
  <2>10. QED
    BY <1>6, <2>3, <2>4, <2>5, <2>8, <2>9, <2>6
<1>7. QED
  BY <1>1, <1>2, <1>3, <1>5, <1>6 DEF s

\* An insertion brings in the new message and keeps every other, unless both
\* slots of the last pair hold one.
LEMMA InsertKeeps ==
  ASSUME NEW w, NEW w2, NEW p, NEW p2 \in Nat, Kept(queue, w, p), p <= p2,
         NEW new, WellFormed(new),
         \/ ~IsMessage(new) /\ w2 = w
         \/ /\ IsMessage(new) /\ w[new.rpc_id] = 0
            /\ w2 = [w EXCEPT ![new.rpc_id] = new.remaining]
            /\ Cardinality(Owing(w)) < p2
  PROVE  /\ Kept(Inserted(new), w2, p2)
         /\ Complete(queue, w) /\ ~LastPairHeld => Complete(Inserted(new), w2)
<1> DEFINE r == Inserted(new)
           s == Shifted(new)
           o == Origin(new)
           last == MAX_RPCS - 1
<1>1. /\ s[0] = new
      /\ \A i \in Slots : i # 0 => s[i] = queue[i - 1]
      /\ \A i \in Messages(s) : i = 0 \/ i - 1 \in Messages(queue)
      /\ \A i \in Messages(queue) : i + 1 \in Messages(s)
      /\ Distinct(s) /\ Accounted(s, w2) /\ w2 \in [Ids -> Nat]
      /\ IsFiniteSet(Owing(w2)) /\ Cardinality(Owing(w2)) <= p2
      /\ Complete(queue, w) => Complete(s, w2)
  <2> HIDE DEF s
  <2>1. QED
    BY ShiftKeeps DEF s
<1>2. ~LastPairHeld => ~(last - 1 \in Messages(s) /\ last \in Messages(s))
  <2>1. last - 1 # 0 /\ (last - 1) - 1 = MAX_RPCS - 3
        /\ last # 0 /\ last - 1 = MAX_RPCS - 2
    BY SlotsAssumption
  <2> HIDE DEF s, last
  <2>2. last - 1 \in Messages(s) /\ last \in Messages(s) => LastPairHeld
    BY <1>1, <2>1 DEF LastPairHeld, Messages
  <2>3. QED
    BY <2>2
<1>3. /\ \A i \in Slots : WellFormed(s[i])
      /\ \A i \in Slots : i # last => WellFormed(r[i]) /\ Same(r[i], s[o[i]])
      /\ r[last] = EmptyEntry
      /\ \A i \in Slots : i % 2 = 0 /\
           (IsMessage(s[i]) \/ IsMessage(s[i + 1])) => IsMessage(s[o[i]])
  BY Insertion DEF Kept
<1>4. /\ o \in [Slots -> Slots] /\ \A i \in Slots : o[o[i]] = i
      /\ \A i \in Slots : i % 2 = 0 => o[i] \in {i, i + 1}
      /\ \A i \in Slots : i % 2 # 0 => o[i] \in {i - 1, i}
  BY Origins
<1>5. r = [i \in Slots |-> r[i]]
  BY DEF Inserted
<1>6. /\ last \in Slots /\ last % 2 = 1 /\ last - 1 \in Slots /\ (last - 1) % 2 = 0
      /\ last \in Nat /\ last >= 3
  BY SlotsAssumption DEF Slots
<1> HIDE DEF r, s, o, last
<1>7. \A i \in Slots : WellFormed(r[i])
  <2>1. WellFormed(EmptyEntry)
    BY <1>6 DEF last, Kept
  <2>2. QED
    BY <1>3, <2>1
<1>8. r \in [Slots -> EntryType]
  BY <1>5, <1>7 DEF WellFormed
<1>9. \A i \in Slots : /\ i \in Messages(s) <=> IsMessage(s[i])
                       /\ i \in Messages(r) <=> i # last /\ o[i] \in Messages(s)
  <2>1. last \notin Messages(r)
    BY <1>3 DEF EmptyEntry, Messages, IsMessage, BLOCKED, ACTIVE, EMPTY
  <2>2. QED
    BY <1>3, <1>4, <2>1 DEF Same, Messages
<1>10. \A i \in Slots : i % 2 = 0 /\ (i \in Messages(s) \/ i + 1 \in Messages(s)) =>
        o[i] \in Messages(s) /\ i \in Messages(r)
  <2>1. \A i \in Slots : i % 2 = 0 => i # last /\ i + 1 \in Slots
    BY <1>6, Pairs
  <2>2. QED
    BY <1>3, <1>4, <1>9, <2>1
<1>11. \A i \in Messages(r) : /\ i \in Slots /\ i # last /\ o[i] \in Messages(s)
                              /\ r[i].rpc_id = s[o[i]].rpc_id
                              /\ r[i].remaining = s[o[i]].remaining
  BY <1>3, <1>9 DEF Same, Messages
<1>12. ~LastPairHeld => \A i \in Messages(s) : o[i] \in Messages(r) /\ o[o[i]] = i
  <2> SUFFICES ASSUME ~LastPairHeld, NEW i \in Messages(s)
               PROVE  o[i] \in Messages(r) /\ o[o[i]] = i
    OBVIOUS
  <2>1. i \in Slots /\ o[i] \in Slots /\ o[o[i]] = i
    BY <1>4 DEF Messages
  <2>2. ASSUME o[i] = last PROVE FALSE
    <3>1. i = last \/ i = last - 1
      BY <1>4, <1>6, <2>1, <2>2
    <3>2. o[last - 1] \in Messages(s) /\ o[last] \in Messages(s) /\ (last - 1) + 1 = last
      BY <1>6, <1>10, <2>1, <2>2, <3>1
    <3>3. o[last] \in {last - 1, last} /\ o[last - 1] \in {last - 1, last}
          /\ last # last - 1
      BY <1>4, <1>6
    <3>4. o[last] # o[last - 1]
      BY <1>4, <1>6, <3>3
    <3>5. QED
      BY <1>2, <3>2, <3>3, <3>4
  <2>3. QED
    BY <1>9, <2>1, <2>2
<1>13. Distinct(r)
  <2>1. ASSUME NEW i \in Messages(r), NEW j \in Messages(r), r[i].rpc_id = r[j].rpc_id
        PROVE  i = j
    <3>1. o[i] = o[j]
      BY <1>1, <1>11, <2>1 DEF Distinct
    <3>2. QED
      BY <1>4, <1>11, <3>1
  <2>2. QED
    BY <2>1 DEF Distinct
<1>14. Accounted(r, w2)
  BY <1>1, <1>11 DEF Accounted
<1>15. ASSUME Complete(queue, w), ~LastPairHeld PROVE Complete(r, w2)
  <2>1. ASSUME NEW id \in Owing(w2) PROVE \E i \in Messages(r) : r[i].rpc_id = id
    <3>1. PICK i \in Messages(s) : s[i].rpc_id = id
      BY <1>1, <1>15 DEF Complete
    <3>2. o[i] \in Messages(r) /\ o[o[i]] = i
      BY <1>12, <1>15, <3>1
    <3>3. QED
      BY <1>11, <3>1, <3>2
  <2>2. QED
    BY <2>1 DEF Complete
<1>16. Paired(r)
  <2>1. ASSUME 1 \in Messages(r) PROVE 0 \in Messages(r)
    <3>1. o[1] \in {0, 1} /\ o[1] \in Messages(s)
      BY <1>4, <1>11, <2>1
    <3>2. QED
      BY <1>10, <3>1, Pairs
  <2>2. QED
    BY <2>1 DEF Paired
<1>17. Packed(r)
  <2>1. ASSUME NEW i \in Messages(r), NEW j \in Slots, j % 2 = 0, 2 <= j, j <= i
        PROVE  j \in Messages(r)
    <3>1. i \in Slots /\ o[i] \in Messages(s) /\ o[i] \in Slots
      BY <1>4, <1>11
    <3>2. CASE o[i] = j \/ o[i] = j + 1
      BY <1>10, <2>1, <3>1, <3>2
    <3>3. CASE o[i] # j /\ o[i] # j + 1
      <4>1. o[i] >= j + 2
        BY <1>4, <2>1, <3>1, <3>3 DEF Slots
      <4>2. o[i] - 1 \in Messages(queue) /\ o[i] - 1 >= j
        BY <1>1, <2>1, <3>1, <4>1 DEF Slots
      <4>3. j \in Messages(queue)
        BY <2>1, <4>2 DEF Kept, Packed
      <4>4. QED
        BY <1>1, <1>10, <2>1, <4>3
    <3>4. QED
      BY <3>2, <3>3
  <2>2. QED
    BY <2>1 DEF Packed
<1>18. Room(r, p2)
  <2>1. ASSUME NEW id \in Far(r)
        PROVE  \E k \in Messages(queue) : k >= 1 /\ queue[k].rpc_id = id
    <3>1. PICK i \in Messages(r) : i >= 2 /\ r[i].rpc_id = id
      BY DEF Far
    <3>2. i \in Slots /\ o[i] \in Slots /\ o[i] \in Messages(s) /\ s[o[i]].rpc_id = id
      BY <1>4, <1>11, <3>1
    <3>3. o[i] >= 2
      BY <1>4, <3>1, <3>2 DEF Slots
    <3>4. QED
      BY <1>1, <3>2, <3>3 DEF Slots
  <2>2. CASE 1 \in Messages(queue)
    <3>1. 0 \in Messages(queue)
      BY <2>2 DEF Kept, Paired
    <3>2. Far(r) \subseteq Owing(w) \ {queue[0].rpc_id} /\ queue[0].rpc_id \in Owing(w)
      BY <2>1, <3>1, FarOwing DEF Kept, Distinct
    <3>3. IsFiniteSet(Owing(w)) /\ Cardinality(Owing(w)) <= p /\ p \in Nat
          /\ Cardinality(Owing(w)) \in Nat
      BY FS_CardinalityType DEF Kept
    <3>4. /\ IsFiniteSet(Owing(w) \ {queue[0].rpc_id})
          /\ Cardinality(Owing(w) \ {queue[0].rpc_id}) = Cardinality(Owing(w)) - 1
      BY <3>2, <3>3, FS_RemoveElement
    <3>5. Cardinality(Far(r)) <= Cardinality(Owing(w)) - 1 /\ IsFiniteSet(Far(r))
      BY <3>2, <3>4, FS_Subset
    <3>6. Cardinality(Far(r)) \in Nat
      BY <3>5, FS_CardinalityType
    <3>7. QED
      BY <3>3, <3>5, <3>6 DEF Room
  <2>3. CASE 1 \notin Messages(queue)
    <3>1. ASSUME NEW id \in Far(r) PROVE id \in Far(queue)
      <4>1. PICK k \in Messages(queue) : k >= 1 /\ queue[k].rpc_id = id
        BY <2>1
      <4>2. k # 1 /\ k \in Slots
        BY <2>3, <4>1 DEF Messages
      <4>3. k >= 2
        BY <4>1, <4>2 DEF Slots
      <4>4. QED
        BY <4>1, <4>3 DEF Far
    <3>2. IsFiniteSet(Far(queue)) /\ Cardinality(Far(queue)) \in Nat
      BY FarOwing, FS_CardinalityType
    <3>3. Cardinality(Far(r)) <= Cardinality(Far(queue)) /\ IsFiniteSet(Far(r))
      <4>1. Far(r) \subseteq Far(queue)
        BY <3>1
      <4>2. QED
        BY <3>2, <4>1, FS_Subset
    <3>4. Cardinality(Far(r)) \in Nat
      BY <3>3, FS_CardinalityType
    <3>5. p \in Nat /\ (Far(queue) # {} => Cardinality(Far(queue)) < p)
      BY DEF Kept, Room
    <3>6. QED
      BY <3>1, <3>2, <3>3, <3>4, <3>5 DEF Room
  <2>4. QED
    BY <2>2, <2>3
<1>19. QED
  BY <1>1, <1>3, <1>7, <1>8, <1>13, <1>14, <1>16, <1>17, <1>18, <1>15 DEF Kept, r, last

-----------------------------------------------------------------------------
\* A dequeue moves the next slot up and leaves a bubble, or counts one step
\* down in the head; no other slot changes.
LEMMA DequeueShape ==
  ASSUME \A i \in Slots : WellFormed(queue[i]), queue \in [Slots -> EntryType],
         head.priority = ACTIVE
  PROVE  LET r == Dequeued
         IN  /\ r \in [Slots -> EntryType] /\ \A i \in Slots : WellFormed(r[i])
             /\ \A i \in Slots : i >= 2 => r[i] = queue[i]
             /\ Step \in Nat /\ Step > 0 /\ head.remaining \in Nat
             /\ LastStep => r[0] = queue[1] /\ r[1].priority = INVALIDATE
             /\ ~LastStep =>
                  /\ r[1] = queue[1]
                  /\ r[0].priority \in {BLOCKED, ACTIVE}
                  /\ r[0].rpc_id = head.rpc_id /\ r[0].dbuff_id = head.dbuff_id
                  /\ r[0].remaining = head.remaining - Step
                  /\ r[0].granted = head.granted
                  /\ Type = "sendmsg" => r[0].dbuffered = head.dbuffered
                  /\ Type # "sendmsg" =>
                       /\ r[0].dbuffered = (head.dbuffered + Step) % OffsetRange
                       /\ r[0].priority = IF CacheFull THEN BLOCKED ELSE ACTIVE
<1> DEFINE r == Dequeued
<1>1. /\ head \in EntryType /\ queue[1] \in EntryType
      /\ head.remaining \in Nat /\ head.dbuffered \in Nat /\ head.granted \in Nat
      /\ head.rpc_id \in Ids /\ head.dbuff_id = head.rpc_id
  BY Pairs DEF EntryType, head, WellFormed, IsMessage
<1>2. Step \in Nat /\ Step > 0
  BY BytesAssumption DEF Step
<1>3. CASE LastStep
  <2> DEFINE x == [queue[1] EXCEPT !.priority = INVALIDATE]
  <2>1. x \in EntryType /\ x.priority = INVALIDATE
    BY <1>1 DEF EntryType, INVALIDATE, ACTIVE
  <2>2. r = [queue EXCEPT ![0] = queue[1], ![1] = x]
    BY <1>3, Pairs DEF Dequeued, Completed
  <2> HIDE DEF x
  <2>3. /\ r \in [Slots -> EntryType] /\ r[0] = queue[1] /\ r[1] = x
        /\ \A i \in Slots : i >= 2 => r[i] = queue[i]
    BY <1>1, <2>1, <2>2, Pairs
  <2>4. WellFormed(x)
    BY <2>1 DEF WellFormed, IsMessage, INVALIDATE, DBUFF_UPDATE, GRANT_UPDATE, EMPTY,
                BLOCKED, ACTIVE
  <2>5. \A i \in Slots : WellFormed(r[i])
    BY <2>3, <2>4, Pairs DEF Slots
  <2>6. QED
    BY <1>1, <1>2, <1>3, <2>1, <2>3, <2>5
<1>4. CASE ~LastStep
  <2> DEFINE left == head.remaining - Step
             filled == (head.dbuffered + Step) % OffsetRange
             state == IF CacheFull THEN BLOCKED ELSE ACTIVE
             x == IF Type = "sendmsg" THEN [head EXCEPT !.remaining = left]
                  ELSE [[[head EXCEPT !.remaining = left] EXCEPT !.dbuffered = filled]
                          EXCEPT !.priority = state]
  <2>1. left \in Nat /\ left > 0
    BY <1>1, <1>2, <1>4 DEF LastStep
  <2>2. filled \in Nat
    BY <1>1, <1>2 DEF OffsetRange
  <2>3. state \in {BLOCKED, ACTIVE} /\ state \in INVALIDATE..ACTIVE
    BY DEF BLOCKED, ACTIVE, INVALIDATE
  <2>4. CASE Type = "sendmsg"
    <3>1. r = [queue EXCEPT ![0] = [head EXCEPT !.remaining = left]]
      BY <1>4, <2>4, Pairs DEF Dequeued, head
    <3> DEFINE y == [head EXCEPT !.remaining = left]
    <3>2. y \in EntryType
      BY <1>1, <2>1 DEF EntryType
    <3>3. /\ y.priority = ACTIVE /\ y.rpc_id = head.rpc_id /\ y.dbuff_id = head.dbuff_id
          /\ y.remaining = left /\ y.granted = head.granted /\ y.dbuffered = head.dbuffered
      BY <1>1 DEF EntryType
    <3> HIDE DEF y
    <3>4. r \in [Slots -> EntryType] /\ r[0] = y /\ \A i \in Slots : i # 0 => r[i] = queue[i]
      BY <3>1, <3>2, Pairs DEF y
    <3>5. WellFormed(y)
      BY <1>1, <2>1, <3>2, <3>3
         DEF WellFormed, IsMessage, DBUFF_UPDATE, GRANT_UPDATE, EMPTY, BLOCKED, ACTIVE
    <3>6. \A i \in Slots : WellFormed(r[i])
      BY <3>4, <3>5
    <3>7. QED
      BY <1>1, <1>2, <1>4, <2>4, <3>3, <3>4, <3>6, Pairs
  <2>5. CASE Type # "sendmsg"
    <3> HIDE DEF left, filled, state
    <3> DEFINE x1 == [head EXCEPT !.remaining = left]
               x2 == [x1 EXCEPT !.dbuffered = filled]
               y == [x2 EXCEPT !.priority = state]
    <3>1. r = [queue EXCEPT ![0] = y]
      <4> DEFINE z == [head EXCEPT !.remaining = head.remaining - Step,
                                   !.dbuffered = (head.dbuffered + Step) % OffsetRange,
                                   !.priority = IF CacheFull THEN BLOCKED
                                                             ELSE head.priority]
      <4>1. r = [queue EXCEPT ![0] = z]
        BY <1>4, <2>5 DEF Dequeued
      <4>2. z = y
        BY DEF left, filled, state
      <4> HIDE DEF z, y
      <4>3. QED
        BY <4>1, <4>2
    <3>2. /\ y.priority = state /\ y.rpc_id = head.rpc_id /\ y.dbuff_id = head.dbuff_id
          /\ y.remaining = left /\ y.granted = head.granted /\ y.dbuffered = filled
      BY <1>1 DEF EntryType
    <3>3. x1 \in EntryType
      BY <1>1, <2>1 DEF EntryType
    <3> HIDE DEF x1
    <3>4. x2 \in EntryType
      BY <2>2, <3>3 DEF EntryType
    <3> HIDE DEF x2
    <3>5. y \in EntryType
      BY <2>3, <3>4 DEF EntryType
    <3> HIDE DEF y
    <3>6. r \in [Slots -> EntryType] /\ r[0] = y /\ \A i \in Slots : i # 0 => r[i] = queue[i]
      BY <3>1, <3>5, Pairs
    <3>7. WellFormed(y)
      BY <1>1, <2>1, <2>3, <3>2, <3>5
         DEF WellFormed, IsMessage, DBUFF_UPDATE, GRANT_UPDATE, EMPTY, BLOCKED, ACTIVE
    <3>8. \A i \in Slots : WellFormed(r[i])
      BY <3>6, <3>7
    <3>9. QED
      BY <1>1, <1>2, <1>4, <2>3, <2>5, <3>2, <3>6, <3>8, Pairs DEF left, filled, state
  <2>6. QED
    BY <2>4, <2>5
<1>5. QED
  BY <1>3, <1>4

\* A dequeue takes at most one step from the bytes of the head, and no message
\* from the others.
LEMMA DequeueKeeps ==
  ASSUME NEW w, NEW w2, NEW p, Kept(queue, w, p), head.priority = ACTIVE,
         w2 = [w EXCEPT ![head.rpc_id] =
                 @ - IF head.remaining < Step THEN head.remaining ELSE Step]
  PROVE  Kept(Dequeued, w2, p) /\ (Complete(queue, w) => Complete(Dequeued, w2))
<1> DEFINE r == Dequeued
           id0 == head.rpc_id
<1>1. /\ queue \in [Slots -> EntryType] /\ w \in [Ids -> Nat]
      /\ \A i \in Slots : WellFormed(queue[i])
      /\ Distinct(queue) /\ Accounted(queue, w)
  BY DEF Kept
<1>2. /\ r \in [Slots -> EntryType] /\ \A i \in Slots : WellFormed(r[i])
      /\ \A i \in Slots : i >= 2 => r[i] = queue[i]
      /\ Step \in Nat /\ Step > 0 /\ head.remaining \in Nat
      /\ LastStep => r[0] = queue[1] /\ r[1].priority = INVALIDATE
      /\ ~LastStep => /\ r[1] = queue[1]
                      /\ r[0].priority \in {BLOCKED, ACTIVE}
                      /\ r[0].rpc_id = id0 /\ r[0].remaining = head.remaining - Step
  BY <1>1, DequeueShape
<1>3. 0 \in Messages(queue) /\ id0 \in Owing(w) /\ id0 \in Ids /\ w[id0] = head.remaining
  <2>1. 0 \in Messages(queue)
    BY Pairs DEF Messages, IsMessage, head
  <2>2. QED
    BY <1>1, <2>1, FarOwing DEF Owing, Accounted, head
<1>4. /\ w2 \in [Ids -> Nat]
      /\ w2[id0] = IF LastStep THEN 0 ELSE head.remaining - Step
      /\ \A id \in Ids : id # id0 => w2[id] = w[id]
  <2>1. w[id0] - (IF head.remaining < Step THEN head.remaining ELSE Step)
          = IF LastStep THEN 0 ELSE head.remaining - Step
    BY <1>2, <1>3 DEF LastStep
  <2>2. (IF LastStep THEN 0 ELSE head.remaining - Step) \in Nat
    BY <1>2 DEF LastStep
  <2>3. QED
    BY <1>1, <1>3, <2>1, <2>2
<1>5. \A i \in Slots : i = 0 \/ i = 1 \/ i >= 2
  BY DEF Slots
<1> HIDE DEF r, id0
<1>6. /\ LastStep => (0 \in Messages(r) <=> 1 \in Messages(queue)) /\ 1 \notin Messages(r)
      /\ ~LastStep => 0 \in Messages(r) /\ (1 \in Messages(r) <=> 1 \in Messages(queue))
      /\ \A i \in Slots : i >= 2 => (i \in Messages(r) <=> i \in Messages(queue))
  BY <1>2, Pairs DEF Messages, IsMessage, BLOCKED, ACTIVE, INVALIDATE
<1>7. \A i \in Messages(r) : i \in Slots
  BY DEF Messages
<1>8. \A i \in Messages(r) :
        /\ LastStep /\ i = 0 => 1 \in Messages(queue) /\ r[i] = queue[1]
        /\ LastStep => i # 1
        /\ ~LastStep /\ i = 0 => r[i].rpc_id = id0 /\ r[i].remaining = w2[id0]
        /\ ~LastStep /\ i = 1 => i \in Messages(queue) /\ r[i] = queue[i]
        /\ i >= 2 => i \in Messages(queue) /\ r[i] = queue[i]
  BY <1>2, <1>4, <1>6, <1>7
<1>9. \A i \in Messages(queue) : i # 0 => queue[i].rpc_id # id0 /\ queue[i].rpc_id \in Ids
  BY <1>1, <1>3, FarOwing DEF Distinct, Owing, head, id0
<1>10. Distinct(r)
  <2> SUFFICES ASSUME NEW i \in Messages(r), NEW j \in Messages(r), r[i].rpc_id = r[j].rpc_id
               PROVE  i = j
    BY DEF Distinct
  <2>1. CASE LastStep
    BY <1>1, <1>5, <1>7, <1>8, <2>1 DEF Distinct
  <2>2. CASE ~LastStep
    BY <1>1, <1>5, <1>7, <1>8, <1>9, <2>2 DEF Distinct
  <2>3. QED
    BY <2>1, <2>2
<1>11. Accounted(r, w2)
  <2>1. ASSUME NEW i \in Messages(r) PROVE r[i].remaining = w2[r[i].rpc_id]
    <3>1. CASE ~LastStep /\ i = 0
      BY <1>8, <3>1
    <3>2. CASE LastStep \/ i # 0
      <4>1. PICK k \in Messages(queue) : k # 0 /\ r[i] = queue[k]
        BY <1>5, <1>7, <1>8, <3>2
      <4>2. QED
        BY <1>1, <1>4, <1>9, <4>1 DEF Accounted
    <3>3. QED
      BY <3>1, <3>2
  <2>2. QED
    BY <2>1 DEF Accounted
<1>12. ASSUME Complete(queue, w) PROVE Complete(r, w2)
  <2>1. ASSUME NEW id \in Owing(w2) PROVE \E i \in Messages(r) : r[i].rpc_id = id
    <3>1. CASE id = id0
      BY <1>2, <1>4, <1>6, <2>1, <3>1 DEF Owing
    <3>2. CASE id # id0
      <4>1. id \in Owing(w)
        BY <1>4, <2>1, <3>2 DEF Owing
      <4>2. PICK i \in Messages(queue) : queue[i].rpc_id = id
        BY <1>12, <4>1 DEF Complete
      <4>3. i # 0 /\ i \in Slots
        BY <3>2, <4>2 DEF head, id0, Messages
      <4>4. QED
        BY <1>2, <1>5, <1>6, <4>2, <4>3
    <3>3. QED
      BY <3>1, <3>2
  <2>2. QED
    BY <2>1 DEF Complete
<1>13. Paired(r)
  BY <1>6 DEF Paired
<1>14. Packed(r)
  <2>1. \A i \in Messages(r), j \in Slots : 2 <= j /\ j <= i => i >= 2
    BY <1>7 DEF Slots
  <2>2. QED
    BY <1>6, <1>7, <2>1 DEF Packed, Kept
<1>15. Room(r, p)
  <2>1. Far(r) = Far(queue)
    BY <1>2, <1>6 DEF Far, Messages
  <2>2. QED
    BY <2>1 DEF Room, Kept
<1>16. IsFiniteSet(Owing(w2)) /\ Cardinality(Owing(w2)) <= p /\ p \in Nat
  <2>1. Owing(w2) \subseteq Owing(w)
    BY <1>3, <1>4 DEF Owing
  <2>2. IsFiniteSet(Owing(w2)) /\ Cardinality(Owing(w2)) <= Cardinality(Owing(w))
    BY <2>1, FS_Subset DEF Kept
  <2>3. Cardinality(Owing(w2)) \in Nat /\ Cardinality(Owing(w)) \in Nat
    BY <2>2, FS_CardinalityType DEF Kept
  <2>4. QED
    BY <2>2, <2>3 DEF Kept
<1>17. r[MAX_RPCS - 1] = EmptyEntry
  <2>1. MAX_RPCS - 1 \in Slots /\ MAX_RPCS - 1 >= 2
    BY SlotsAssumption DEF Slots
  <2>2. QED
    BY <1>2, <2>1 DEF Kept
<1>18. QED
  BY <1>2, <1>4, <1>10, <1>11, <1>13, <1>14, <1>15, <1>16, <1>17, <1>12 DEF Kept, r

-----------------------------------------------------------------------------
\* What is ahead of a message after an insertion was ahead of it before the
\* comparisons, except the update that has just reached it.
LEMMA AheadStays ==
  ASSUME NEW w, NEW p, Kept(queue, w, p), NEW new, WellFormed(new)
  PROVE  LET r == Inserted(new)  s == Shifted(new)  o == Origin(new)
         IN  \A i \in Messages(r) :
               /\ i \in Slots /\ o[i] \in Messages(s) /\ o[i] \in Slots
               /\ r[i].rpc_id = s[o[i]].rpc_id /\ r[i].dbuff_id = s[o[i]].dbuff_id
               /\ WellFormed(s[o[i]])
               /\ \A j \in Slots : j < i /\ ~IsMessage(r[j]) =>
                    r[j] = s[o[j]] /\ o[j] \in Slots /\ o[j] < o[i]
               /\ \/ r[i] = s[o[i]]
                  \/ /\ i % 2 = 0 /\ o[i] = i + 1 /\ GivesWay(s[i], s[i + 1])
                     /\ WellFormed(s[i]) /\ r[i] = PassedBy(s[i + 1], s[i])
                     /\ \A j \in Slots : j < i => o[j] # i
<1> DEFINE r == Inserted(new)
           s == Shifted(new)
           o == Origin(new)
           last == MAX_RPCS - 1
<1> SUFFICES ASSUME NEW i \in Messages(r)
             PROVE  /\ i \in Slots /\ o[i] \in Messages(s) /\ o[i] \in Slots
                    /\ r[i].rpc_id = s[o[i]].rpc_id /\ r[i].dbuff_id = s[o[i]].dbuff_id
                    /\ WellFormed(s[o[i]])
                    /\ \A j \in Slots : j < i /\ ~IsMessage(r[j]) =>
                         r[j] = s[o[j]] /\ o[j] \in Slots /\ o[j] < o[i]
                    /\ \/ r[i] = s[o[i]]
                       \/ /\ i % 2 = 0 /\ o[i] = i + 1 /\ GivesWay(s[i], s[i + 1])
                          /\ WellFormed(s[i]) /\ r[i] = PassedBy(s[i + 1], s[i])
                          /\ \A j \in Slots : j < i => o[j] # i
  OBVIOUS
<1>1. /\ \A k \in Slots : WellFormed(s[k])
      /\ \A k \in Slots : k # last => WellFormed(r[k]) /\ Same(r[k], s[o[k]])
      /\ r[last] = EmptyEntry
      /\ \A k \in Slots : k # last =>
           \/ r[k] = s[o[k]]
           \/ /\ k % 2 = 0 /\ o[k] = k + 1 /\ GivesWay(s[k], s[k + 1])
              /\ r[k] = PassedBy(s[k + 1], s[k])
      /\ \A k \in Slots : k % 2 = 0 /\
           (IsMessage(s[k]) \/ IsMessage(s[k + 1])) => IsMessage(s[o[k]])
  BY Insertion DEF Kept
<1>2. /\ o \in [Slots -> Slots]
      /\ \A k \in Slots : k % 2 = 0 => o[k] \in {k, k + 1}
      /\ \A k \in Slots : k % 2 # 0 => o[k] \in {k - 1, k}
  BY Origins
<1>3. last \in Slots /\ last \in Int /\ \A k \in Slots : k \in Int /\ k <= last
  BY SlotsAssumption DEF Slots
<1> HIDE DEF r, s, o, last
<1>4. i \in Slots /\ i # last /\ IsMessage(r[i])
  BY <1>1 DEF Messages, EmptyEntry, IsMessage, BLOCKED, ACTIVE, EMPTY
<1>5. /\ o[i] \in Slots /\ IsMessage(s[o[i]]) /\ WellFormed(s[o[i]]) /\ o[i] \in Messages(s)
      /\ r[i].rpc_id = s[o[i]].rpc_id /\ r[i].dbuff_id = s[o[i]].dbuff_id
  BY <1>1, <1>2, <1>4 DEF Same, Messages
<1>6. ASSUME NEW j \in Slots, j < i, ~IsMessage(r[j])
      PROVE  r[j] = s[o[j]] /\ o[j] \in Slots /\ o[j] < o[i]
  <2>1. j # last /\ j \in Int /\ i \in Int
    BY <1>3, <1>4, <1>6
  <2>2. r[j] = s[o[j]] /\ o[j] \in Slots /\ ~IsMessage(s[o[j]])
    BY <1>1, <1>2, <1>6, <2>1 DEF Same
  <2>3. ~(j % 2 = 0 /\ i = j + 1)
    <3>1. ASSUME j % 2 = 0, i = j + 1 PROVE FALSE
      <4>1. i % 2 # 0 /\ i - 1 = j
        BY <2>1, <3>1
      <4>2. o[i] \in {j, j + 1}
        BY <1>2, <1>4, <3>1, <4>1
      <4>3. QED
        BY <1>1, <1>5, <2>2, <3>1, <4>2
    <3>2. QED
      BY <3>1
  <2>4. CASE j % 2 = 0
    <3>1. o[j] \in {j, j + 1} /\ (i % 2 = 0 => o[i] \in {i, i + 1})
          /\ (i % 2 # 0 => o[i] \in {i - 1, i})
      BY <1>2, <1>4, <2>4
    <3>2. i # j + 1
      BY <2>3, <2>4
    <3>3. i >= j + 2
      BY <1>6, <2>1, <3>2
    <3>4. i % 2 # 0 => i >= j + 3
      BY <2>1, <2>4, <3>3
    <3>5. QED
      BY <2>1, <2>2, <3>1, <3>3, <3>4
  <2>5. CASE j % 2 # 0
    <3>1. o[j] \in {j - 1, j} /\ (i % 2 = 0 => o[i] \in {i, i + 1})
          /\ (i % 2 # 0 => o[i] \in {i - 1, i})
      BY <1>2, <1>4, <2>5
    <3>2. i % 2 # 0 => i >= j + 2
      BY <1>6, <2>1, <2>5
    <3>3. QED
      BY <1>6, <2>1, <2>2, <3>1, <3>2
  <2>6. QED
    BY <2>4, <2>5
<1>7. ASSUME i % 2 = 0, NEW j \in Slots, j < i
      PROVE  o[j] # i
  <2>1. CASE j % 2 = 0
    <3>1. o[j] \in {j, j + 1} /\ i # j + 1
      BY <1>2, <1>3, <1>4, <1>7, <2>1
    <3>2. QED
      BY <1>3, <1>4, <1>7, <3>1
  <2>2. CASE j % 2 # 0
    <3>1. o[j] \in {j - 1, j}
      BY <1>2, <2>2
    <3>2. QED
      BY <1>3, <1>4, <1>7, <3>1
  <2>3. QED
    BY <2>1, <2>2
<1>8. QED
  BY <1>1, <1>4, <1>5, <1>6, <1>7

-----------------------------------------------------------------------------
\* An insertion keeps the offsets of the messages within what was submitted.
LEMMA InsertBounds ==
  ASSUME Type = "sendmsg", NEW w, NEW p, Kept(queue, w, p), NEW new, WellFormed(new),
         NEW g \in [Ids -> Nat], NEW b \in [Ids -> Nat], Bounds(queue, g, b),
         NEW g2 \in [Ids -> Nat], NEW b2 \in [Ids -> Nat],
         \A i \in Messages(queue) : /\ g2[queue[i].rpc_id] <= g[queue[i].rpc_id]
                                    /\ b2[queue[i].rpc_id] <= b[queue[i].rpc_id],
         IsMessage(new) => new.granted >= g2[new.rpc_id] /\ new.dbuffered >= b2[new.rpc_id],
         new.priority = GRANT_UPDATE => new.granted >= g2[new.rpc_id],
         new.priority = DBUFF_UPDATE => new.dbuffered >= b2[new.dbuff_id]
  PROVE  Bounds(Inserted(new), g2, b2)
<1> DEFINE r == Inserted(new)
           s == Shifted(new)
           o == Origin(new)
<1>1. /\ s[0] = new
      /\ \A i \in Slots : i # 0 => s[i] = queue[i - 1] /\ i - 1 \in Slots
      /\ \A i \in Messages(s) : i = 0 \/ i - 1 \in Messages(queue)
  BY Pairs DEF Shifted, Messages
<1>2. \A i \in Messages(r) :
        /\ i \in Slots /\ o[i] \in Messages(s) /\ o[i] \in Slots
        /\ r[i].rpc_id = s[o[i]].rpc_id /\ r[i].dbuff_id = s[o[i]].dbuff_id
        /\ WellFormed(s[o[i]])
        /\ \A j \in Slots : j < i /\ ~IsMessage(r[j]) =>
             r[j] = s[o[j]] /\ o[j] \in Slots /\ o[j] < o[i]
        /\ \/ r[i] = s[o[i]]
           \/ /\ i % 2 = 0 /\ o[i] = i + 1 /\ GivesWay(s[i], s[i + 1])
              /\ WellFormed(s[i]) /\ r[i] = PassedBy(s[i + 1], s[i])
  BY AheadStays
<1> HIDE DEF r, s, o
<1>3. \A e : WellFormed(e) => e.granted \in Nat /\ e.dbuffered \in Nat
  BY DEF WellFormed, EntryType
<1>4. \A i \in Messages(queue) : queue[i].rpc_id \in Ids
  BY FarOwing DEF Owing
<1>5. \A i \in Slots : queue[i].granted \in Nat /\ queue[i].dbuffered \in Nat
  BY <1>3 DEF Kept
<1>6. Bounds(s, g2, b2)
  <2> SUFFICES ASSUME NEW i \in Messages(s)
               PROVE  /\ s[i].granted >= g2[s[i].rpc_id] /\ s[i].dbuffered >= b2[s[i].rpc_id]
                      /\ \A j \in Slots : j < i =>
                           /\ s[j].priority = GRANT_UPDATE /\ s[j].rpc_id = s[i].rpc_id
                                => s[j].granted >= g2[s[i].rpc_id]
                           /\ s[j].priority = DBUFF_UPDATE /\ s[j].dbuff_id = s[i].rpc_id
                                => s[j].dbuffered >= b2[s[i].rpc_id]
    BY DEF Bounds
  <2>1. CASE i = 0
    BY <1>1, <2>1 DEF Messages, Slots
  <2>2. CASE i # 0
    <3> DEFINE k == i - 1
               id == queue[k].rpc_id
    <3>1. k \in Messages(queue) /\ s[i] = queue[k] /\ k \in Slots /\ i \in Slots
      BY <1>1, <2>2 DEF Messages
    <3>2. /\ id \in Ids /\ g[id] \in Nat /\ b[id] \in Nat /\ g2[id] \in Nat /\ b2[id] \in Nat
          /\ g2[id] <= g[id] /\ b2[id] <= b[id]
          /\ queue[k].granted >= g[id] /\ queue[k].dbuffered >= b[id]
          /\ queue[k].granted \in Nat /\ queue[k].dbuffered \in Nat
      BY <1>4, <1>5, <3>1 DEF Bounds
    <3> HIDE DEF k
    <3>3. ASSUME NEW j \in Slots, j < i
          PROVE  /\ s[j].priority = GRANT_UPDATE /\ s[j].rpc_id = id => s[j].granted >= g2[id]
                 /\ s[j].priority = DBUFF_UPDATE /\ s[j].dbuff_id = id
                      => s[j].dbuffered >= b2[id]
      <4>1. CASE j = 0
        BY <1>1, <4>1
      <4>2. CASE j # 0
        <5>1. s[j] = queue[j - 1] /\ j - 1 \in Slots /\ j - 1 < k
          BY <1>1, <3>1, <3>3, <4>2 DEF k, Slots
        <5>2. /\ queue[j - 1].priority = GRANT_UPDATE /\ queue[j - 1].rpc_id = id
                   => queue[j - 1].granted >= g[id]
              /\ queue[j - 1].priority = DBUFF_UPDATE /\ queue[j - 1].dbuff_id = id
                   => queue[j - 1].dbuffered >= b[id]
          BY <3>1, <5>1 DEF Bounds
        <5>3. queue[j - 1].granted \in Nat /\ queue[j - 1].dbuffered \in Nat
          BY <1>5, <5>1
        <5>4. QED
          BY <3>2, <5>1, <5>2, <5>3
      <4>3. QED
        BY <4>1, <4>2
    <3>4. QED
      BY <3>1, <3>2, <3>3
  <2>3. QED
    BY <2>1, <2>2
<1>7. SUFFICES ASSUME NEW i \in Messages(r)
               PROVE  LET id == r[i].rpc_id
                      IN  /\ r[i].granted >= g2[id] /\ r[i].dbuffered >= b2[id]
                          /\ \A j \in Slots : j < i =>
                               /\ r[j].priority = GRANT_UPDATE /\ r[j].rpc_id = id
                                    => r[j].granted >= g2[id]
                               /\ r[j].priority = DBUFF_UPDATE /\ r[j].dbuff_id = id
                                    => r[j].dbuffered >= b2[id]
  BY DEF Bounds, r
<1> DEFINE id == s[o[i]].rpc_id
<1>8. /\ s[o[i]].granted >= g2[id] /\ s[o[i]].dbuffered >= b2[id]
      /\ \A j \in Slots : j < o[i] =>
           /\ s[j].priority = GRANT_UPDATE /\ s[j].rpc_id = id => s[j].granted >= g2[id]
           /\ s[j].priority = DBUFF_UPDATE /\ s[j].dbuff_id = id => s[j].dbuffered >= b2[id]
  BY <1>2, <1>6 DEF Bounds
<1>9. \A j \in Slots : j < i =>
        /\ r[j].priority = GRANT_UPDATE /\ r[j].rpc_id = id => r[j].granted >= g2[id]
        /\ r[j].priority = DBUFF_UPDATE /\ r[j].dbuff_id = id => r[j].dbuffered >= b2[id]
  <2>1. \A e : e.priority = GRANT_UPDATE \/ e.priority = DBUFF_UPDATE => ~IsMessage(e)
    BY DEF IsMessage, GRANT_UPDATE, DBUFF_UPDATE, BLOCKED, ACTIVE
  <2>2. \A j \in Slots : j < i /\ ~IsMessage(r[j]) =>
          r[j] = s[o[j]] /\ o[j] \in Slots /\ o[j] < o[i]
    BY <1>2
  <2>3. QED
    BY <1>8, <2>1, <2>2
<1>10. r[i].granted >= g2[id] /\ r[i].dbuffered >= b2[id]
  <2>1. CASE r[i] = s[o[i]]
    BY <1>8, <2>1
  <2>2. CASE r[i] # s[o[i]]
    <3>1. /\ i \in Slots /\ o[i] = i + 1 /\ GivesWay(s[i], s[i + 1])
          /\ WellFormed(s[i]) /\ WellFormed(s[i + 1]) /\ r[i] = PassedBy(s[i + 1], s[i])
      BY <1>2, <2>2
    <3>2. IsMessage(s[i + 1]) /\ s[i + 1].dbuff_id = s[i + 1].rpc_id
      BY <1>2, <3>1 DEF WellFormed, Messages
    <3>3. i < i + 1
      BY <3>1 DEF Slots
    <3>4. \/ r[i] = s[i + 1]
          \/ /\ s[i].priority = DBUFF_UPDATE /\ s[i].dbuff_id = s[i + 1].dbuff_id
             /\ r[i].dbuffered = s[i].dbuffered /\ r[i].granted = s[i + 1].granted
          \/ /\ s[i].priority = GRANT_UPDATE /\ s[i].rpc_id = s[i + 1].rpc_id
             /\ r[i].granted = s[i].granted /\ r[i].dbuffered = s[i + 1].dbuffered
      BY <3>1, Passed
    <3>5. QED
      BY <1>8, <3>1, <3>2, <3>3, <3>4
  <2>3. QED
    BY <2>1, <2>2
<1>11. QED
  BY <1>2, <1>9, <1>10

\* A dequeue keeps them too.
LEMMA DequeueBounds ==
  ASSUME Type = "sendmsg", NEW w, NEW p, Kept(queue, w, p), head.priority = ACTIVE,
         NEW g, NEW b, Bounds(queue, g, b)
  PROVE  Bounds(Dequeued, g, b)
<1> DEFINE r == Dequeued
<1>1. /\ \A i \in Slots : i >= 2 => r[i] = queue[i]
      /\ LastStep => r[0] = queue[1] /\ r[1].priority = INVALIDATE
      /\ ~LastStep => /\ r[1] = queue[1] /\ r[0].priority \in {BLOCKED, ACTIVE}
                      /\ r[0].rpc_id = head.rpc_id /\ r[0].granted = head.granted
                      /\ r[0].dbuffered = head.dbuffered
  BY DequeueShape DEF Kept
<1>2. /\ INVALIDATE \notin {BLOCKED, ACTIVE, GRANT_UPDATE, DBUFF_UPDATE}
      /\ GRANT_UPDATE \notin {BLOCKED, ACTIVE} /\ DBUFF_UPDATE \notin {BLOCKED, ACTIVE}
  BY DEF INVALIDATE, BLOCKED, ACTIVE, GRANT_UPDATE, DBUFF_UPDATE
<1>3. 0 \in Messages(queue)
  BY Pairs DEF Messages, IsMessage, head
<1>4. \A i \in Slots : i \in Nat /\ (i = 0 \/ i = 1 \/ i >= 2)
  BY DEF Slots
<1> HIDE DEF r
<1> SUFFICES ASSUME NEW i \in Messages(r)
             PROVE  /\ r[i].granted >= g[r[i].rpc_id] /\ r[i].dbuffered >= b[r[i].rpc_id]
                    /\ \A j \in Slots : j < i =>
                         /\ r[j].priority = GRANT_UPDATE /\ r[j].rpc_id = r[i].rpc_id
                              => r[j].granted >= g[r[i].rpc_id]
                         /\ r[j].priority = DBUFF_UPDATE /\ r[j].dbuff_id = r[i].rpc_id
                              => r[j].dbuffered >= b[r[i].rpc_id]
  BY DEF Bounds, r
<1>5. i \in Slots /\ IsMessage(r[i])
  BY DEF Messages
<1>6. CASE LastStep
  <2>1. i # 1
    BY <1>1, <1>2, <1>5, <1>6 DEF IsMessage
  <2>2. PICK k \in Messages(queue) : r[i] = queue[k] /\ i <= k /\ k >= 1
                                    /\ (i = 0 => k = 1) /\ (i # 0 => k = i)
    BY <1>1, <1>4, <1>5, <1>6, <2>1, Pairs DEF Messages
  <2>3. ASSUME NEW j \in Slots, j < i
        PROVE  r[j].priority = INVALIDATE \/ \E m \in Slots : m < k /\ r[j] = queue[m]
    BY <1>1, <1>4, <1>5, <1>6, <2>1, <2>2, <2>3, Pairs
  <2>4. QED
    BY <1>2, <2>2, <2>3 DEF Bounds
<1>7. CASE ~LastStep
  <2>1. PICK k \in Messages(queue) : /\ k = i /\ r[i].rpc_id = queue[k].rpc_id
                                     /\ r[i].granted = queue[k].granted
                                     /\ r[i].dbuffered = queue[k].dbuffered
    BY <1>1, <1>3, <1>4, <1>5, <1>7 DEF Messages, head
  <2>2. ASSUME NEW j \in Slots, j < i
        PROVE  r[j].priority \in {BLOCKED, ACTIVE} \/ r[j] = queue[j]
    BY <1>1, <1>4, <1>7, <2>2
  <2>3. QED
    BY <1>2, <2>1, <2>2 DEF Bounds
<1>8. QED
  BY <1>6, <1>7

\* The empty queue is as it should be.
LEMMA InitKeeps ==
  ASSUME Init, NEW w, w = [id \in Ids |-> 0]
  PROVE  Kept(queue, w, 0) /\ Complete(queue, w) /\ Messages(queue) = {}
<1>1. EmptyEntry \in EntryType
  BY DEF EmptyEntry, EntryType, INVALIDATE, ACTIVE, EMPTY
<1>2. WellFormed(EmptyEntry) /\ ~IsMessage(EmptyEntry)
  BY <1>1 DEF WellFormed, EmptyEntry, IsMessage, DBUFF_UPDATE, GRANT_UPDATE, EMPTY,
              BLOCKED, ACTIVE
<1>3. /\ queue \in [Slots -> EntryType] /\ w \in [Ids -> Nat]
      /\ \A i \in Slots : queue[i] = EmptyEntry
  BY <1>1 DEF Init
<1>4. Messages(queue) = {}
  BY <1>2, <1>3 DEF Messages
<1>5. Owing(w) = {} /\ Far(queue) = {}
  BY <1>4 DEF Owing, Far
<1>6. /\ Distinct(queue) /\ Accounted(queue, w) /\ Complete(queue, w)
      /\ Paired(queue) /\ Packed(queue) /\ Room(queue, 0)
  BY <1>4, <1>5 DEF Distinct, Accounted, Complete, Paired, Packed, Room
<1>7. IsFiniteSet(Owing(w)) /\ Cardinality(Owing(w)) <= 0
  BY <1>5, FS_EmptySet
<1>8. QED
  BY <1>2, <1>3, <1>4, <1>6, <1>7, Pairs DEF Kept

\* The entries of the insertions, and that they are well formed.
MessageEntry(id, length, x, y) ==
  [rpc_id |-> id, dbuff_id |-> id, remaining |-> length, dbuffered |-> x, granted |-> y,
   priority |-> ACTIVE]
GrantEntry(id, y) ==
  [EmptyEntry EXCEPT !.rpc_id = id, !.granted = y, !.priority = GRANT_UPDATE]
NoticeEntry(id, x) ==
  [EmptyEntry EXCEPT !.dbuff_id = id, !.dbuffered = x, !.priority = DBUFF_UPDATE]
FreedEntry(id) ==
  [EmptyEntry EXCEPT !.dbuff_id = id, !.priority = DBUFF_UPDATE]

LEMMA NewEntries ==
  ASSUME NEW id \in Ids, NEW length \in Nat \ {0}, NEW x \in Nat, NEW y \in Nat
  PROVE  /\ WellFormed(MessageEntry(id, length, x, y))
         /\ IsMessage(MessageEntry(id, length, x, y))
         /\ WellFormed(GrantEntry(id, y)) /\ ~IsMessage(GrantEntry(id, y))
         /\ GrantEntry(id, y).priority = GRANT_UPDATE
         /\ GrantEntry(id, y).rpc_id = id /\ GrantEntry(id, y).granted = y
         /\ WellFormed(NoticeEntry(id, x)) /\ ~IsMessage(NoticeEntry(id, x))
         /\ NoticeEntry(id, x).priority = DBUFF_UPDATE
         /\ NoticeEntry(id, x).dbuff_id = id /\ NoticeEntry(id, x).dbuffered = x
         /\ WellFormed(FreedEntry(id)) /\ ~IsMessage(FreedEntry(id))
         /\ FreedEntry(id).priority = DBUFF_UPDATE /\ FreedEntry(id).dbuff_id = id
<1> USE DEF INVALIDATE, DBUFF_UPDATE, GRANT_UPDATE, EMPTY, BLOCKED, ACTIVE
<1> DEFINE message == MessageEntry(id, length, x, y)
           update  == GrantEntry(id, y)
           notice  == NoticeEntry(id, x)
           freed   == FreedEntry(id)
<1>1. WellFormed(message) /\ IsMessage(message)
  BY DEF WellFormed, EntryType, IsMessage, MessageEntry
<1>2. update = [rpc_id |-> id, dbuff_id |-> 0, remaining |-> 0, dbuffered |-> 0,
                granted |-> y, priority |-> GRANT_UPDATE]
  <2> DEFINE e1 == [EmptyEntry EXCEPT !.rpc_id = id]
             e2 == [e1 EXCEPT !.granted = y]
  <2>1. e1 = [rpc_id |-> id, dbuff_id |-> 0, remaining |-> 0, dbuffered |-> 0,
              granted |-> 0, priority |-> 3]
    BY DEF EmptyEntry
  <2> HIDE DEF e1
  <2>2. e2 = [rpc_id |-> id, dbuff_id |-> 0, remaining |-> 0, dbuffered |-> 0,
              granted |-> y, priority |-> 3]
    BY <2>1
  <2>3. update = [e2 EXCEPT !.priority = 2]
    BY DEF e1, GrantEntry
  <2> HIDE DEF e2
  <2>4. QED
    BY <2>2, <2>3
<1>3. notice = [rpc_id |-> 0, dbuff_id |-> id, remaining |-> 0, dbuffered |-> x,
                granted |-> 0, priority |-> DBUFF_UPDATE]
  <2> DEFINE e1 == [EmptyEntry EXCEPT !.dbuff_id = id]
             e2 == [e1 EXCEPT !.dbuffered = x]
  <2>1. e1 = [rpc_id |-> 0, dbuff_id |-> id, remaining |-> 0, dbuffered |-> 0,
              granted |-> 0, priority |-> 3]
    BY DEF EmptyEntry
  <2> HIDE DEF e1
  <2>2. e2 = [rpc_id |-> 0, dbuff_id |-> id, remaining |-> 0, dbuffered |-> x,
              granted |-> 0, priority |-> 3]
    BY <2>1
  <2>3. notice = [e2 EXCEPT !.priority = 1]
    BY DEF e1, NoticeEntry
  <2> HIDE DEF e2
  <2>4. QED
    BY <2>2, <2>3
<1>4. freed = [rpc_id |-> 0, dbuff_id |-> id, remaining |-> 0, dbuffered |-> 0,
               granted |-> 0, priority |-> DBUFF_UPDATE]
  <2> DEFINE e1 == [EmptyEntry EXCEPT !.dbuff_id = id]
  <2>1. e1 = [rpc_id |-> 0, dbuff_id |-> id, remaining |-> 0, dbuffered |-> 0,
              granted |-> 0, priority |-> 3]
    BY DEF EmptyEntry
  <2>2. freed = [e1 EXCEPT !.priority = 1]
    BY DEF FreedEntry
  <2> HIDE DEF e1
  <2>3. QED
    BY <2>1, <2>2
<1> HIDE DEF update, notice, freed
<1>5. /\ WellFormed(update) /\ ~IsMessage(update)
      /\ update.priority = GRANT_UPDATE /\ update.rpc_id = id /\ update.granted = y
  BY <1>2 DEF WellFormed, EntryType, IsMessage
<1>6. /\ WellFormed(notice) /\ ~IsMessage(notice)
      /\ notice.priority = DBUFF_UPDATE /\ notice.dbuff_id = id /\ notice.dbuffered = x
  BY <1>3 DEF WellFormed, EntryType, IsMessage
<1>7. /\ WellFormed(freed) /\ ~IsMessage(freed)
      /\ freed.priority = DBUFF_UPDATE /\ freed.dbuff_id = id
  BY <1>4 DEF WellFormed, EntryType, IsMessage
<1> HIDE DEF message
<1>8. QED
  BY <1>1, <1>5, <1>6, <1>7 DEF message, update, notice, freed

-----------------------------------------------------------------------------
\* What exceeds half the slots exceeds it when it grows.
LEMMA Doubled ==
  ASSUME NEW a \in Nat, NEW b \in Nat, a <= b, NEW c \in Nat, 2 * a > c
  PROVE  2 * b > c
OBVIOUS

\* A queue that never had to drop a message has them all, and before it drops
\* one, more were live at once than half its slots.
Roomy(w) ==
  /\ crowded \in BOOLEAN
  /\ ~crowded => Complete(queue, w)
  /\ crowded => 2 * peak > MAX_RPCS

\* An insert drops a message only when both slots of the last pair hold one.
LEMMA InsertRoomy ==
  ASSUME NEW w, NEW w2, Kept(queue, w, peak), Roomy(w), NEW new, NEW ready,
         InsertCycle(new, ready), peak' \in Nat, peak <= peak',
         Complete(queue, w) /\ ~LastPairHeld => Complete(queue', w2)
  PROVE  /\ crowded' \in BOOLEAN
         /\ ~crowded' => Complete(queue', w2)
         /\ crowded' => 2 * peak' > MAX_RPCS
<1>1. peak \in Nat /\ MAX_RPCS \in Nat
  BY SlotsAssumption DEF Kept
<1>2. crowded' = (crowded \/ LastPairHeld)
  BY DEF InsertCycle
<1>3. LastPairHeld => 2 * peak > MAX_RPCS
  <2>1. ASSUME LastPairHeld, 2 * peak <= MAX_RPCS PROVE FALSE
    <3>1. MAX_RPCS - 3 \in Slots /\ MAX_RPCS - 2 \in Slots
      BY SlotsAssumption DEF Slots
    <3>2. MAX_RPCS - 3 \in Messages(queue) /\ MAX_RPCS - 2 \in Messages(queue)
      BY <2>1, <3>1 DEF LastPairHeld, Messages
    <3>3. QED
      BY <2>1, <3>2, LastPair
  <2>2. QED
    BY <1>1, <2>1
<1>4. crowded' => 2 * peak' > MAX_RPCS
  <2>1. crowded' => 2 * peak > MAX_RPCS
    BY <1>2, <1>3 DEF Roomy
  <2>2. 2 * peak > MAX_RPCS => 2 * peak' > MAX_RPCS
    BY <1>1, Doubled
  <2>3. QED
    BY <2>1, <2>2
<1>5. crowded' \in BOOLEAN /\ (~crowded' => Complete(queue', w2))
  BY <1>2 DEF Roomy, LastPairHeld, IsMessage
<1>6. QED
  BY <1>4, <1>5

\* A message that joins, or an update, leaves a peak that covers all.
LEMMA Peak ==
  ASSUME NEW w, Kept(queue, w, peak)
  PROVE  /\ peak \in Nat
         /\ Joins(Owing(w)) => /\ peak' \in Nat /\ peak <= peak'
                              /\ Cardinality(Owing(w)) < peak'
<1>1. peak \in Nat /\ Cardinality(Owing(w)) \in Nat /\ Cardinality(Owing(w)) <= peak
  BY FS_CardinalityType DEF Kept
<1>2. QED
  BY <1>1 DEF Joins

\* The send queue: the messages are kept, within what was submitted for them.
SendInv ==
  /\ Type = "sendmsg"
  /\ Kept(queue, owed, peak) /\ Roomy(owed)
  /\ grant \in [Ids -> Nat] /\ buffer \in [Ids -> Nat]
  /\ Bounds(queue, grant, buffer)
  /\ m_axis_tvalid \in BOOLEAN /\ m_axis_tdata \in EntryType

LEMMA SendInvInit ==
  ASSUME SendInit
  PROVE  SendInv
<1>1. Kept(queue, owed, peak) /\ Messages(queue) = {} /\ Roomy(owed)
  BY InitKeeps DEF SendInit, Init, Roomy
<1>2. EmptyEntry \in EntryType
  BY DEF EmptyEntry, EntryType, INVALIDATE, ACTIVE, EMPTY
<1>3. QED
  BY <1>1, <1>2 DEF SendInit, SendInv, Init, Bounds

LEMMA SendInvNext ==
  ASSUME SendInv, [SendNext]_allvars
  PROVE  SendInv'
<1> USE DEF SendInv
<1>0. 1 \in Nat \ {0} /\ 0 \in Nat
  OBVIOUS
<1>1. /\ Kept(queue, owed, peak) /\ owed \in [Ids -> Nat] /\ peak \in Nat
      /\ \A i \in Messages(queue) : queue[i].rpc_id \in Ids /\ owed[queue[i].rpc_id] > 0
      /\ Live = Owing(owed) /\ head \in EntryType
  BY FarOwing, Pairs DEF Kept, Owing, Live, head
<1>2. ASSUME NEW new, NEW ready, InsertCycle(new, ready), WellFormed(new),
              ~IsMessage(new), UNCHANGED <<owed, peak>>
       PROVE  Kept(queue', owed', peak') /\ Roomy(owed)'
  <2>1. /\ Kept(queue', owed', peak')
        /\ Complete(queue, owed) /\ ~LastPairHeld => Complete(queue', owed')
    <3>1. queue' = Inserted(new) /\ owed' = owed /\ peak' = peak /\ peak <= peak
      BY <1>1, <1>2 DEF InsertCycle
    <3>2. /\ Kept(Inserted(new), owed, peak)
          /\ Complete(queue, owed) /\ ~LastPairHeld => Complete(Inserted(new), owed)
      BY <1>1, <1>2, <3>1, InsertKeeps
    <3>3. QED
      BY <3>1, <3>2
  <2>2. peak' \in Nat /\ peak <= peak'
    BY <1>1, <1>2
  <2>3. /\ crowded' \in BOOLEAN
        /\ ~crowded' => Complete(queue', owed')
        /\ crowded' => 2 * peak' > MAX_RPCS
    BY <1>1, <1>2, <2>1, <2>2, InsertRoomy
  <2>4. Roomy(owed)'
    BY <2>3 DEF Roomy, Complete
  <2>5. QED
    BY <2>1, <2>4
<1>3. ASSUME NEW id \in Ids, NEW ready \in BOOLEAN, Sendmsg(id, ready)
      PROVE  SendInv'
  <2>1. PICK length \in Lengths, granted \in GrantOffsets :
          \E dbuffered \in BufferOffsets \cup {length} :
            /\ owed[id] = 0 /\ Joins(Live)
            /\ InsertCycle([rpc_id |-> id, dbuff_id |-> id, remaining |-> length,
                            dbuffered |-> dbuffered, granted |-> granted,
                            priority |-> ACTIVE], ready)
            /\ owed' = [owed EXCEPT ![id] = length]
            /\ grant' = [grant EXCEPT ![id] = granted]
            /\ buffer' = [buffer EXCEPT ![id] = dbuffered]
    BY <1>3 DEF Sendmsg
  <2>2. PICK dbuffered \in BufferOffsets \cup {length} :
            /\ owed[id] = 0 /\ Joins(Live)
            /\ InsertCycle([rpc_id |-> id, dbuff_id |-> id, remaining |-> length,
                            dbuffered |-> dbuffered, granted |-> granted,
                            priority |-> ACTIVE], ready)
            /\ owed' = [owed EXCEPT ![id] = length]
            /\ grant' = [grant EXCEPT ![id] = granted]
            /\ buffer' = [buffer EXCEPT ![id] = dbuffered]
    BY <2>1
  <2>3. length \in Nat \ {0} /\ granted \in Nat /\ dbuffered \in Nat
    BY BytesAssumption, SendAssumption
  <2> DEFINE new == MessageEntry(id, length, dbuffered, granted)
  <2>4. WellFormed(new) /\ IsMessage(new)
    BY <2>3, NewEntries
  <2>5. /\ new.rpc_id = id /\ new.remaining = length /\ new.granted = granted
        /\ new.dbuffered = dbuffered /\ new.priority = ACTIVE
    BY DEF MessageEntry
  <2>6. InsertCycle(new, ready)
    BY <2>2 DEF MessageEntry
  <2>7. queue' = Inserted(new) /\ UNCHANGED <<m_axis_tvalid, m_axis_tdata>>
    BY <2>6 DEF InsertCycle
  <2> HIDE DEF new
  <2>8. peak' \in Nat /\ peak <= peak' /\ Cardinality(Owing(owed)) < peak'
    BY <1>1, <2>2, Peak
  <2>9. /\ Kept(queue', owed', peak')
        /\ Complete(queue, owed) /\ ~LastPairHeld => Complete(queue', owed')
    BY <1>1, <2>2, <2>4, <2>5, <2>7, <2>8, InsertKeeps
  <2>10. Kept(queue', owed', peak') /\ Roomy(owed)'
    <3>1. /\ crowded' \in BOOLEAN
          /\ ~crowded' => Complete(queue', owed')
          /\ crowded' => 2 * peak' > MAX_RPCS
      BY <1>1, <2>6, <2>8, <2>9, InsertRoomy
    <3>2. Roomy(owed)'
      BY <3>1 DEF Roomy, Complete
    <3>3. QED
      BY <2>9, <3>2
  <2>11. grant' \in [Ids -> Nat] /\ buffer' \in [Ids -> Nat]
        /\ grant'[id] = granted /\ buffer'[id] = dbuffered
    BY <2>2, <2>3
  <2>12. \A i \in Messages(queue) : /\ grant'[queue[i].rpc_id] <= grant[queue[i].rpc_id]
                                   /\ buffer'[queue[i].rpc_id] <= buffer[queue[i].rpc_id]
    <3>1. \A i \in Messages(queue) : queue[i].rpc_id # id
      BY <1>1, <2>2
    <3>2. QED
      BY <1>1, <2>2, <3>1
  <2>13. Bounds(queue', grant', buffer')
    <3>1. new.priority # GRANT_UPDATE /\ new.priority # DBUFF_UPDATE
      BY <2>5 DEF ACTIVE, GRANT_UPDATE, DBUFF_UPDATE
    <3>2. new.granted >= grant'[id] /\ new.dbuffered >= buffer'[id]
      BY <2>3, <2>5, <2>11
    <3>3. QED
      BY <2>4, <2>5, <2>7, <2>11, <2>12, <3>1, <3>2, InsertBounds
  <2>14. QED
    BY <2>7, <2>10, <2>11, <2>13
<1>4. ASSUME NEW id \in Ids, NEW offset \in GrantOffsets, NEW ready \in BOOLEAN,
             Grant(id, offset, ready)
      PROVE  SendInv'
  <2> DEFINE new == GrantEntry(id, offset)
  <2>1. offset \in Nat /\ offset < grant[id] /\ grant' = [grant EXCEPT ![id] = offset]
        /\ UNCHANGED <<owed, buffer>>
    BY <1>4, SendAssumption DEF Grant
  <2>2. InsertCycle(new, ready) /\ UNCHANGED <<owed, peak>>
    BY <1>4 DEF Grant, GrantEntry
  <2>3. queue' = Inserted(new) /\ UNCHANGED <<m_axis_tvalid, m_axis_tdata>>
    BY <2>2 DEF InsertCycle
  <2>4. /\ WellFormed(new) /\ ~IsMessage(new)
        /\ new.priority = GRANT_UPDATE /\ new.rpc_id = id /\ new.granted = offset
    BY <2>1, <1>0, NewEntries
  <2> HIDE DEF new
  <2>5. Kept(queue', owed', peak') /\ Roomy(owed)'
    BY <1>2, <2>4, <2>2
  <2>6. grant' \in [Ids -> Nat] /\ grant'[id] = offset
        /\ \A x \in Ids : grant'[x] <= grant[x] /\ buffer'[x] <= buffer[x]
    BY <2>1
  <2>7. Bounds(queue', grant', buffer')
    <3>1. new.priority # DBUFF_UPDATE
      BY <2>4 DEF GRANT_UPDATE, DBUFF_UPDATE
    <3>2. buffer' \in [Ids -> Nat] /\ new.granted >= grant'[new.rpc_id]
      BY <2>1, <2>4, <2>6
    <3>3. QED
      BY <1>1, <2>3, <2>4, <2>6, <3>1, <3>2, InsertBounds
  <2>8. QED
    BY <2>1, <2>3, <2>5, <2>6, <2>7
<1>5. ASSUME NEW id \in Ids, NEW offset \in BufferOffsets, NEW ready \in BOOLEAN,
             Notify(id, offset, ready)
      PROVE  SendInv'
  <2> DEFINE new == NoticeEntry(id, offset)
  <2>1. offset \in Nat /\ offset < buffer[id] /\ buffer' = [buffer EXCEPT ![id] = offset]
        /\ UNCHANGED <<owed, grant>>
    BY <1>5, SendAssumption DEF Notify
  <2>2. InsertCycle(new, ready) /\ UNCHANGED <<owed, peak>>
    BY <1>5 DEF Notify, NoticeEntry
  <2>3. queue' = Inserted(new) /\ UNCHANGED <<m_axis_tvalid, m_axis_tdata>>
    BY <2>2 DEF InsertCycle
  <2>4. /\ WellFormed(new) /\ ~IsMessage(new)
        /\ new.priority = DBUFF_UPDATE /\ new.dbuff_id = id /\ new.dbuffered = offset
    BY <2>1, <1>0, NewEntries
  <2> HIDE DEF new
  <2>5. Kept(queue', owed', peak') /\ Roomy(owed)'
    BY <1>2, <2>4, <2>2
  <2>6. buffer' \in [Ids -> Nat] /\ buffer'[id] = offset
        /\ \A x \in Ids : grant'[x] <= grant[x] /\ buffer'[x] <= buffer[x]
    BY <2>1
  <2>7. Bounds(queue', grant', buffer')
    <3>1. new.priority # GRANT_UPDATE
      BY <2>4 DEF GRANT_UPDATE, DBUFF_UPDATE
    <3>2. grant' \in [Ids -> Nat] /\ new.dbuffered >= buffer'[new.dbuff_id]
      BY <2>1, <2>4, <2>6
    <3>3. QED
      BY <1>1, <2>3, <2>4, <2>6, <3>1, <3>2, InsertBounds
  <2>8. QED
    BY <2>1, <2>3, <2>5, <2>6, <2>7
<1>6. ASSUME NEW ready \in BOOLEAN, Dequeue(ready)
      PROVE  SendInv'
  <2>1. /\ head.priority = ACTIVE /\ queue' = Dequeued
        /\ m_axis_tvalid' = TRUE /\ m_axis_tdata' = head
        /\ owed' = [owed EXCEPT ![head.rpc_id] = @ - Bytes(head)]
        /\ UNCHANGED <<grant, buffer, peak, crowded>>
    BY <1>6 DEF Dequeue, DequeueCycle, ripe
  <2>2. Bytes(head) = IF head.remaining < Step THEN head.remaining ELSE Step
    BY DEF Bytes, Step
  <2>3. Kept(queue', owed', peak') /\ (Complete(queue, owed) => Complete(queue', owed'))
    BY <1>1, <2>1, <2>2, DequeueKeeps
  <2>4. Roomy(owed)'
    BY <2>1, <2>3 DEF Roomy, Complete
  <2>5. Bounds(queue', grant', buffer')
    BY <2>1, DequeueBounds
  <2>6. QED
    BY <1>1, <2>1, <2>3, <2>5, <2>4
<1>7. ASSUME NEW ready \in BOOLEAN, Idle(ready)
      PROVE  SendInv'
  <2>1. /\ UNCHANGED <<queue, owed, grant, buffer, peak, crowded>>
        /\ m_axis_tvalid' = FALSE /\ m_axis_tdata' = head
    BY <1>7 DEF Idle, IdleCycle
  <2>2. QED
    BY <1>1, <2>1 DEF Roomy
<1>8. CASE Stalled
  BY <1>1, <1>8 DEF Stalled, StalledCycle, history, Roomy
<1>9. CASE UNCHANGED allvars
  BY <1>1, <1>9 DEF allvars, vars, history, Roomy
<1>10. QED
  BY <1>3, <1>4, <1>5, <1>6, <1>7, <1>8, <1>9 DEF SendNext, Insert

\* Every register of the send queue holds a value of its type, however many
\* messages there are.
SendTypeInv ==
  /\ Type = "sendmsg"
  /\ SendTypeOK
  /\ \A i \in Slots : WellFormed(queue[i])

THEOREM SendTypeCorrect == SendSpec => []SendTypeOK
<1>1. ASSUME SendInit PROVE SendTypeInv
  <2>1. Kept(queue, owed, 0)
    BY <1>1, InitKeeps DEF SendInit
  <2>2. EmptyEntry \in EntryType
    BY DEF EmptyEntry, EntryType, INVALIDATE, ACTIVE, EMPTY
  <2>3. QED
    BY <1>1, <2>1, <2>2 DEF SendInit, SendTypeInv, SendTypeOK, Init, Kept
<1>2. ASSUME SendTypeInv, [SendNext]_allvars PROVE SendTypeInv'
  <2> USE <1>2 DEF SendTypeInv, SendTypeOK
  <2>1. ASSUME NEW new, WellFormed(new), NEW ready, InsertCycle(new, ready)
        PROVE  SendTypeInv'
    <3>1. queue' = Inserted(new) /\ UNCHANGED <<m_axis_tvalid, m_axis_tdata>>
      BY <2>1 DEF InsertCycle
    <3>2. /\ \A i \in Slots : i # MAX_RPCS - 1 => WellFormed(queue'[i])
          /\ queue'[MAX_RPCS - 1] = queue[MAX_RPCS - 1]
      BY <2>1, <3>1, Insertion
    <3>3. \A i \in Slots : WellFormed(queue'[i])
      BY <3>2
    <3>4. queue' = [i \in Slots |-> queue'[i]]
      BY <3>1 DEF Inserted
    <3> DEFINE q == queue'
    <3> HIDE DEF q
    <3>5. q \in [Slots -> EntryType]
      BY <3>3, <3>4 DEF WellFormed, q
    <3>6. QED
      BY <3>1, <3>3, <3>5 DEF q
  <2>2. ASSUME NEW id \in Ids, NEW ready \in BOOLEAN, Sendmsg(id, ready)
        PROVE  SendTypeInv'
    <3>1. PICK length \in Lengths, granted \in GrantOffsets :
            \E dbuffered \in BufferOffsets \cup {length} :
              InsertCycle(MessageEntry(id, length, dbuffered, granted), ready)
      BY <2>2 DEF Sendmsg, MessageEntry
    <3>2. PICK dbuffered \in BufferOffsets \cup {length} :
            InsertCycle(MessageEntry(id, length, dbuffered, granted), ready)
      BY <3>1
    <3>3. length \in Nat \ {0} /\ granted \in Nat /\ dbuffered \in Nat
      BY BytesAssumption, SendAssumption
    <3>4. WellFormed(MessageEntry(id, length, dbuffered, granted))
      BY <3>3, NewEntries
    <3>5. QED
      BY <2>1, <3>2, <3>4
  <2>3. ASSUME NEW id \in Ids, NEW offset \in GrantOffsets, NEW ready \in BOOLEAN,
               Grant(id, offset, ready)
        PROVE  SendTypeInv'
    <3>1. InsertCycle(GrantEntry(id, offset), ready)
      BY <2>3 DEF Grant, GrantEntry
    <3>2. offset \in Nat /\ 1 \in Nat \ {0} /\ 0 \in Nat
      BY SendAssumption
    <3>3. WellFormed(GrantEntry(id, offset))
      BY <3>2, NewEntries
    <3>4. QED
      BY <2>1, <3>1, <3>3
  <2>4. ASSUME NEW id \in Ids, NEW offset \in BufferOffsets, NEW ready \in BOOLEAN,
               Notify(id, offset, ready)
        PROVE  SendTypeInv'
    <3>1. InsertCycle(NoticeEntry(id, offset), ready)
      BY <2>4 DEF Notify, NoticeEntry
    <3>2. offset \in Nat /\ 1 \in Nat \ {0} /\ 0 \in Nat
      BY SendAssumption
    <3>3. WellFormed(NoticeEntry(id, offset))
      BY <3>2, NewEntries
    <3>4. QED
      BY <2>1, <3>1, <3>3
  <2>5. ASSUME NEW ready \in BOOLEAN, Dequeue(ready)
        PROVE  SendTypeInv'
    <3>1. head.priority = ACTIVE /\ queue' = Dequeued
          /\ m_axis_tvalid' = TRUE /\ m_axis_tdata' = head
      BY <2>5 DEF Dequeue, DequeueCycle, ripe
    <3>2. Dequeued \in [Slots -> EntryType] /\ \A i \in Slots : WellFormed(Dequeued[i])
      BY <3>1, DequeueShape
    <3>3. QED
      BY <3>1, <3>2, Pairs DEF head
  <2>6. ASSUME NEW ready \in BOOLEAN, Idle(ready)
        PROVE  SendTypeInv'
    BY <2>6, Pairs DEF Idle, IdleCycle, head
  <2>7. CASE Stalled
    BY <2>7 DEF Stalled, StalledCycle
  <2>8. CASE UNCHANGED allvars
    BY <2>8 DEF allvars, vars
  <2>9. QED
    BY <2>2, <2>3, <2>4, <2>5, <2>6, <2>7, <2>8 DEF SendNext, Insert
<1>3. SendTypeInv => SendTypeOK
  BY DEF SendTypeInv
<1>4. QED
  BY <1>1, <1>2, <1>3, PTL DEF SendSpec

\* The queue is always as SendInv says.
LEMMA SendInvAlways == SendSpec => []SendInv
BY SendInvInit, SendInvNext, PTL DEF SendSpec

\* No message is duplicated or rewound, and none is lost before an insert had to
\* drop one, with more messages live at once than half the slots: however many
\* there are.
THEOREM SendKeepsMessages == SendSpec => []MessagesKept
<1>1. ASSUME SendInv PROVE MessagesKept
  <2> SUFFICES ASSUME NEW id \in Ids
               PROVE  IF Holding(id) = {} THEN id \in Live => crowded /\ 2 * peak > MAX_RPCS
                      ELSE id \in Live /\ \E i \in Slots :
                             Holding(id) = {i} /\ queue[i].remaining = owed[id]
    BY DEF MessagesKept
  <2>1. /\ \A i \in Messages(queue) : /\ i \in Slots /\ queue[i].rpc_id \in Owing(owed)
                                      /\ queue[i].remaining = owed[queue[i].rpc_id]
        /\ \A i, j \in Messages(queue) : queue[i].rpc_id = queue[j].rpc_id => i = j
        /\ Holding(id) = {i \in Messages(queue) : queue[i].rpc_id = id}
    BY <1>1, FarOwing DEF SendInv, Kept, Distinct, Accounted, Messages, Holding
  <2>2. CASE Holding(id) # {}
    <3>1. PICK i \in Messages(queue) : queue[i].rpc_id = id
      BY <2>1, <2>2
    <3>2. Holding(id) = {i}
      BY <2>1, <3>1
    <3>3. QED
      BY <2>1, <2>2, <3>1, <3>2 DEF Live, Owing
  <2>3. CASE Holding(id) = {}
    BY <1>1, <2>1, <2>3 DEF SendInv, Roomy, Complete, Live, Owing
  <2>4. QED
    BY <2>2, <2>3
<1>2. QED
  BY <1>1, SendInvAlways, PTL

\* A packet is only put on the output when a grant and a notification that cover
\* it were submitted for its message, also in a queue that has dropped others.
THEOREM SendsWhatIsEligible == SendSpec => SentOnlyWhenEligible
<1> DEFINE Covered == \A id \in Ids :
             owed'[id] < owed[id] =>
               /\ grant[id] = 0 \/ grant[id] < owed[id]
               /\ buffer[id] = 0 \/ buffer[id] + PAYLOAD_SIZE <= owed[id]
<1>1. ASSUME SendInv, [SendNext]_allvars PROVE Covered
  <2> SUFFICES ASSUME NEW id \in Ids, owed'[id] < owed[id]
               PROVE  /\ grant[id] = 0 \/ grant[id] < owed[id]
                      /\ buffer[id] = 0 \/ buffer[id] + PAYLOAD_SIZE <= owed[id]
    OBVIOUS
  <2>1. owed \in [Ids -> Nat] /\ grant \in [Ids -> Nat] /\ buffer \in [Ids -> Nat]
    BY <1>1 DEF SendInv, Kept
  <2>2. owed # owed'
    BY <2>1
  <2>3. ASSUME NEW x \in Ids, NEW ready \in BOOLEAN, Sendmsg(x, ready) PROVE FALSE
    <3>1. PICK length \in Lengths : owed[x] = 0 /\ owed' = [owed EXCEPT ![x] = length]
      BY <2>3 DEF Sendmsg
    <3>2. length \in Nat
      BY BytesAssumption
    <3>3. QED
      BY <2>1, <3>1, <3>2
  <2>4. PICK ready \in BOOLEAN : Dequeue(ready)
    BY <1>1, <2>2, <2>3
       DEF SendNext, Insert, Grant, Notify, Idle, Stalled, allvars, history
  <2>5. /\ ripe /\ head.priority = ACTIVE
        /\ owed' = [owed EXCEPT ![head.rpc_id] = @ - Bytes(head)]
    BY <2>4 DEF Dequeue, DequeueCycle, ripe
  <2>6. 0 \in Messages(queue) /\ head.rpc_id = id
    BY <2>1, <2>5, Pairs DEF Messages, IsMessage, head
  <2>7. /\ head.remaining = owed[id]
        /\ head.granted >= grant[id] /\ head.dbuffered >= buffer[id]
        /\ head.granted \in Nat /\ head.dbuffered \in Nat
    BY <1>1, <2>6, Pairs DEF SendInv, Kept, Accounted, Bounds, head, EntryType
  <2>8. /\ head.granted + 1 <= head.remaining \/ head.granted = 0
        /\ head.dbuffered + PAYLOAD_SIZE <= head.remaining \/ head.dbuffered = 0
    BY <1>1, <2>5 DEF ripe, sendq_granted, sendq_dbuffered, SendInv
  <2>9. QED
    BY <2>1, <2>7, <2>8, BytesAssumption
<1>2. SendInv /\ [SendNext]_allvars => [Covered]_allvars
  BY <1>1
<1>3. QED
  BY <1>2, SendInvAlways, PTL DEF SendSpec, SentOnlyWhenEligible

\* What the receiver has, what is on the output and what is owed add up to each
\* message and the packets that were left on the output as they were taken.
OnceInv ==
  /\ size \in [Ids -> Nat] /\ received \in [Ids -> Nat] /\ repeated \in [Ids -> Nat]
  /\ m_axis_tvalid => m_axis_tdata.rpc_id \in Ids
  /\ EachPacketOnce

\* A count grows by the packet that is taken.
LEMMA TakenAdds ==
  ASSUME NEW ready \in BOOLEAN, NEW before \in [Ids -> Nat],
         m_axis_tvalid \in BOOLEAN, m_axis_tdata \in EntryType,
         m_axis_tvalid => m_axis_tdata.rpc_id \in Ids
  PROVE  /\ Taken(ready, before) \in [Ids -> Nat]
         /\ \A id \in Ids : Taken(ready, before)[id] = before[id]
              + IF OnOutput(id) /\ ready THEN Bytes(m_axis_tdata) ELSE 0
<1>1. Bytes(m_axis_tdata) \in Nat
  BY BytesAssumption DEF Bytes, EntryType
<1>2. CASE m_axis_tvalid /\ ready
  BY <1>1, <1>2 DEF Taken, OnOutput
<1>3. CASE ~(m_axis_tvalid /\ ready)
  BY <1>3 DEF Taken, OnOutput
<1>4. QED
  BY <1>2, <1>3

LEMMA OnceInvNext ==
  ASSUME SendInv, OnceInv, [SendNext]_allvars
  PROVE  OnceInv'
<1>1. /\ owed \in [Ids -> Nat] /\ size \in [Ids -> Nat]
      /\ received \in [Ids -> Nat] /\ repeated \in [Ids -> Nat]
      /\ m_axis_tvalid \in BOOLEAN /\ m_axis_tdata \in EntryType /\ head \in EntryType
      /\ m_axis_tvalid => m_axis_tdata.rpc_id \in Ids
      /\ \A id \in Ids :
           received[id] + owed[id] + (IF OnOutput(id) THEN Bytes(m_axis_tdata) ELSE 0)
             = size[id] + repeated[id]
  BY Pairs DEF SendInv, Kept, OnceInv, EachPacketOnce, head
<1>2. \A e \in EntryType : Bytes(e) \in Nat
  BY BytesAssumption DEF Bytes, EntryType
<1>3. ASSUME NEW id \in Ids, NEW ready \in BOOLEAN, Sendmsg(id, ready)
      PROVE  OnceInv'
  <2> DEFINE had == [received EXCEPT ![id] = 0]
             again == [repeated EXCEPT ![id] = 0]
  <2>1. PICK length \in Lengths :
          /\ owed[id] = 0 /\ ~OnOutput(id)
          /\ UNCHANGED <<m_axis_tvalid, m_axis_tdata>>
          /\ size' = [size EXCEPT ![id] = length]
          /\ owed' = [owed EXCEPT ![id] = length]
          /\ received' = Taken(ready, had) /\ repeated' = Taken(ready, again)
    BY <1>3 DEF Sendmsg, InsertCycle, TakenAtInsert
  <2>2. length \in Nat
    BY BytesAssumption
  <2>3. had \in [Ids -> Nat] /\ again \in [Ids -> Nat]
    BY <1>1
  <2>4. /\ \A x \in Ids : x # id => had[x] = received[x] /\ again[x] = repeated[x]
        /\ had[id] = 0 /\ again[id] = 0
    BY <1>1
  <2> HIDE DEF had, again
  <2>5. /\ received' \in [Ids -> Nat] /\ repeated' \in [Ids -> Nat]
        /\ \A x \in Ids :
             /\ received'[x] = had[x]
                  + IF OnOutput(x) /\ ready THEN Bytes(m_axis_tdata) ELSE 0
             /\ repeated'[x] = again[x]
                  + IF OnOutput(x) /\ ready THEN Bytes(m_axis_tdata) ELSE 0
    BY <1>1, <2>1, <2>3, TakenAdds
  <2>6. \A x \in Ids : OnOutput(x)' <=> OnOutput(x)
    BY <2>1 DEF OnOutput
  <2>7. Bytes(m_axis_tdata)' = Bytes(m_axis_tdata) /\ Bytes(m_axis_tdata) \in Nat
    BY <1>1, <1>2, <2>1 DEF Bytes
  <2>8. ASSUME NEW x \in Ids
        PROVE  received'[x] + owed'[x] + (IF OnOutput(x)' THEN Bytes(m_axis_tdata)' ELSE 0)
                 = size'[x] + repeated'[x]
    <3>1. CASE x = id
      BY <1>1, <2>1, <2>2, <2>4, <2>5, <2>6, <3>1
    <3>2. CASE x # id
      <4>1. /\ owed'[x] = owed[x] /\ size'[x] = size[x]
            /\ had[x] = received[x] /\ again[x] = repeated[x]
        BY <1>1, <2>1, <2>4, <3>2
      <4> DEFINE out == IF OnOutput(x) THEN Bytes(m_axis_tdata) ELSE 0
                 more == IF OnOutput(x) /\ ready THEN Bytes(m_axis_tdata) ELSE 0
      <4>2. out \in Nat /\ more \in Nat
        BY <2>7
      <4>3. /\ received'[x] = received[x] + more /\ repeated'[x] = repeated[x] + more
            /\ received[x] + owed[x] + out = size[x] + repeated[x]
            /\ received[x] \in Nat /\ repeated[x] \in Nat
            /\ owed[x] \in Nat /\ size[x] \in Nat
        BY <1>1, <2>5, <4>1
      <4>4. (IF OnOutput(x)' THEN Bytes(m_axis_tdata)' ELSE 0) = out
        BY <2>6, <2>7
      <4> HIDE DEF out, more
      <4>5. QED
        BY <4>1, <4>2, <4>3, <4>4
    <3>3. QED
      BY <3>1, <3>2
  <2>9. QED
    BY <1>1, <2>1, <2>2, <2>5, <2>8 DEF OnceInv, EachPacketOnce
<1>4. ASSUME NEW ready \in BOOLEAN, TakenAtInsert(ready, received, repeated),
             UNCHANGED <<m_axis_tvalid, m_axis_tdata, size, owed>>
      PROVE  OnceInv'
  <2>1. /\ received' \in [Ids -> Nat] /\ repeated' \in [Ids -> Nat]
        /\ \A x \in Ids :
             /\ received'[x] = received[x]
                  + IF OnOutput(x) /\ ready THEN Bytes(m_axis_tdata) ELSE 0
             /\ repeated'[x] = repeated[x]
                  + IF OnOutput(x) /\ ready THEN Bytes(m_axis_tdata) ELSE 0
    BY <1>1, <1>4, TakenAdds DEF TakenAtInsert
  <2>2. \A x \in Ids : OnOutput(x)' <=> OnOutput(x)
    BY <1>4 DEF OnOutput
  <2>3. Bytes(m_axis_tdata)' = Bytes(m_axis_tdata) /\ Bytes(m_axis_tdata) \in Nat
    BY <1>1, <1>2, <1>4 DEF Bytes
  <2>4. ASSUME NEW x \in Ids
        PROVE  received'[x] + owed'[x] + (IF OnOutput(x)' THEN Bytes(m_axis_tdata)' ELSE 0)
                 = size'[x] + repeated'[x]
    <3> DEFINE out == IF OnOutput(x) THEN Bytes(m_axis_tdata) ELSE 0
               more == IF OnOutput(x) /\ ready THEN Bytes(m_axis_tdata) ELSE 0
    <3>1. out \in Nat /\ more \in Nat
      BY <2>3
    <3>2. /\ received'[x] = received[x] + more /\ repeated'[x] = repeated[x] + more
          /\ received[x] + owed[x] + out = size[x] + repeated[x]
          /\ received[x] \in Nat /\ repeated[x] \in Nat
          /\ owed[x] \in Nat /\ size[x] \in Nat
      BY <1>1, <2>1
    <3>3. (IF OnOutput(x)' THEN Bytes(m_axis_tdata)' ELSE 0) = out
      BY <2>2, <2>3
    <3> HIDE DEF out, more
    <3>4. owed'[x] = owed[x] /\ size'[x] = size[x]
      BY <1>4
    <3>5. QED
      BY <3>1, <3>2, <3>3, <3>4
  <2>5. QED
    BY <1>1, <1>4, <2>1, <2>4 DEF OnceInv, EachPacketOnce
<1>5. ASSUME NEW ready \in BOOLEAN, ~m_axis_tvalid \/ ready, TakenFromOutput(ready)
      PROVE  /\ received' \in [Ids -> Nat]
             /\ \A id \in Ids : received'[id] = received[id]
                  + IF OnOutput(id) THEN Bytes(m_axis_tdata) ELSE 0
  <2>1. /\ received' \in [Ids -> Nat]
        /\ \A id \in Ids : received'[id] = received[id]
             + IF OnOutput(id) /\ ready THEN Bytes(m_axis_tdata) ELSE 0
    BY <1>1, <1>5, TakenAdds DEF TakenFromOutput
  <2>2. \A id \in Ids : OnOutput(id) /\ ready <=> OnOutput(id)
    BY <1>5 DEF OnOutput
  <2>3. QED
    BY <2>1, <2>2
<1>6. ASSUME NEW ready \in BOOLEAN, Dequeue(ready)
      PROVE  OnceInv'
  <2>1. /\ ~m_axis_tvalid \/ ready
        /\ head.priority = ACTIVE /\ m_axis_tvalid' = TRUE /\ m_axis_tdata' = head
        /\ owed' = [owed EXCEPT ![head.rpc_id] = @ - Bytes(head)]
        /\ TakenFromOutput(ready) /\ UNCHANGED <<size, repeated>>
    BY <1>6 DEF Dequeue, DequeueCycle, ripe, TakenFromOutput
  <2>2. head.rpc_id \in Ids
    BY <2>1, Pairs DEF SendInv, Kept, WellFormed, IsMessage, head
  <2>3. Bytes(m_axis_tdata)' = Bytes(head) /\ Bytes(head) \in Nat
    BY <1>1, <1>2, <2>1 DEF Bytes
  <2>4. \A x \in Ids : OnOutput(x)' <=> x = head.rpc_id
    BY <2>1 DEF OnOutput
  <2>5. \A x \in Ids :
          received'[x] + owed'[x] + (IF OnOutput(x)' THEN Bytes(m_axis_tdata)' ELSE 0)
            = size'[x] + repeated'[x]
    <3> SUFFICES ASSUME NEW x \in Ids
                 PROVE  received'[x] + owed'[x]
                          + (IF OnOutput(x)' THEN Bytes(m_axis_tdata)' ELSE 0)
                            = size'[x] + repeated'[x]
      OBVIOUS
    <3> DEFINE before == IF OnOutput(x) THEN Bytes(m_axis_tdata) ELSE 0
    <3>1. before \in Nat
      BY <1>1, <1>2
    <3> HIDE DEF before
    <3>2. received'[x] = received[x] + before
      BY <1>5, <2>1 DEF before
    <3>3. received[x] + owed[x] + before = size[x] + repeated[x]
      BY <1>1 DEF before
    <3>4. owed'[x] = owed[x] - IF x = head.rpc_id THEN Bytes(head) ELSE 0
      BY <1>1, <2>1, <2>2, <2>3
    <3>5. (IF OnOutput(x)' THEN Bytes(m_axis_tdata)' ELSE 0)
            = IF x = head.rpc_id THEN Bytes(head) ELSE 0
      BY <2>3, <2>4
    <3>6. /\ received[x] \in Nat /\ owed[x] \in Nat
          /\ size'[x] = size[x] /\ repeated'[x] = repeated[x]
      BY <1>1, <2>1
    <3>7. QED
      BY <2>3, <3>1, <3>2, <3>3, <3>4, <3>5, <3>6
  <2>6. QED
    BY <1>1, <1>5, <2>1, <2>2, <2>5 DEF OnceInv, EachPacketOnce
<1>7. ASSUME NEW ready \in BOOLEAN, Idle(ready)
      PROVE  OnceInv'
  <2>1. /\ ~m_axis_tvalid \/ ready
        /\ m_axis_tvalid' = FALSE
        /\ TakenFromOutput(ready) /\ UNCHANGED <<size, owed, repeated>>
    BY <1>7 DEF Idle, IdleCycle, TakenFromOutput
  <2>2. \A x \in Ids : ~OnOutput(x)'
    BY <2>1 DEF OnOutput
  <2>3. \A x \in Ids : received'[x] + owed'[x] = size'[x] + repeated'[x]
    <3> SUFFICES ASSUME NEW x \in Ids PROVE received'[x] + owed'[x] = size'[x] + repeated'[x]
      OBVIOUS
    <3> DEFINE before == IF OnOutput(x) THEN Bytes(m_axis_tdata) ELSE 0
    <3>1. before \in Nat
      BY <1>1, <1>2
    <3> HIDE DEF before
    <3>2. received'[x] = received[x] + before
      BY <1>5, <2>1 DEF before
    <3>3. received[x] + owed[x] + before = size[x] + repeated[x]
      BY <1>1 DEF before
    <3>4. QED
      BY <1>1, <2>1, <3>1, <3>2, <3>3
  <2>4. \A x \in Ids : received'[x] \in Nat /\ owed'[x] \in Nat
    BY <1>1, <1>5, <2>1
  <2>5. QED
    BY <1>1, <1>5, <2>1, <2>2, <2>3, <2>4 DEF OnceInv, EachPacketOnce
<1>8. CASE Stalled
  BY <1>8 DEF Stalled, StalledCycle, history, OnceInv, EachPacketOnce, OnOutput, Bytes
<1>9. CASE UNCHANGED allvars
  BY <1>9 DEF allvars, vars, history, OnceInv, EachPacketOnce, OnOutput, Bytes
<1>10. ASSUME NEW id \in Ids, NEW offset, NEW ready \in BOOLEAN,
              Grant(id, offset, ready) \/ Notify(id, offset, ready)
       PROVE  OnceInv'
  BY <1>4, <1>10 DEF Grant, Notify, InsertCycle
<1>11. QED
  BY <1>3, <1>6, <1>7, <1>8, <1>9, <1>10 DEF SendNext, Insert

\* The receiver gets every packet of every message once, and once more for each
\* insert in the cycle it takes it in, however full the queue is.
THEOREM SendsEachPacketOnce == SendSpec => []EachPacketOnce
<1>1. SendInit => OnceInv
  <2>1. ASSUME SendInit PROVE OnceInv
    BY <2>1 DEF SendInit, Init, OnceInv, EachPacketOnce, OnOutput
  <2>2. QED
    BY <2>1
<1>2. SendInv /\ OnceInv /\ [SendNext]_allvars => OnceInv'
  BY OnceInvNext
<1>3. OnceInv => EachPacketOnce
  BY DEF OnceInv
<1>4. QED
  BY <1>1, <1>2, <1>3, SendInvAlways, PTL DEF SendSpec

-----------------------------------------------------------------------------
\* Multiples of the payload.
LEMMA Multiples ==
  /\ \A n \in Nat : PAYLOAD_SIZE * n \in Nat
  /\ \A n, m \in Nat : n <= m => PAYLOAD_SIZE * n <= PAYLOAD_SIZE * m
  /\ \A n, m \in Nat : n + 1 <= m => PAYLOAD_SIZE * n + PAYLOAD_SIZE <= PAYLOAD_SIZE * m
  /\ PAYLOAD_SIZE * 0 = 0
<1>1. PAYLOAD_SIZE \in Nat /\ PAYLOAD_SIZE * 0 = 0
  BY BytesAssumption
<1>2. \A n \in Nat : PAYLOAD_SIZE * n \in Nat
  BY <1>1
<1>3. ASSUME NEW n \in Nat, NEW m \in Nat, n <= m
      PROVE  PAYLOAD_SIZE * n <= PAYLOAD_SIZE * m
  <2>1. m - n \in Nat /\ m = n + (m - n)
    BY <1>3
  <2>2. PAYLOAD_SIZE * m = PAYLOAD_SIZE * n + PAYLOAD_SIZE * (m - n)
    BY <1>1, <1>3
  <2>3. PAYLOAD_SIZE * (m - n) \in Nat /\ PAYLOAD_SIZE * n \in Nat
    BY <1>2, <2>1
  <2>4. QED
    BY <2>2, <2>3
<1>4. ASSUME NEW n \in Nat, NEW m \in Nat, n + 1 <= m
      PROVE  PAYLOAD_SIZE * n + PAYLOAD_SIZE <= PAYLOAD_SIZE * m
  <2>1. PAYLOAD_SIZE * (n + 1) = PAYLOAD_SIZE * n + PAYLOAD_SIZE
    BY <1>1
  <2>2. QED
    BY <1>3, <1>4, <2>1, n + 1 \in Nat
<1>5. QED
  BY <1>1, <1>2, <1>3, <1>4

\* The frees ahead of a message are finitely many, and none in front.
LEMMA AheadFinite ==
  ASSUME NEW q, NEW i \in Slots
  PROVE  /\ IsFiniteSet(Ahead(q, i)) /\ Cardinality(Ahead(q, i)) \in Nat
         /\ Ahead(q, 0) = {} /\ Cardinality(Ahead(q, 0)) = 0
<1>1. 0 \in Int /\ MAX_RPCS - 1 \in Int
  BY SlotsAssumption
<1>2. IsFiniteSet(Slots)
  BY <1>1, FS_Interval DEF Slots
<1>3. Ahead(q, i) \subseteq Slots
  BY DEF Ahead
<1>4. IsFiniteSet(Ahead(q, i))
  BY <1>2, <1>3, FS_Subset
<1>5. Ahead(q, 0) = {}
  BY DEF Ahead, Slots
<1>6. QED
  BY <1>4, <1>5, FS_CardinalityType, FS_EmptySet

\* Before the comparisons of an insertion the frees ahead of a message are those
\* of the queue, and the new entry if it is one.
LEMMA AheadShifted ==
  ASSUME NEW new, NEW i \in Slots, i # 0
  PROVE  /\ i - 1 \in Slots
         /\ Cardinality(Ahead(Shifted(new), i))
              <= Cardinality(Ahead(queue, i - 1))
                 + IF new.priority = DBUFF_UPDATE /\ new.dbuff_id = queue[i - 1].dbuff_id
                   THEN 1 ELSE 0
<1> DEFINE s == Shifted(new)
           A == Ahead(s, i)
           B == Ahead(queue, i - 1)
           C == A \ {0}
           f == [j \in C |-> j - 1]
<1>1. s[0] = new /\ (\A j \in Slots : j # 0 => s[j] = queue[j - 1] /\ j - 1 \in Slots)
  BY Pairs DEF Shifted
<1>2. IsFiniteSet(A) /\ IsFiniteSet(B) /\ Cardinality(A) \in Nat /\ Cardinality(B) \in Nat
  BY <1>1, AheadFinite
<1>3. \A j \in C : j - 1 \in B
  BY <1>1 DEF Ahead, Slots
<1>4. \A j \in C : j \in Int
  BY DEF Ahead, Slots
<1> HIDE DEF C, B
<1>5. f \in Injection(C, B)
  BY <1>3, <1>4 DEF Injection, IsInjective
<1>6. Cardinality(C) <= Cardinality(B)
  BY <1>2, <1>5, FS_Injection
<1>7. Cardinality(C) = IF 0 \in A THEN Cardinality(A) - 1 ELSE Cardinality(A)
  BY <1>2, FS_RemoveElement DEF C
<1>8. 0 \in A => new.priority = DBUFF_UPDATE /\ new.dbuff_id = queue[i - 1].dbuff_id
  BY <1>1 DEF Ahead
<1> HIDE DEF A
<1>9. Cardinality(A) <= Cardinality(B)
        + IF new.priority = DBUFF_UPDATE /\ new.dbuff_id = queue[i - 1].dbuff_id
          THEN 1 ELSE 0
  BY <1>2, <1>6, <1>7, <1>8
<1>10. QED
  BY <1>1, <1>9 DEF A, B

\* After the comparisons there are no more frees ahead of a message, and one less
\* if one has just been applied.
LEMMA AheadInserted ==
  ASSUME NEW w, NEW p, Kept(queue, w, p), NEW new, WellFormed(new),
         NEW i \in Messages(Inserted(new))
  PROVE  LET r == Inserted(new)  s == Shifted(new)  o == Origin(new)
         IN  /\ Cardinality(Ahead(r, i)) <= Cardinality(Ahead(s, o[i]))
             /\ (/\ o[i] = i + 1 /\ s[i].priority = DBUFF_UPDATE
                 /\ s[i].dbuff_id = s[o[i]].dbuff_id
                 /\ \A j \in Slots : j < i => o[j] # i)
                  => Cardinality(Ahead(r, i)) + 1 <= Cardinality(Ahead(s, o[i]))
<1> DEFINE r == Inserted(new)
           s == Shifted(new)
           o == Origin(new)
           A == Ahead(r, i)
           B == Ahead(s, o[i])
           f == [j \in A |-> o[j]]
<1>1. /\ i \in Slots /\ o[i] \in Slots /\ r[i].dbuff_id = s[o[i]].dbuff_id
      /\ \A j \in Slots : j < i /\ ~IsMessage(r[j]) =>
           r[j] = s[o[j]] /\ o[j] \in Slots /\ o[j] < o[i]
  BY AheadStays
<1>2. \A j \in Slots : o[o[j]] = j
  BY Origins
<1> HIDE DEF r, s, o
<1>3. \A j \in A : j \in Slots /\ j < i /\ o[j] \in B
  BY <1>1 DEF Ahead, IsMessage, DBUFF_UPDATE, BLOCKED, ACTIVE
<1>4. \A j, k \in A : o[j] = o[k] => j = k
  BY <1>2, <1>3
<1>5. IsFiniteSet(A) /\ IsFiniteSet(B) /\ Cardinality(A) \in Nat /\ Cardinality(B) \in Nat
  BY <1>1, AheadFinite
<1>6. Cardinality(A) <= Cardinality(B)
  <2> HIDE DEF A, B
  <2>1. f \in Injection(A, B)
    BY <1>3, <1>4 DEF Injection, IsInjective
  <2>2. QED
    BY <1>5, <2>1, FS_Injection
<1>7. ASSUME o[i] = i + 1, s[i].priority = DBUFF_UPDATE, s[i].dbuff_id = s[o[i]].dbuff_id,
             \A j \in Slots : j < i => o[j] # i
      PROVE  Cardinality(A) + 1 <= Cardinality(B)
  <2>1. i \in B
    BY <1>1, <1>7 DEF Ahead, Slots
  <2>2. \A j \in A : o[j] # i
    BY <1>3, <1>7
  <2> HIDE DEF A, B
  <2>3. f \in Injection(A, B \ {i})
    BY <1>3, <1>4, <2>2 DEF Injection, IsInjective
  <2>4. IsFiniteSet(B \ {i}) /\ Cardinality(B \ {i}) = Cardinality(B) - 1
    BY <1>5, <2>1, FS_RemoveElement
  <2>5. Cardinality(A) <= Cardinality(B \ {i})
    BY <2>3, <2>4, FS_Injection
  <2>6. QED
    BY <1>5, <2>4, <2>5
<1>8. QED
  BY <1>6, <1>7 DEF r, s, o

\* An insertion keeps the entries of the fetch queue covering their cache lines.
LEMMA InsertOccupied ==
  ASSUME Type = "fetch", Sizes, NEW w, NEW p, Kept(queue, w, p), NEW new, WellFormed(new),
         NEW c \in [Ids -> Nat], Occupied(queue, c), NEW c2 \in [Ids -> Nat],
         \A i \in Messages(queue) :
           c2[queue[i].rpc_id]
             + (IF new.priority = DBUFF_UPDATE /\ new.dbuff_id = queue[i].dbuff_id
                THEN PAYLOAD_SIZE ELSE 0) <= c[queue[i].rpc_id],
         IsMessage(new) => new.dbuffered >= c2[new.rpc_id] /\ new.dbuffered < CACHE_SIZE
  PROVE  Occupied(Inserted(new), c2)
<1> DEFINE r == Inserted(new)
           s == Shifted(new)
           o == Origin(new)
<1>1. /\ s[0] = new
      /\ \A i \in Slots : i # 0 => s[i] = queue[i - 1] /\ i - 1 \in Slots
      /\ \A i \in Messages(s) : i = 0 \/ i - 1 \in Messages(queue)
  BY Pairs DEF Shifted, Messages
<1>2. \A i \in Messages(r) :
        /\ i \in Slots /\ o[i] \in Messages(s) /\ o[i] \in Slots
        /\ r[i].rpc_id = s[o[i]].rpc_id /\ r[i].dbuff_id = s[o[i]].dbuff_id
        /\ WellFormed(s[o[i]])
        /\ \/ r[i] = s[o[i]]
           \/ /\ i % 2 = 0 /\ o[i] = i + 1 /\ GivesWay(s[i], s[i + 1])
              /\ WellFormed(s[i]) /\ r[i] = PassedBy(s[i + 1], s[i])
              /\ \A j \in Slots : j < i => o[j] # i
  BY AheadStays
<1>3. \A e : WellFormed(e) => e.dbuffered \in Nat
  BY DEF WellFormed, EntryType
<1>4. \A i \in Messages(queue) : queue[i].rpc_id \in Ids
  BY FarOwing DEF Owing
<1>5. PAYLOAD_SIZE \in Nat /\ CACHE_SIZE \in Nat /\ CACHE_BLOCK_SIZE \in Nat
      /\ CACHE_BLOCK_SIZE > 0
  BY BytesAssumption
<1>6. Occupied(s, c2)
  <2> SUFFICES ASSUME NEW i \in Messages(s)
               PROVE  /\ s[i].dbuffered >= c2[s[i].rpc_id]
                                           + PAYLOAD_SIZE * Cardinality(Ahead(s, i))
                      /\ s[i].dbuffered < CACHE_SIZE + CACHE_BLOCK_SIZE
                      /\ s[i].priority = ACTIVE => s[i].dbuffered < CACHE_SIZE
    BY DEF Occupied
  <2>1. CASE i = 0
    <3>1. IsMessage(new) /\ new.rpc_id \in Ids /\ new.dbuffered \in Nat
      BY <1>1, <1>3, <2>1 DEF Messages, WellFormed
    <3>2. PAYLOAD_SIZE * Cardinality(Ahead(s, 0)) = 0
      BY AheadFinite, Multiples, Pairs
    <3>3. QED
      BY <1>1, <1>5, <2>1, <3>1, <3>2
  <2>2. CASE i # 0
    <3> DEFINE k == i - 1
               id == queue[k].rpc_id
               N == Cardinality(Ahead(s, i))
               K == Cardinality(Ahead(queue, k))
               frees == new.priority = DBUFF_UPDATE /\ new.dbuff_id = queue[k].dbuff_id
    <3>1. k \in Messages(queue) /\ s[i] = queue[k] /\ k \in Slots /\ i \in Slots
      BY <1>1, <2>2 DEF Messages
    <3>2. N <= K + IF frees THEN 1 ELSE 0
      BY <2>2, <3>1, AheadShifted
    <3>3. N \in Nat /\ K \in Nat
      BY <3>1, AheadFinite
    <3>4. /\ id \in Ids /\ c[id] \in Nat /\ c2[id] \in Nat /\ queue[k].dbuffered \in Nat
          /\ c2[id] + (IF frees THEN PAYLOAD_SIZE ELSE 0) <= c[id]
          /\ queue[k].dbuffered >= c[id] + PAYLOAD_SIZE * K
          /\ queue[k].dbuffered < CACHE_SIZE + CACHE_BLOCK_SIZE
          /\ queue[k].priority = ACTIVE => queue[k].dbuffered < CACHE_SIZE
      BY <1>3, <1>4, <3>1 DEF Occupied, Kept
    <3> HIDE DEF N, K, frees, k
    <3>5. PAYLOAD_SIZE * N <= PAYLOAD_SIZE * K + IF frees THEN PAYLOAD_SIZE ELSE 0
      <4>1. PAYLOAD_SIZE * (K + 1) = PAYLOAD_SIZE * K + PAYLOAD_SIZE
        BY <1>5, <3>3
      <4>2. CASE frees
        BY <3>2, <3>3, <4>1, <4>2, Multiples, K + 1 \in Nat
      <4>3. CASE ~frees
        <5>1. PAYLOAD_SIZE * N <= PAYLOAD_SIZE * K /\ PAYLOAD_SIZE * K \in Nat
          BY <3>2, <3>3, <4>3, Multiples
        <5>2. QED
          BY <4>3, <5>1
      <4>4. QED
        BY <4>2, <4>3
    <3>6. PAYLOAD_SIZE * N \in Nat /\ PAYLOAD_SIZE * K \in Nat
      BY <3>3, Multiples
    <3>7. queue[k].dbuffered >= c2[id] + PAYLOAD_SIZE * N
      <4> DEFINE a == PAYLOAD_SIZE * N
                 b == PAYLOAD_SIZE * K
      <4> HIDE DEF a, b
      <4>1. a \in Nat /\ b \in Nat /\ a <= b + (IF frees THEN PAYLOAD_SIZE ELSE 0)
            /\ queue[k].dbuffered >= c[id] + b
        BY <3>4, <3>5, <3>6 DEF a, b
      <4>2. queue[k].dbuffered >= c2[id] + a
        BY <1>5, <3>4, <4>1
      <4>3. QED
        BY <4>2 DEF a
    <3>8. QED
      BY <3>1, <3>4, <3>7 DEF N
  <2>3. QED
    BY <2>1, <2>2
<1> HIDE DEF r, s, o
<1>7. SUFFICES ASSUME NEW i \in Messages(r)
               PROVE  /\ r[i].dbuffered >= c2[r[i].rpc_id]
                                           + PAYLOAD_SIZE * Cardinality(Ahead(r, i))
                      /\ r[i].dbuffered < CACHE_SIZE + CACHE_BLOCK_SIZE
                      /\ r[i].priority = ACTIVE => r[i].dbuffered < CACHE_SIZE
  BY DEF Occupied, r
<1> DEFINE high == s[o[i]]
           id == high.rpc_id
           N == Cardinality(Ahead(r, i))
           K == Cardinality(Ahead(s, o[i]))
<1>8. /\ high.dbuffered >= c2[id] + PAYLOAD_SIZE * K
      /\ high.dbuffered < CACHE_SIZE + CACHE_BLOCK_SIZE
      /\ high.priority = ACTIVE => high.dbuffered < CACHE_SIZE
      /\ high.dbuffered \in Nat /\ id \in Ids /\ c2[id] \in Nat
  BY <1>2, <1>3, <1>6 DEF Occupied, WellFormed, Messages
<1>9. /\ N \in Nat /\ K \in Nat /\ N <= K
      /\ (/\ o[i] = i + 1 /\ s[i].priority = DBUFF_UPDATE /\ s[i].dbuff_id = high.dbuff_id
          /\ \A j \in Slots : j < i => o[j] # i) => N + 1 <= K
  <2>1. N \in Nat /\ K \in Nat
    BY <1>2, AheadFinite
  <2>2. QED
    BY <2>1, AheadInserted DEF r, s, o
<1> HIDE DEF N, K
<1>10. /\ PAYLOAD_SIZE * N \in Nat /\ PAYLOAD_SIZE * K \in Nat
       /\ PAYLOAD_SIZE * N <= PAYLOAD_SIZE * K
       /\ N + 1 <= K => PAYLOAD_SIZE * N + PAYLOAD_SIZE <= PAYLOAD_SIZE * K
  BY <1>9, Multiples
<1> DEFINE a == PAYLOAD_SIZE * N
           b == PAYLOAD_SIZE * K
<1>11. /\ a \in Nat /\ b \in Nat /\ a <= b /\ (N + 1 <= K => a + PAYLOAD_SIZE <= b)
       /\ high.dbuffered >= c2[id] + b
  BY <1>8, <1>10
<1> HIDE DEF a, b
<1>12. CASE r[i] = high
  <2>1. r[i].dbuffered >= c2[id] + a
    BY <1>8, <1>11, <1>12
  <2>2. QED
    BY <1>8, <1>12, <2>1 DEF a, N
<1>13. CASE r[i] # high
  <2>1. /\ o[i] = i + 1 /\ GivesWay(s[i], s[i + 1]) /\ WellFormed(s[i])
        /\ WellFormed(s[i + 1]) /\ r[i] = PassedBy(s[i + 1], s[i])
        /\ \A j \in Slots : j < i => o[j] # i
    BY <1>2, <1>13
  <2>2. /\ s[i].priority = DBUFF_UPDATE /\ s[i].dbuff_id = high.dbuff_id
        /\ r[i].dbuffered = (high.dbuffered - PAYLOAD_SIZE) % OffsetRange
    BY <1>13, <2>1, Passed
  <2>3. a + PAYLOAD_SIZE <= b
    BY <1>9, <1>11, <2>1, <2>2
  <2>4. high.dbuffered - PAYLOAD_SIZE \in 0..(OffsetRange - 1)
    BY <1>5, <1>8, <1>11, <2>3 DEF Sizes, OffsetRange
  <2>5. r[i].dbuffered = high.dbuffered - PAYLOAD_SIZE
    BY <2>2, <2>4 DEF OffsetRange
  <2>6. r[i].dbuffered >= c2[id] + a /\ r[i].dbuffered < CACHE_SIZE
    BY <1>5, <1>8, <1>11, <2>3, <2>5 DEF Sizes
  <2>7. r[i].dbuffered < CACHE_SIZE + CACHE_BLOCK_SIZE /\ r[i].rpc_id = id
    BY <1>2, <1>5, <1>8, <2>5, <2>6
  <2>8. QED
    BY <2>6, <2>7 DEF a, N
<1>14. QED
  BY <1>12, <1>13

\* So does a dequeue, which counts the block it requests.
LEMMA DequeueOccupied ==
  ASSUME Type = "fetch", Sizes, NEW w, NEW p, Kept(queue, w, p), head.priority = ACTIVE,
         NEW c \in [Ids -> Nat], Occupied(queue, c), NEW c2,
         c2 = [c EXCEPT ![head.rpc_id] =
                 @ + IF head.remaining < CACHE_BLOCK_SIZE THEN head.remaining
                                                          ELSE CACHE_BLOCK_SIZE]
  PROVE  /\ Occupied(Dequeued, c2)
         /\ c2 \in [Ids -> Nat] /\ c2[head.rpc_id] < CACHE_SIZE + CACHE_BLOCK_SIZE
         /\ \A id \in Ids : id # head.rpc_id => c2[id] = c[id]
<1> DEFINE r == Dequeued
           id0 == head.rpc_id
<1>1. /\ \A i \in Slots : i >= 2 => r[i] = queue[i]
      /\ head.remaining \in Nat /\ Step = CACHE_BLOCK_SIZE
      /\ LastStep => r[0] = queue[1] /\ r[1].priority = INVALIDATE
      /\ ~LastStep => /\ r[1] = queue[1] /\ r[0].priority \in {BLOCKED, ACTIVE}
                      /\ r[0].rpc_id = id0
                      /\ r[0].dbuffered = (head.dbuffered + Step) % OffsetRange
                      /\ r[0].priority = IF CacheFull THEN BLOCKED ELSE ACTIVE
  <2>1. Type # "sendmsg" /\ Step = CACHE_BLOCK_SIZE
    BY DEF Step
  <2>2. (\A i \in Slots : WellFormed(queue[i])) /\ queue \in [Slots -> EntryType]
    BY DEF Kept
  <2>3. QED
    BY <2>1, <2>2, DequeueShape
<1>2. /\ INVALIDATE \notin {BLOCKED, ACTIVE, DBUFF_UPDATE}
      /\ DBUFF_UPDATE \notin {BLOCKED, ACTIVE} /\ BLOCKED # ACTIVE
  BY DEF INVALIDATE, BLOCKED, ACTIVE, DBUFF_UPDATE
<1>3. 0 \in Messages(queue) /\ id0 \in Ids
  <2>1. 0 \in Messages(queue)
    BY Pairs DEF Messages, IsMessage, head
  <2>2. QED
    BY <2>1, FarOwing DEF Owing, head
<1>4. \A i \in Slots : i \in Nat /\ (i = 0 \/ i = 1 \/ i >= 2)
  BY DEF Slots
<1>5. CACHE_SIZE \in Nat /\ CACHE_BLOCK_SIZE \in Nat /\ CACHE_BLOCK_SIZE > 0
  BY BytesAssumption
<1>6. /\ head.dbuffered \in Nat /\ head.dbuffered >= c[id0] /\ c[id0] \in Nat
      /\ head.dbuffered < CACHE_SIZE
  <2>1. head.dbuffered >= c[id0] + PAYLOAD_SIZE * Cardinality(Ahead(queue, 0))
        /\ head.dbuffered < CACHE_SIZE
    BY <1>3 DEF Occupied, head
  <2>2. PAYLOAD_SIZE * Cardinality(Ahead(queue, 0)) = 0
    BY AheadFinite, Multiples, Pairs
  <2>3. head.dbuffered \in Nat
    BY Pairs DEF Kept, EntryType, head
  <2>4. c[id0] \in Nat
    BY <1>3
  <2>5. QED
    BY <2>1, <2>2, <2>3, <2>4
<1> DEFINE bytes == IF head.remaining < CACHE_BLOCK_SIZE THEN head.remaining
                                                         ELSE CACHE_BLOCK_SIZE
<1>7. bytes \in Nat /\ bytes <= CACHE_BLOCK_SIZE
  BY <1>1, <1>5
<1>8. /\ c2 \in [Ids -> Nat] /\ c2[id0] = c[id0] + bytes
      /\ \A id \in Ids : id # id0 => c2[id] = c[id]
  <2> HIDE DEF bytes
  <2>1. c2 = [c EXCEPT ![id0] = c[id0] + bytes]
    BY DEF bytes
  <2>2. c[id0] + bytes \in Nat
    BY <1>6, <1>7
  <2>3. QED
    BY <1>3, <2>1, <2>2
<1> HIDE DEF bytes, r
<1>9. c2[id0] < CACHE_SIZE + CACHE_BLOCK_SIZE /\ c2[id0] <= head.dbuffered + CACHE_BLOCK_SIZE
  BY <1>5, <1>6, <1>7, <1>8
<1>10. ASSUME NEW i \in Messages(queue), i # 0
       PROVE  queue[i].rpc_id # id0 /\ c2[queue[i].rpc_id] = c[queue[i].rpc_id]
  <2>1. queue[i].rpc_id # id0
    BY <1>3, <1>10 DEF Kept, Distinct, head
  <2>2. queue[i].rpc_id \in Ids
    BY FarOwing DEF Owing
  <2>3. QED
    BY <1>8, <2>1, <2>2
<1>11. ASSUME NEW i \in Slots, NEW k \in Slots,
              \A j \in Ahead(r, i) : \E m \in Ahead(queue, k) :
                m = IF j = 0 /\ LastStep THEN 1 ELSE j,
              LastStep => 1 \notin Ahead(r, i)
       PROVE  PAYLOAD_SIZE * Cardinality(Ahead(r, i))
                <= PAYLOAD_SIZE * Cardinality(Ahead(queue, k))
  <2> DEFINE A == Ahead(r, i)
             B == Ahead(queue, k)
             f == [j \in A |-> IF j = 0 /\ LastStep THEN 1 ELSE j]
  <2>1. IsFiniteSet(A) /\ IsFiniteSet(B) /\ Cardinality(A) \in Nat /\ Cardinality(B) \in Nat
    BY AheadFinite
  <2> HIDE DEF A, B
  <2>2. f \in Injection(A, B)
    BY <1>11 DEF A, B, Injection, IsInjective
  <2>3. Cardinality(A) <= Cardinality(B)
    BY <2>1, <2>2, FS_Injection
  <2>4. QED
    BY <2>1, <2>3, Multiples DEF A, B
<1>12. ASSUME NEW i \in Messages(r)
       PROVE  /\ r[i].dbuffered >= c2[r[i].rpc_id] + PAYLOAD_SIZE * Cardinality(Ahead(r, i))
              /\ r[i].dbuffered < CACHE_SIZE + CACHE_BLOCK_SIZE
              /\ r[i].priority = ACTIVE => r[i].dbuffered < CACHE_SIZE
  <2>1. i \in Slots /\ IsMessage(r[i])
    BY DEF Messages
  <2>2. CASE ~LastStep /\ i = 0
    <3>1. head.dbuffered + Step \in 0..(OffsetRange - 1)
      BY <1>1, <1>5, <1>6 DEF Sizes, OffsetRange
    <3>2. r[0].dbuffered = head.dbuffered + CACHE_BLOCK_SIZE
      BY <1>1, <2>2, <3>1 DEF OffsetRange
    <3>3. PAYLOAD_SIZE * Cardinality(Ahead(r, 0)) = 0
      BY AheadFinite, Multiples, Pairs
    <3>4. r[0].priority = ACTIVE => head.dbuffered + CACHE_BLOCK_SIZE < CACHE_SIZE
      BY <1>1, <1>2, <1>5, <1>6, <2>2 DEF CacheFull
    <3>5. c2[id0] \in Nat
      BY <1>3, <1>8
    <3>6. QED
      BY <1>1, <1>5, <1>6, <1>9, <2>2, <3>2, <3>3, <3>4, <3>5
  <2>3. CASE LastStep \/ i # 0
    <3>1. LastStep => i # 1
      BY <1>1, <1>2, <2>1 DEF IsMessage
    <3>2. PICK k \in Messages(queue) : /\ k # 0 /\ r[i] = queue[k] /\ k \in Slots
                                       /\ k = IF i = 0 THEN 1 ELSE i
      BY <1>1, <1>4, <2>1, <2>3, <3>1, Pairs DEF Messages
    <3>3. LastStep => 1 \notin Ahead(r, i)
      BY <1>1, <1>2 DEF Ahead
    <3>4. ASSUME NEW j \in Ahead(r, i)
          PROVE  \E m \in Ahead(queue, k) : m = IF j = 0 /\ LastStep THEN 1 ELSE j
      <4>1. /\ j \in Slots /\ j < i /\ r[j].priority = DBUFF_UPDATE
            /\ r[j].dbuff_id = queue[k].dbuff_id /\ i \in Nat /\ j \in Nat /\ i # 0 /\ k = i
        BY <1>4, <2>1, <3>2 DEF Ahead
      <4>2. CASE LastStep /\ j = 0
        <5>1. 1 < k
          BY <3>1, <4>1, <4>2
        <5>2. 1 \in Ahead(queue, k)
          BY <1>1, <4>1, <4>2, <5>1, Pairs DEF Ahead
        <5>3. QED
          BY <4>2, <5>2
      <4>3. CASE LastStep /\ j # 0
        <5>1. j >= 2 /\ r[j] = queue[j]
          BY <1>1, <1>4, <3>3, <4>1, <4>3
        <5>2. QED
          BY <4>1, <4>3, <5>1 DEF Ahead
      <4>4. CASE ~LastStep
        <5>1. j # 0 /\ r[j] = queue[j]
          BY <1>1, <1>2, <1>4, <4>1, <4>4
        <5>2. QED
          BY <4>1, <4>4, <5>1 DEF Ahead
      <4>5. QED
        BY <4>2, <4>3, <4>4
    <3>5. PAYLOAD_SIZE * Cardinality(Ahead(r, i)) <= PAYLOAD_SIZE * Cardinality(Ahead(queue, k))
      BY <1>11, <2>1, <3>2, <3>3, <3>4
    <3> DEFINE a == PAYLOAD_SIZE * Cardinality(Ahead(r, i))
               b == PAYLOAD_SIZE * Cardinality(Ahead(queue, k))
    <3>6. a \in Nat /\ b \in Nat /\ a <= b
      BY <2>1, <3>2, <3>5, AheadFinite, Multiples
    <3>7. /\ queue[k].dbuffered >= c[queue[k].rpc_id] + b
          /\ queue[k].dbuffered < CACHE_SIZE + CACHE_BLOCK_SIZE
          /\ queue[k].priority = ACTIVE => queue[k].dbuffered < CACHE_SIZE
      BY <3>2 DEF Occupied
    <3>8. queue[k].dbuffered \in Nat /\ c[queue[k].rpc_id] \in Nat
          /\ c2[queue[k].rpc_id] = c[queue[k].rpc_id]
      BY <1>10, <3>2, FarOwing DEF Kept, EntryType, Owing
    <3> HIDE DEF a, b
    <3>9. queue[k].dbuffered >= c2[queue[k].rpc_id] + a
      BY <3>6, <3>7, <3>8
    <3>10. QED
      BY <3>2, <3>7, <3>9 DEF a
  <2>4. QED
    BY <2>2, <2>3
<1>13. QED
  BY <1>8, <1>9, <1>12 DEF Occupied, r

-----------------------------------------------------------------------------
\* The fetch queue: the messages are kept, and their entries cover the cache.
FetchInv ==
  /\ Type = "fetch"
  /\ Kept(queue, wanted, peak) /\ Roomy(wanted)
  /\ cached \in [Ids -> Nat]
  /\ Occupied(queue, cached)
  /\ CacheOverrunBounded

LEMMA FetchInvInit ==
  ASSUME Sizes, FetchInit
  PROVE  FetchInv
<1>1. Kept(queue, wanted, peak) /\ Messages(queue) = {} /\ Roomy(wanted)
  BY InitKeeps DEF FetchInit, Init, Roomy
<1>2. cached = [id \in Ids |-> 0]
  BY DEF FetchInit
<1>3. 0 < CACHE_SIZE + CACHE_BLOCK_SIZE
  BY BytesAssumption DEF Sizes
<1>4. QED
  BY <1>1, <1>2, <1>3 DEF FetchInit, FetchInv, Occupied, CacheOverrunBounded

LEMMA FetchInvNext ==
  ASSUME Sizes, FetchInv, [FetchNext]_fetchvars
  PROVE  FetchInv'
<1> USE DEF FetchInv
<1>1. /\ wanted \in [Ids -> Nat] /\ Fetching = Owing(wanted) /\ peak \in Nat
      /\ \A i \in Messages(queue) :
           /\ queue[i].rpc_id \in Ids /\ wanted[queue[i].rpc_id] > 0
           /\ queue[i].dbuff_id = queue[i].rpc_id
      /\ \A id \in Ids : cached[id] < CACHE_SIZE + CACHE_BLOCK_SIZE
  BY FarOwing DEF Kept, Owing, Fetching, WellFormed, Messages, CacheOverrunBounded
<1>2. PAYLOAD_SIZE \in Nat /\ CACHE_SIZE \in Nat /\ CACHE_BLOCK_SIZE \in Nat /\ PAYLOAD_SIZE > 0
  BY BytesAssumption
<1>3. ASSUME NEW id \in Ids, NEW ready \in BOOLEAN, Fetchable(id, ready)
      PROVE  FetchInv'
  <2>1. PICK length \in Lengths :
          /\ wanted[id] = 0 /\ cached[id] = 0 /\ Joins(Fetching)
          /\ InsertCycle(MessageEntry(id, length, 0, 0), ready)
          /\ wanted' = [wanted EXCEPT ![id] = length]
          /\ UNCHANGED cached
    BY <1>3 DEF Fetchable, MessageEntry
  <2>2. length \in Nat \ {0} /\ 0 \in Nat
    BY BytesAssumption
  <2> DEFINE new == MessageEntry(id, length, 0, 0)
  <2>3. WellFormed(new) /\ IsMessage(new)
    BY <2>2, NewEntries
  <2>4. /\ new.rpc_id = id /\ new.remaining = length /\ new.dbuffered = 0
        /\ new.priority = ACTIVE
    BY DEF MessageEntry
  <2>5. queue' = Inserted(new)
    BY <2>1 DEF InsertCycle
  <2> HIDE DEF new
  <2>6. peak' \in Nat /\ peak <= peak' /\ Cardinality(Owing(wanted)) < peak'
    BY <1>1, <2>1, Peak
  <2>7. /\ Kept(queue', wanted', peak')
        /\ Complete(queue, wanted) /\ ~LastPairHeld => Complete(queue', wanted')
    BY <1>1, <2>1, <2>3, <2>4, <2>5, <2>6, InsertKeeps
  <2>8. InsertCycle(new, ready)
    BY <2>1 DEF new
  <2>9. Kept(queue', wanted', peak') /\ Roomy(wanted)'
    <3>1. /\ crowded' \in BOOLEAN
          /\ ~crowded' => Complete(queue', wanted')
          /\ crowded' => 2 * peak' > MAX_RPCS
      BY <1>1, <2>6, <2>7, <2>8, InsertRoomy
    <3>2. Roomy(wanted)'
      BY <3>1 DEF Roomy, Complete
    <3>3. QED
      BY <2>7, <3>2
  <2>10. Occupied(Inserted(new), cached)
    <3>1. new.priority # DBUFF_UPDATE
      BY <2>4 DEF ACTIVE, DBUFF_UPDATE
    <3>2. \A i \in Messages(queue) :
            cached[queue[i].rpc_id]
              + (IF new.priority = DBUFF_UPDATE /\ new.dbuff_id = queue[i].dbuff_id
                 THEN PAYLOAD_SIZE ELSE 0) <= cached[queue[i].rpc_id]
      BY <1>1, <3>1
    <3>3. new.dbuffered >= cached[new.rpc_id] /\ new.dbuffered < CACHE_SIZE
      BY <2>1, <2>4 DEF Sizes
    <3>4. QED
      BY <2>3, <3>2, <3>3, InsertOccupied
  <2>11. QED
    BY <2>1, <2>5, <2>9, <2>10 DEF CacheOverrunBounded
<1>4. ASSUME NEW id \in Ids, NEW ready \in BOOLEAN, Free(id, ready)
      PROVE  FetchInv'
  <2> DEFINE new == FreedEntry(id)
  <2>1. /\ cached[id] >= PAYLOAD_SIZE
        /\ queue' = Inserted(new)
        /\ cached' = [cached EXCEPT ![id] = cached[id] - PAYLOAD_SIZE]
        /\ UNCHANGED <<wanted, peak>> /\ InsertCycle(new, ready)
    BY <1>4 DEF Free, InsertCycle, FreedEntry
  <2>2. 1 \in Nat \ {0} /\ 0 \in Nat
    OBVIOUS
  <2>3. /\ WellFormed(new) /\ ~IsMessage(new)
        /\ new.priority = DBUFF_UPDATE /\ new.dbuff_id = id
    BY <2>2, NewEntries
  <2> HIDE DEF new
  <2>4. /\ Kept(queue', wanted', peak')
        /\ Complete(queue, wanted) /\ ~LastPairHeld => Complete(queue', wanted')
    <3>1. peak <= peak
      BY <1>1
    <3>2. /\ Kept(Inserted(new), wanted, peak)
          /\ Complete(queue, wanted) /\ ~LastPairHeld => Complete(Inserted(new), wanted)
      BY <1>1, <2>3, <3>1, InsertKeeps
    <3>3. QED
      BY <2>1, <3>2
  <2>5. peak' \in Nat /\ peak <= peak'
    BY <1>1, <2>1
  <2>6. Kept(queue', wanted', peak') /\ Roomy(wanted)'
    <3>1. /\ crowded' \in BOOLEAN
          /\ ~crowded' => Complete(queue', wanted')
          /\ crowded' => 2 * peak' > MAX_RPCS
      BY <1>1, <2>1, <2>4, <2>5, InsertRoomy
    <3>2. Roomy(wanted)'
      BY <3>1 DEF Roomy, Complete
    <3>3. QED
      BY <2>4, <3>2
  <2>7. /\ cached' \in [Ids -> Nat]
        /\ \A x \in Ids : cached'[x] = cached[x] - IF x = id THEN PAYLOAD_SIZE ELSE 0
    BY <1>2, <2>1
  <2>8. \A i \in Messages(queue) :
          cached'[queue[i].rpc_id]
            + (IF new.priority = DBUFF_UPDATE /\ new.dbuff_id = queue[i].dbuff_id
               THEN PAYLOAD_SIZE ELSE 0) <= cached[queue[i].rpc_id]
    <3> SUFFICES ASSUME NEW i \in Messages(queue)
                 PROVE  cached'[queue[i].rpc_id]
                          + (IF new.priority = DBUFF_UPDATE
                                /\ new.dbuff_id = queue[i].dbuff_id
                             THEN PAYLOAD_SIZE ELSE 0) <= cached[queue[i].rpc_id]
      OBVIOUS
    <3>1. /\ queue[i].rpc_id \in Ids /\ queue[i].dbuff_id = queue[i].rpc_id
          /\ cached[queue[i].rpc_id] \in Nat
      BY <1>1
    <3>2. QED
      BY <1>2, <2>3, <2>7, <3>1
  <2>9. Occupied(queue', cached')
    BY <2>1, <2>3, <2>7, <2>8, InsertOccupied
  <2>10. \A x \in Ids : cached'[x] < CACHE_SIZE + CACHE_BLOCK_SIZE
    BY <1>1, <1>2, <2>7
  <2>11. QED
    BY <2>1, <2>6, <2>7, <2>9, <2>10 DEF CacheOverrunBounded
<1>5. ASSUME NEW ready \in BOOLEAN, Request(ready)
      PROVE  FetchInv'
  <2>1. /\ head.priority = ACTIVE /\ queue' = Dequeued
        /\ wanted' = [wanted EXCEPT ![head.rpc_id] =
                        @ - IF head.remaining < CACHE_BLOCK_SIZE THEN head.remaining
                                                                 ELSE CACHE_BLOCK_SIZE]
        /\ cached' = [cached EXCEPT ![head.rpc_id] =
                        @ + IF head.remaining < CACHE_BLOCK_SIZE THEN head.remaining
                                                                 ELSE CACHE_BLOCK_SIZE]
        /\ UNCHANGED <<peak, crowded>>
    BY <1>5 DEF Request, DequeueCycle, ripe
  <2>2. Step = CACHE_BLOCK_SIZE
    BY DEF Step
  <2>3. /\ Kept(queue', wanted', peak') /\ Roomy(wanted)'
    <3>1. /\ Kept(queue', wanted', peak)
          /\ Complete(queue, wanted) => Complete(queue', wanted')
      BY <2>1, <2>2, DequeueKeeps
    <3>2. QED
      BY <2>1, <3>1 DEF Roomy, Complete
  <2>4. /\ Occupied(queue', cached') /\ cached' \in [Ids -> Nat]
        /\ cached'[head.rpc_id] < CACHE_SIZE + CACHE_BLOCK_SIZE
        /\ \A id \in Ids : id # head.rpc_id => cached'[id] = cached[id]
    BY <2>1, DequeueOccupied
  <2>5. \A id \in Ids : cached'[id] < CACHE_SIZE + CACHE_BLOCK_SIZE
    BY <1>1, <2>4
  <2>6. QED
    BY <2>3, <2>4, <2>5 DEF CacheOverrunBounded
<1>6. ASSUME UNCHANGED <<queue, peak, crowded, fetches>>
      PROVE  FetchInv'
  BY <1>6 DEF fetches, CacheOverrunBounded, Roomy
<1>7. ASSUME NEW id \in Ids, Drain(id)
      PROVE  FetchInv'
  <2>1. /\ wanted[id] = 0 /\ cached' = [cached EXCEPT ![id] = 0]
        /\ UNCHANGED <<queue, wanted, peak, crowded>>
    BY <1>7 DEF Drain, vars
  <2>2. /\ cached' \in [Ids -> Nat]
        /\ \A x \in Ids : x # id => cached'[x] = cached[x]
        /\ cached'[id] = 0
    BY <2>1
  <2>3. \A i \in Messages(queue) : cached'[queue[i].rpc_id] = cached[queue[i].rpc_id]
    BY <1>1, <2>1, <2>2
  <2>4. Occupied(queue, cached')
    BY <2>3 DEF Occupied
  <2>5. \A x \in Ids : cached'[x] < CACHE_SIZE + CACHE_BLOCK_SIZE
    BY <1>1, <1>2, <2>2 DEF Sizes
  <2>6. Kept(queue', wanted', peak') /\ Roomy(wanted)'
    BY <2>1 DEF Roomy
  <2>7. QED
    BY <2>1, <2>2, <2>4, <2>5, <2>6 DEF CacheOverrunBounded
<1>8. QED
  BY <1>3, <1>4, <1>5, <1>6, <1>7 DEF FetchNext, IdleCycle, StalledCycle, fetchvars, vars

LEMMA FetchInvAlways ==
  ASSUME Sizes
  PROVE  FetchSpec => []FetchInv
BY FetchInvInit, FetchInvNext, PTL DEF FetchSpec

\* A message that is not fully requested keeps one slot that never counts less
\* than its cache line holds, unless more messages than half the slots have been
\* live at once and an insert had to drop one.
THEOREM FetchCoversOccupancy ==
  ASSUME Sizes
  PROVE  FetchSpec => []OccupancyCovered
<1>1. ASSUME FetchInv PROVE OccupancyCovered
  <2> SUFFICES ASSUME NEW id \in Fetching, ~(SlotsOf(id) = {} /\ crowded /\ 2 * peak > MAX_RPCS)
               PROVE  \E i \in Slots : /\ SlotsOf(id) = {i}
                                       /\ queue[i].remaining = wanted[id]
                                       /\ queue[i].dbuffered >= cached[id]
    BY DEF OccupancyCovered
  <2>1. id \in Ids /\ id \in Owing(wanted)
    BY DEF Fetching, Owing
  <2>2. SlotsOf(id) = {j \in Messages(queue) : queue[j].rpc_id = id}
    BY <1>1 DEF FetchInv, Kept, WellFormed, SlotsOf, Messages
  <2>3. PICK i \in Messages(queue) : queue[i].rpc_id = id
    <3>1. CASE SlotsOf(id) = {}
      BY <1>1, <2>1, <3>1 DEF FetchInv, Roomy, Complete
    <3>2. CASE SlotsOf(id) # {}
      BY <2>2, <3>2
    <3>3. QED
      BY <3>1, <3>2
  <2>4. i \in Slots /\ queue[i].remaining = wanted[id]
    BY <1>1, <2>3 DEF FetchInv, Kept, Accounted, Messages
  <2>5. SlotsOf(id) = {i}
    BY <1>1, <2>3, <2>2 DEF FetchInv, Kept, Distinct
  <2> DEFINE a == PAYLOAD_SIZE * Cardinality(Ahead(queue, i))
  <2>6. a \in Nat
    BY <2>4, AheadFinite, Multiples
  <2>7. queue[i].dbuffered >= cached[id] + a
    BY <1>1, <2>3 DEF FetchInv, Occupied
  <2>8. queue[i].dbuffered \in Nat /\ cached[id] \in Nat
    BY <1>1, <2>1, <2>4 DEF FetchInv, Kept, EntryType
  <2> HIDE DEF a
  <2>9. queue[i].dbuffered >= cached[id]
    BY <2>6, <2>7, <2>8
  <2>10. QED
    BY <2>4, <2>5, <2>9
<1>2. QED
  BY <1>1, FetchInvAlways, PTL

\* The cache line of a message is overrun by less than one block, however many
\* messages there are.
THEOREM FetchBoundsOverrun ==
  ASSUME Sizes
  PROVE  FetchSpec => []CacheOverrunBounded
<1>1. FetchInv => CacheOverrunBounded
  BY DEF FetchInv
<1>2. QED
  BY <1>1, FetchInvAlways, PTL
=============================================================================
