------------------------------ MODULE AddressMap ------------------------------
(***************************************************************************)
(* AddressMap.scala: on each of the channels a DMA request passes three    *)
(* registered queues of depth one; the translation of its port is read     *)
(* from one synchronous memory while it moves from the first to the        *)
(* second, and added to its address while it moves from the second to the  *)
(* third.  One action is one clock cycle.                                  *)
(***************************************************************************)
EXTENDS Naturals, Sequences, FiniteSets

CONSTANTS
  Channels,      \* 0..2: h2c payload, c2h payload, c2h metadata
  Ports,         \* ports of the requests and of the translations
  Stride,        \* slots of the memory per channel (100)
  Bases,         \* the pcie_addr of translations
  Offsets,       \* the pcie_addr of requests, before translation
  Busy           \* channels on which requests arrive

ASSUME MapAssumption ==
  /\ Channels \subseteq Nat /\ Ports \subseteq Nat /\ Stride \in Nat \ {0}
  /\ Bases \subseteq Nat /\ Offsets \subseteq Nat
  /\ Busy \subseteq Channels

AtMostOne(S) == {<<>>} \cup {<<x>> : x \in S}

\* A request as it came, and history fields: bases, the translations of its
\* channel and port that were current between its acceptance and its read, and
\* stalled, whether it then had to wait.
Requests == [port : Ports, offset : Offsets]
InFlight == [port : Ports, offset : Offsets, bases : SUBSET (Bases \cup {0}),
             stalled : BOOLEAN]
Translated == [port : Ports, offset : Offsets, bases : SUBSET (Bases \cup {0}),
               stalled : BOOLEAN,
               pcie_addr : {o + b : o \in Offsets, b \in Bases \cup {0}}]
Mappings == [map_type : Channels, port : Ports, pcie_addr : Bases]

VARIABLES
  map,        \* the memory
  dmaMapReg,  \* the translation that is written at the next edge
  queueIn,    \* per channel, at most one request each
  readStage,
  queueOut,
  read,       \* per channel: what the memory's read port shows
  current,    \* history, per channel and port: the last translation accepted
  issued      \* per channel: the request the last edge handed over

vars == <<map, dmaMapReg, queueIn, readStage, queueOut, read, current, issued>>

-----------------------------------------------------------------------------
\* Mutant: the translations of all channels share the slots.
SlotOfPort(channel, port) == port

\* port + channel * 100, also for the map_type of a translation
Slot(channel, port) == port + channel * Stride
MemorySlots == {Slot(c, p) : c \in Channels, p \in Ports}

\* A Queue(1, pipe = true): it accepts when it is empty or being emptied.
OutReady(c, take)   == queueOut[c] = <<>> \/ c \in take
StageReady(c, take) == readStage[c] = <<>> \/ OutReady(c, take)

\* Mutant: the first queue accepts whatever happens behind it.
AlwaysInReady(c, take) == TRUE

InReady(c, take)    == queueIn[c] = <<>> \/ StageReady(c, take)

\* dmaMap.fire: the register is emptied, and written to the memory, each cycle.
Written ==
  IF dmaMapReg = <<>> THEN map
  ELSE [map EXCEPT ![Slot(dmaMapReg[1].map_type, dmaMapReg[1].port)] =
                     dmaMapReg[1].pcie_addr]

Current(mapping) ==
  IF mapping = <<>> THEN current
  ELSE [current EXCEPT ![mapping[1].map_type][mapping[1].port] =
                         mapping[1].pcie_addr]

Accepted(c, requests, cur) ==
  IF requests[c] = <<>> THEN <<>>
  ELSE <<[port |-> requests[c][1].port, offset |-> requests[c][1].offset,
          bases |-> {current[c][requests[c][1].port], cur[c][requests[c][1].port]},
          stalled |-> FALSE]>>

\* Requests that wait for their read may be translated by a newer mapping.
Aged(c, queue, cur) ==
  IF queue = <<>> THEN <<>>
  ELSE <<[queue[1] EXCEPT !.bases = @ \cup {cur[c][queue[1].port]}]>>

\* The memory is read at the slot of the request that leaves queueIn; a read
\* that is not enabled returns anything, and so does one of the slot that is
\* being written: its old or its new contents.  (Where no request is left to
\* use it, the value is 0.)
ReadResults(c, take) ==
  IF queueIn[c] # <<>> /\ StageReady(c, take)
  THEN {map[Slot(c, queueIn[c][1].port)], Written[Slot(c, queueIn[c][1].port)]}
  ELSE IF readStage'[c] = <<>> THEN {0} ELSE Bases \cup {0}

\* A request that stays in the read stage.
Stalled(queue) == [i \in DOMAIN queue |-> [queue[i] EXCEPT !.stalled = TRUE]]

\* What leaves the read stage: readStage.deq.bits.pcie_addr + read.pcie_addr
Translation(c) ==
  <<[port |-> readStage[c][1].port, offset |-> readStage[c][1].offset,
     bases |-> readStage[c][1].bases, stalled |-> readStage[c][1].stalled,
     pcie_addr |-> readStage[c][1].offset + read[c]]>>

-----------------------------------------------------------------------------
\* One cycle: mapping arrives on dmaMap, requests on the channels, and the PCIe
\* core is ready on the channels of take.
Cycle(mapping, requests, take) ==
  LET cur == Current(mapping)
  IN
  /\ \A c \in Channels : requests[c] # <<>> => InReady(c, take)
  /\ map' = Written
  /\ dmaMapReg' = mapping
  /\ current' = cur
  /\ queueIn' = [c \in Channels |->
       IF InReady(c, take) THEN Accepted(c, requests, cur)
                           ELSE Aged(c, queueIn[c], cur)]
  /\ readStage' = [c \in Channels |->
       IF StageReady(c, take) THEN queueIn[c] ELSE Stalled(readStage[c])]
  /\ queueOut' = [c \in Channels |->
       IF ~OutReady(c, take) THEN queueOut[c]
       ELSE IF readStage[c] = <<>> THEN <<>> ELSE Translation(c)]
  /\ issued' = [c \in Channels |-> IF c \in take THEN queueOut[c] ELSE <<>>]
  /\ read' \in [Channels -> Bases \cup {0}]
  /\ \A c \in Channels : read'[c] \in ReadResults(c, take)

Init ==
  /\ map = [s \in MemorySlots |-> 0]
  /\ dmaMapReg = <<>>
  /\ queueIn = [c \in Channels |-> <<>>]
  /\ readStage = queueIn /\ queueOut = queueIn /\ issued = queueIn
  /\ read = [c \in Channels |-> 0]
  /\ current = [c \in Channels |-> [p \in Ports |-> 0]]

Next ==
  \E mapping \in AtMostOne(Mappings),
     requests \in [Channels -> AtMostOne(Requests)],
     take \in SUBSET Channels :
       /\ \A c \in Channels \ Busy : requests[c] = <<>> /\ c \in take
       /\ Cycle(mapping, requests, take)

Spec == Init /\ [][Next]_vars

-----------------------------------------------------------------------------
\* Every register holds a value of its type.
TypeOK ==
  /\ map \in [MemorySlots -> Bases \cup {0}]
  /\ dmaMapReg \in AtMostOne(Mappings)
  /\ queueIn \in [Channels -> AtMostOne(InFlight)]
  /\ readStage \in [Channels -> AtMostOne(InFlight)]
  /\ queueOut \in [Channels -> AtMostOne(Translated)]
  /\ read \in [Channels -> Bases \cup {0}]

\* The requests that leave queueOut, or wait there.
Outgoing == UNION {{queueOut[c][i] : i \in DOMAIN queueOut[c]} : c \in Channels}

\* "AddressMap - performs DMA address translations for read and write requests
\* before they are passed the pcie core": a request leaves with the translation
\* of its channel and port that was current when it was accepted or one that
\* replaced it before it was read.
TranslatedRight ==
  \A r \in Outgoing : r.pcie_addr \in {r.offset + b : b \in r.bases}

\* It does, across the stages, the register in front of the write port and the
\* slots of the other channels, if it did not have to wait in the read stage.
UnstalledRight ==
  \A r \in Outgoing : ~r.stalled => r.pcie_addr \in {r.offset + b : b \in r.bases}
=============================================================================
