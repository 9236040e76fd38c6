------------------------- MODULE DriverSessionsProofs -------------------------
(***************************************************************************)
(* Sessions, DMA buffers and the NIC's map under opens, mmaps and closes   *)
(* that overlap in any way, proved for every number of sessions, files and *)
(* buffers, failing allocations, callers that die in the kernel and        *)
(* reloads of the module included.                                         *)
(***************************************************************************)
EXTENDS DriverSessions, Integers, TLAPS

\* The place of a type in MapOrder.
Place(t) == IF t = C2H_METADATA_MAP THEN 1 ELSE IF t = H2C_MSGBUFF_MAP THEN 2 ELSE 3

\* Owned(f), as a predicate on a type.
Owns(f, t) ==
  \/ pc[f] = "open"
  \/ pc[f] = "alloc" /\ Place(t) < step[f]
  \/ pc[f] = "free" /\ step[f] <= Place(t)
  \/ pc[f] \in {"addr", "port", "type", "store", "oops"} /\ Place(t) <= step[f]

Handle(f, t) == handle[session[f]][t]

\* Files that have marked their session and not yet returned from open.
Creating == {"alloc", "addr", "port", "type", "store"}

-----------------------------------------------------------------------------
\* Opens that are under way at the same time have met.
Together ==
  \A f, g \in Files : pc[f] \in Opening /\ pc[g] \in Opening /\ f # g => met[f]

\* The device can only be opened between cdev_add and homanic_exit.
ClosedUnlessVisible ==
  module \in {"unloaded", "starting"} => \A f \in Files : pc[f] = "closed"

\* A file that holds a session has one.
HasSession == \A f \in Holders : session[f] \in Sessions

\* The session of a file is marked, but for the instant between the test and
\* the mark.
Marked ==
  \A f \in Holders : /\ session[f] \in Sessions
                     /\ assigned[session[f]] <=> pc[f] # "assign"

\* The handles a failed allocation leaves are zero: sessions are not reused.
Zeroed ==
  /\ \A s \in Sessions, t \in MapTypes : ~assigned[s] => handle[s][t] = None
  /\ \A f \in Files, t \in MapTypes :
       pc[f] \in Creating \cup {"oops"} /\ ~Owns(f, t) => Handle(f, t) = None

\* A buffer has one owner, who has it under one type, and its pages are
\* uncached for no other type.
OneOwner ==
  \A f, g \in Files, t, u \in MapTypes :
    Owns(f, t) /\ Owns(g, u) /\ Handle(f, t) = Handle(g, u) /\ Handle(f, t) # None
      => f = g /\ t = u

OwnersBuffers ==
  \A f \in Files, t \in MapTypes :
    Owns(f, t) /\ Handle(f, t) # None =>
      /\ Handle(f, t) \in allocated
      /\ uncached[Handle(f, t)] \in {None, C2H_METADATA_MAP, t}

BuffersOwned ==
  \A b \in allocated : \E f \in Files, t \in MapTypes :
    Owns(f, t) /\ Handle(f, t) = b

WrittenBack == \A b \in Bufs \ allocated : uncached[b] \in {None, C2H_METADATA_MAP}

\* Only an open file has mappings, of its own buffers.
MappedOwn ==
  \A f \in Files :
    /\ pc[f] # "open" => mapped[f] = {}
    /\ \A b \in mapped[f] : \E t \in MapTypes : Handle(f, t) = b

\* The structure that is stored to the NIC, as far as an open that met no other
\* filled it.
Filled ==
  \A f \in Files : ~met[f] =>
    /\ pc[f] \in {"port", "type", "store"} => dma_map.phys_addr = Handle(f, Current(f))
    /\ pc[f] \in {"type", "store"} => dma_map.port = 1
    /\ pc[f] = "store" => dma_map.type = Current(f)

\* The NIC's map during an open that met no other: its buffers up to the present
\* step.  Registers are mapped by the second step.
Stored ==
  \A f \in Files : pc[f] \in Creating =>
    /\ step[f] > 1 => module = "loaded"
    /\ ~met[f] => \A t \in MapTypes : Place(t) < step[f] => nicMap[1][t] = Handle(f, t)

\* No open has stored anything since the latest one that returned.
Untouched == \A f \in Files : pc[f] \in Creating => step[f] = 1

\* The NIC's map until the next open stores something.
Whole == alone /\ Untouched => nicMap[1] = onboarded

SessionInv == TypeOK /\ HasSession /\ Together /\ ClosedUnlessVisible

\* What holds of the sessions and buffers until two opens take one session.
Apart == Marked /\ SessionExclusive

BufferInv == Zeroed /\ OneOwner /\ OwnersBuffers /\ BuffersOwned /\ WrittenBack /\ MappedOwn

OwnInv == raced \/ (Apart /\ BufferInv)

MapInv == Filled /\ Stored /\ Whole

-----------------------------------------------------------------------------
\* MapOrder lists the three types once each.
LEMMA Places ==
  /\ Len(MapOrder) = 3
  /\ \A i \in 1..3 : MapOrder[i] \in MapTypes /\ Place(MapOrder[i]) = i
  /\ \A t \in MapTypes : Place(t) \in 1..3 /\ MapOrder[Place(t)] = t
  /\ C2H_METADATA_MAP \in MapTypes /\ 0 \in MapTypes
BY DEF MapOrder, MapTypes, Place, C2H_METADATA_MAP, H2C_MSGBUFF_MAP, C2H_MSGBUFF_MAP

\* The initial state.
LEMMA InitSession == Init => SessionInv
<1> SUFFICES ASSUME Init PROVE SessionInv
  OBVIOUS
<1>1. 0 \in Sessions
  BY PortsAssumption DEF Sessions
<1>2. /\ assigned \in [Sessions -> BOOLEAN] /\ met \in [Files -> BOOLEAN]
      /\ raced \in BOOLEAN /\ alone \in BOOLEAN
  BY Zenon DEF Init
<1>3. nicMap \in [Ports -> [MapTypes -> Bufs \cup {None}]]
  BY DEF Init
<1>4. handle \in [Sessions -> [MapTypes -> Bufs \cup {None}]]
  BY DEF Init
<1>5. TypeOK
  BY <1>1, <1>2, <1>3, <1>4, Places DEF Init, TypeOK, PCs
<1>6. QED
  BY <1>5 DEF Init, SessionInv, Together, ClosedUnlessVisible, HasSession, Holders, Opening

\* Every action keeps the types, given that those who use a session have one.
LEMMA TypeStep ==
  ASSUME TypeOK, HasSession, [Next]_vars
  PROVE  TypeOK'
<1> USE Places, PortsAssumption, NoneAssumption
<1> USE DEF nic, memory, races
<1>0. TypeOK
  OBVIOUS
<1>1. \A f \in Files : pc[f] \notin {"closed", "scan"} => session[f] \in Sessions
  BY DEF HasSession, Holders
<1>2. CASE InitSessions
  BY <1>0, <1>2 DEF TypeOK, InitSessions
<1>3. CASE InitFails \/ InitDevice \/ InitRegisters \/ Exit
  BY <1>0, <1>3 DEF TypeOK, InitFails, InitDevice, InitRegisters, Exit
<1>4. ASSUME NEW f \in Files, OpenEnter(f) PROVE TypeOK'
  <2>1. met' \in [Files -> BOOLEAN]
    BY <1>4 DEF OpenEnter
  <2>2. opened' \in Nat /\ pc' \in [Files -> PCs]
    BY <1>0, <1>4 DEF TypeOK, OpenEnter, Goto, PCs, Opening
  <2>3. QED
    BY <1>0, <1>4, <2>1, <2>2 DEF TypeOK, OpenEnter
<1>5. ASSUME NEW f \in Files, OpenScan(f) PROVE TypeOK'
  <2>1. scan[f] \in 0..(MAX_PORTS - 1) /\ scan[f] + 1 \in Nat
    BY <1>0 DEF TypeOK, Sessions
  <2>2. scan' \in [Files -> Sessions]
    BY <1>0, <1>5, <2>1 DEF TypeOK, OpenScan, Sessions
  <2>3. session' \in [Files -> Sessions \cup {None}] /\ pc' \in [Files -> PCs]
    <3>1. /\ session' = session \/ session' = [session EXCEPT ![f] = scan[f]]
          /\ \E l \in {"assign", "closed"} : pc' = pc \/ pc' = [pc EXCEPT ![f] = l]
      BY <1>5 DEF OpenScan, Goto
    <3>2. session' \in [Files -> Sessions \cup {None}]
      BY <1>0, <3>1, SMTT(60) DEF TypeOK
    <3>3. pc' \in [Files -> PCs]
      <4>1. pc \in [Files -> PCs] /\ {"assign", "closed"} \subseteq PCs
        BY <1>0 DEF TypeOK, PCs, Opening
      <4>2. QED
        BY <3>1, <4>1
    <3>4. QED
      BY <3>2, <3>3
  <2>4. met' \in [Files -> BOOLEAN] /\ raced' \in BOOLEAN
    <3>1. raced' \in BOOLEAN
      BY <1>0, <1>5 DEF TypeOK, OpenScan
    <3>2. met' \in [Files -> BOOLEAN]
      BY <1>0, <1>5 DEF TypeOK, OpenScan
    <3>3. QED
      BY <3>1, <3>2
  <2>5. QED
    BY <1>0, <1>5, <2>2, <2>3, <2>4 DEF TypeOK, OpenScan
<1>6. ASSUME NEW f \in Files, OpenAssign(f) PROVE TypeOK'
  <2>1. assigned' \in [Sessions -> BOOLEAN]
    BY <1>0, <1>6 DEF TypeOK, OpenAssign
  <2>2. QED
    BY <1>0, <1>6, <2>1 DEF TypeOK, OpenAssign, Goto, PCs, Opening
<1>7. ASSUME NEW f \in Files, OpenAlloc(f) PROVE TypeOK'
  <2>1. session[f] \in Sessions /\ Current(f) \in MapTypes
    BY <1>0, <1>1, <1>7 DEF TypeOK, OpenAlloc, Current
  <2>2. allocated' \subseteq Bufs
    BY <1>0, <1>7 DEF TypeOK, OpenAlloc
  <2>3. handle' \in [Sessions -> [MapTypes -> Bufs \cup {None}]]
    <3>1. /\ handle \in [Sessions -> [MapTypes -> Bufs \cup {None}]]
          /\ \/ UNCHANGED handle
             \/ \E b \in Bufs : handle' = [handle EXCEPT ![session[f]][Current(f)] = b]
      BY <1>0, <1>7 DEF TypeOK, OpenAlloc
    <3>2. ASSUME NEW b \in Bufs
          PROVE  [handle EXCEPT ![session[f]][Current(f)] = b]
                   \in [Sessions -> [MapTypes -> Bufs \cup {None}]]
      <4>1. [handle[session[f]] EXCEPT ![Current(f)] = b] \in [MapTypes -> Bufs \cup {None}]
        BY <2>1, <3>1
      <4>2. QED
        BY <2>1, <3>1, <4>1
    <3>3. QED
      BY <3>1, <3>2
  <2>4. QED
    BY <1>0, <1>7, <2>2, <2>3 DEF TypeOK, OpenAlloc, Goto, PCs, Opening
<1>8. ASSUME NEW f \in Files, OpenSetAddr(f) \/ OpenSetPort(f) \/ OpenSetType(f) PROVE TypeOK'
  <2>1. session[f] \in Sessions /\ Current(f) \in MapTypes
    BY <1>0, <1>1, <1>8 DEF TypeOK, OpenSetAddr, OpenSetPort, OpenSetType, Current
  <2>2. handle[session[f]][Current(f)] \in Bufs \cup {None}
    BY <1>0, <2>1 DEF TypeOK
  <2>3. dma_map' \in [phys_addr : Bufs \cup {None}, port : {0, 1}, type : MapTypes]
    BY <1>0, <1>8, <2>1, <2>2, SMTT(120) DEF TypeOK, OpenSetAddr, OpenSetPort, OpenSetType
  <2>4. pc' \in [Files -> PCs]
    BY <1>0, <1>8 DEF TypeOK, OpenSetAddr, OpenSetPort, OpenSetType, Goto, PCs, Opening
  <2>5. UNCHANGED <<opened, module, assigned, handle, nicMap, onboarded, alone, allocated,
                    uncached, scan, session, step, mapped, met, raced>>
    BY <1>8, Zenon DEF OpenSetAddr, OpenSetPort, OpenSetType
  <2>6. QED
    BY <1>0, <2>3, <2>4, <2>5 DEF TypeOK
<1>9. ASSUME NEW f \in Files, OpenStore(f) PROVE TypeOK'
  <2>1. dma_map.type \in MapTypes /\ dma_map.phys_addr \in Bufs \cup {None}
    BY <1>0 DEF TypeOK
  <2>2. nicMap' \in [Ports -> [MapTypes -> Bufs \cup {None}]]
    BY <1>0, <1>9, <2>1 DEF TypeOK, OpenStore
  <2>3. onboarded' \in [MapTypes -> Bufs \cup {None}]
    <3>1. handle[session[f]] \in [MapTypes -> Bufs \cup {None}]
      BY <1>0, <1>1, <1>9 DEF TypeOK, OpenStore
    <3>2. onboarded' = onboarded \/ onboarded' = handle[session[f]]
      BY <1>9 DEF OpenStore
    <3>3. QED
      BY <1>0, <3>1, <3>2 DEF TypeOK
  <2>4. step' \in [Files -> 1..3] /\ pc' \in [Files -> PCs]
    <3>1. /\ \/ step' = [step EXCEPT ![f] = 1]
             \/ step[f] < 3 /\ step' = [step EXCEPT ![f] = @ + 1]
          /\ pc' = [pc EXCEPT ![f] = "alloc"] \/ pc' = [pc EXCEPT ![f] = "open"]
      BY <1>9 DEF OpenStore, Goto
    <3>2. step' \in [Files -> 1..3]
      <4>1. step \in [Files -> 1..3] /\ step[f] \in 1..3
        BY <1>0 DEF TypeOK
      <4>2. QED
        BY <3>1, <4>1
    <3>3. pc' \in [Files -> PCs]
      BY <1>0, <3>1 DEF TypeOK, PCs, Opening
    <3>4. QED
      BY <3>2, <3>3
  <2>5. alone' \in BOOLEAN /\ met' \in [Files -> BOOLEAN]
    BY <1>0, <1>9 DEF TypeOK, OpenStore
  <2>6. QED
    BY <1>0, <1>9, <2>2, <2>3, <2>4, <2>5 DEF TypeOK, OpenStore
<1>10. ASSUME NEW f \in Files, OpenOops(f) PROVE TypeOK'
  BY <1>0, <1>10 DEF TypeOK, OpenOops, Goto, PCs
<1>11. ASSUME NEW f \in Files, NEW t \in MapTypes, Mmap(f, t) PROVE TypeOK'
  <2>1. handle[session[f]][t] \in Bufs \cup {None}
    BY <1>0, <1>1, <1>11 DEF TypeOK, Mmap
  <2>2. mapped' \in [Files -> SUBSET Bufs]
    BY <1>0, <1>11, <2>1 DEF TypeOK, Mmap
  <2>3. uncached' \in [Bufs -> MapTypes \cup {None}]
    BY <1>0, <1>11, <2>1 DEF TypeOK, Mmap
  <2>4. QED
    BY <1>0, <1>11, <2>2, <2>3 DEF TypeOK, Mmap
<1>12. ASSUME NEW f \in Files, CloseEnter(f) PROVE TypeOK'
  BY <1>0, <1>12 DEF TypeOK, CloseEnter, Goto, PCs, Closing
<1>13. ASSUME NEW f \in Files, CloseFree(f) PROVE TypeOK'
  <2>1. step' \in [Files -> 1..3] /\ pc' \in [Files -> PCs]
        /\ session' \in [Files -> Sessions \cup {None}]
    <3>1. /\ \/ step' = [step EXCEPT ![f] = 1]
             \/ step[f] < 3 /\ step' = [step EXCEPT ![f] = @ + 1]
          /\ pc' = pc \/ pc' = [pc EXCEPT ![f] = "closed"]
          /\ session' = session \/ session' = [session EXCEPT ![f] = None]
      BY <1>13 DEF CloseFree, Goto
    <3>2. step' \in [Files -> 1..3]
      <4>1. step \in [Files -> 1..3] /\ step[f] \in 1..3
        BY <1>0 DEF TypeOK
      <4>2. QED
        BY <3>1, <4>1
    <3>3. pc' \in [Files -> PCs] /\ session' \in [Files -> Sessions \cup {None}]
      BY <1>0, <3>1 DEF TypeOK, PCs
    <3>4. QED
      BY <3>2, <3>3
  <2>2. uncached' \in [Bufs -> MapTypes \cup {None}]
    BY <1>0, <1>13 DEF TypeOK, CloseFree
  <2>3. QED
    BY <1>0, <1>13, <2>1, <2>2 DEF TypeOK, CloseFree
<1>14. CASE UNCHANGED vars
  BY <1>0, <1>14 DEF TypeOK, vars
<1>15. QED
  BY <1>2, <1>3, <1>4, <1>5, <1>6, <1>7, <1>8, <1>9, <1>10, <1>11, <1>12,
     <1>13, <1>14 DEF Next, Load, Open, Close

\* Every action keeps who met whom, and the device closed unless it is visible.
LEMMA SessionStep ==
  ASSUME SessionInv, [Next]_vars
  PROVE  SessionInv'
<1> USE DEF nic, memory, races
<1> DEFINE Goal == HasSession' /\ Together' /\ ClosedUnlessVisible'
<1>0. TypeOK /\ HasSession /\ Together /\ ClosedUnlessVisible /\ TypeOK'
  BY TypeStep DEF SessionInv
<1>t. /\ pc \in [Files -> PCs] /\ session \in [Files -> Sessions \cup {None}]
      /\ scan \in [Files -> Sessions] /\ met \in [Files -> BOOLEAN]
  BY <1>0 DEF TypeOK
<1> SUFFICES Goal
  BY <1>0 DEF SessionInv
<1> USE DEF Together, ClosedUnlessVisible, HasSession, Holders, Opening
<1>1. CASE InitSessions
  BY <1>0, <1>1 DEF InitSessions
<1>2. CASE InitFails \/ InitDevice \/ InitRegisters \/ Exit
  BY <1>0, <1>2 DEF InitFails, InitDevice, InitRegisters, Exit
<1>3. ASSUME NEW f \in Files, OpenEnter(f) PROVE Goal
  BY <1>0, <1>t, <1>3 DEF OpenEnter, Goto
<1>4. ASSUME NEW f \in Files, OpenScan(f) PROVE Goal
  BY <1>0, <1>t, <1>4, SMTT(60) DEF OpenScan, Goto
<1>5. ASSUME NEW f \in Files, OpenAssign(f) PROVE Goal
  BY <1>0, <1>t, <1>5 DEF OpenAssign, Goto
<1>6. ASSUME NEW f \in Files, OpenAlloc(f) PROVE Goal
  BY <1>0, <1>t, <1>6 DEF OpenAlloc, Goto
<1>7. ASSUME NEW f \in Files, OpenSetAddr(f) \/ OpenSetPort(f) \/ OpenSetType(f) PROVE Goal
  BY <1>0, <1>t, <1>7 DEF OpenSetAddr, OpenSetPort, OpenSetType, Goto
<1>8. ASSUME NEW f \in Files, OpenStore(f) PROVE Goal
  BY <1>0, <1>t, <1>8 DEF OpenStore, Goto
<1>9. ASSUME NEW f \in Files, OpenOops(f) PROVE Goal
  BY <1>0, <1>t, <1>9 DEF OpenOops, Goto
<1>10. ASSUME NEW f \in Files, NEW t \in MapTypes, Mmap(f, t) PROVE Goal
  BY <1>0, <1>t, <1>10 DEF Mmap
<1>11. ASSUME NEW f \in Files, CloseEnter(f) PROVE Goal
  BY <1>0, <1>t, <1>11 DEF CloseEnter, Goto
<1>12. ASSUME NEW f \in Files, CloseFree(f) PROVE Goal
  BY <1>0, <1>t, <1>12 DEF CloseFree, Goto
<1>13. CASE UNCHANGED vars
  BY <1>0, <1>13 DEF vars
<1>14. QED
  BY <1>1, <1>2, <1>3, <1>4, <1>5, <1>6, <1>7, <1>8, <1>9, <1>10, <1>11,
     <1>12, <1>13 DEF Next, Load, Open, Close

\* No action gives two files one session, but for an open that finds it before
\* another has marked it: sessions stay marked until the next load of the
\* module, when no file is open.
LEMMA ApartStep ==
  ASSUME SessionInv, ~raced, ~raced', Apart, [Next]_vars
  PROVE  Apart'
<1> USE DEF nic, memory, races
<1> DEFINE Goal == Marked' /\ SessionExclusive'
<1>0. TypeOK /\ ClosedUnlessVisible /\ Marked /\ SessionExclusive /\ ~raced /\ ~raced'
  BY DEF SessionInv, Apart
<1>t. /\ pc \in [Files -> PCs] /\ session \in [Files -> Sessions \cup {None}]
      /\ scan \in [Files -> Sessions] /\ assigned \in [Sessions -> BOOLEAN]
  BY <1>0 DEF TypeOK
<1> SUFFICES Goal
  BY DEF Apart
<1> USE DEF ClosedUnlessVisible, Marked, SessionExclusive, Holders, Opening
<1>1. CASE InitSessions
  BY <1>0, <1>1 DEF InitSessions
<1>2. CASE InitFails \/ InitDevice \/ InitRegisters \/ Exit
  BY <1>0, <1>2 DEF InitFails, InitDevice, InitRegisters, Exit
<1>3. ASSUME NEW f \in Files, OpenEnter(f) PROVE Goal
  BY <1>0, <1>t, <1>3 DEF OpenEnter, Goto
<1>4. ASSUME NEW f \in Files, OpenScan(f) PROVE Goal
  <2>1. UNCHANGED <<module, assigned>> /\ pc[f] = "scan"
    BY <1>4 DEF OpenScan
  <2>2. CASE ~assigned[scan[f]]
    <3>1. /\ session' = [session EXCEPT ![f] = scan[f]] /\ pc' = [pc EXCEPT ![f] = "assign"]
          /\ \A g \in Files : ~(pc[g] = "assign" /\ session[g] = scan[f])
      BY <1>0, <1>4, <2>2 DEF OpenScan, Goto
    <3>2. \A g \in Holders : session[g] # scan[f]
      BY <1>0, <2>2, <3>1
    <3>3. /\ scan[f] \in Sessions /\ f \notin Holders /\ Holders' = Holders \cup {f}
          /\ session'[f] = scan[f] /\ pc'[f] = "assign"
          /\ \A g \in Holders : session'[g] = session[g] /\ pc'[g] = pc[g]
      BY <1>t, <2>1, <3>1
    <3>4. Marked'
      BY <1>0, <2>1, <2>2, <3>3
    <3>5. SessionExclusive'
      BY <1>0, <3>2, <3>3
    <3>6. QED
      BY <3>4, <3>5
  <2>3. CASE assigned[scan[f]]
    <3>1. UNCHANGED session /\ (UNCHANGED pc \/ pc' = [pc EXCEPT ![f] = "closed"])
      BY <1>4, <2>3 DEF OpenScan, Goto
    <3>2. Holders' = Holders /\ \A g \in Holders : pc'[g] = pc[g]
      BY <1>t, <2>1, <3>1
    <3>3. QED
      BY <1>0, <2>1, <3>1, <3>2
  <2>4. QED
    BY <1>t, <2>2, <2>3
<1>5. ASSUME NEW f \in Files, OpenAssign(f) PROVE Goal
  BY <1>0, <1>t, <1>5 DEF OpenAssign, Goto
<1>6. ASSUME NEW f \in Files, OpenAlloc(f) PROVE Goal
  BY <1>0, <1>t, <1>6 DEF OpenAlloc, Goto
<1>7. ASSUME NEW f \in Files, OpenSetAddr(f) \/ OpenSetPort(f) \/ OpenSetType(f) PROVE Goal
  BY <1>0, <1>t, <1>7 DEF OpenSetAddr, OpenSetPort, OpenSetType, Goto
<1>8. ASSUME NEW f \in Files, OpenStore(f) PROVE Goal
  BY <1>0, <1>t, <1>8 DEF OpenStore, Goto
<1>9. ASSUME NEW f \in Files, OpenOops(f) PROVE Goal
  BY <1>0, <1>t, <1>9 DEF OpenOops, Goto
<1>10. ASSUME NEW f \in Files, NEW t \in MapTypes, Mmap(f, t) PROVE Goal
  BY <1>0, <1>t, <1>10 DEF Mmap
<1>11. ASSUME NEW f \in Files, CloseEnter(f) PROVE Goal
  BY <1>0, <1>t, <1>11 DEF CloseEnter, Goto
<1>12. ASSUME NEW f \in Files, CloseFree(f) PROVE Goal
  BY <1>0, <1>t, <1>12 DEF CloseFree, Goto
<1>13. CASE UNCHANGED vars
  BY <1>0, <1>13 DEF vars
<1>14. QED
  BY <1>1, <1>2, <1>3, <1>4, <1>5, <1>6, <1>7, <1>8, <1>9, <1>10, <1>11,
     <1>12, <1>13 DEF Next, Load, Open, Close

\* A step that moves no buffer keeps what is said about owners.
LEMMA SameOwners ==
  ASSUME OneOwner, OwnersBuffers, BuffersOwned, WrittenBack,
         UNCHANGED <<handle, allocated, uncached>>,
         \A g \in Files, t \in MapTypes :
           /\ Owns(g, t)' <=> Owns(g, t)
           /\ Owns(g, t) => session'[g] = session[g]
  PROVE  OneOwner' /\ OwnersBuffers' /\ BuffersOwned' /\ WrittenBack'
<1>1. OneOwner'
  BY DEF OneOwner, Owns, Handle
<1>2. OwnersBuffers'
  BY DEF OwnersBuffers, Owns, Handle
<1>3. BuffersOwned'
  BY DEF BuffersOwned, Owns, Handle
<1>4. WrittenBack'
  BY DEF WrittenBack
<1>5. QED
  BY <1>1, <1>2, <1>3, <1>4

\* Every action keeps the ownership of the buffers.
LEMMA BufferStep ==
  ASSUME SessionInv, Apart, Apart', BufferInv, [Next]_vars
  PROVE  BufferInv'
<1> USE Places, NoneAssumption
<1> USE DEF nic, memory, races
<1>0. /\ Marked /\ SessionExclusive /\ ClosedUnlessVisible
      /\ Zeroed /\ OneOwner /\ OwnersBuffers /\ BuffersOwned /\ WrittenBack /\ MappedOwn
  BY DEF SessionInv, Apart, BufferInv
<1>t. /\ pc \in [Files -> PCs] /\ session \in [Files -> Sessions \cup {None}]
      /\ step \in [Files -> 1..3] /\ assigned \in [Sessions -> BOOLEAN]
      /\ handle \in [Sessions -> [MapTypes -> Bufs \cup {None}]]
      /\ allocated \subseteq Bufs /\ uncached \in [Bufs -> MapTypes \cup {None}]
      /\ mapped \in [Files -> SUBSET Bufs]
  BY DEF SessionInv, TypeOK
<1>s. ASSUME UNCHANGED <<handle, allocated, uncached>>, Zeroed', MappedOwn',
             \A g \in Files, t \in MapTypes :
               /\ Owns(g, t)' <=> Owns(g, t)
               /\ Owns(g, t) => session'[g] = session[g]
      PROVE  BufferInv'
  BY <1>0, <1>s, SameOwners DEF BufferInv
<1>1. CASE InitSessions
  BY <1>0, <1>t, <1>1, ZenonT(60)
     DEF InitSessions, ClosedUnlessVisible, Zeroed, OneOwner, OwnersBuffers, BuffersOwned,
         WrittenBack, MappedOwn, BufferInv, Owns, Handle, Creating
<1>2. CASE InitFails \/ InitDevice \/ InitRegisters \/ Exit
  BY <1>0, <1>2, SMTT(60)
     DEF InitFails, InitDevice, InitRegisters, Exit, Zeroed, OneOwner, OwnersBuffers, BuffersOwned,
         WrittenBack, MappedOwn, BufferInv, Owns, Handle
<1>3. ASSUME NEW f \in Files, OpenEnter(f) PROVE BufferInv'
  <2>1. MappedOwn' /\ Zeroed'
    BY <1>0, <1>t, <1>3 DEF OpenEnter, Goto, MappedOwn, Zeroed, Handle, Owns, Creating
  <2>2. QED
    BY <1>s, <1>t, <1>3, <2>1 DEF OpenEnter, Goto, Owns
<1>4. ASSUME NEW f \in Files, OpenScan(f) PROVE BufferInv'
  <2>1. Zeroed'
    BY <1>0, <1>t, <1>4 DEF OpenScan, Goto, Zeroed, Handle, Owns, Creating
  <2>2. MappedOwn'
    BY <1>0, <1>t, <1>4 DEF OpenScan, Goto, MappedOwn, Handle
  <2>3. QED
    BY <1>s, <1>t, <1>4, <2>1, <2>2 DEF OpenScan, Goto, Owns
<1>5. ASSUME NEW f \in Files, OpenAssign(f) PROVE BufferInv'
  <2>1. Zeroed'
    BY <1>0, <1>t, <1>5
       DEF OpenAssign, Goto, Zeroed, Handle, Owns, Creating, Marked, Holders
  <2>2. MappedOwn'
    BY <1>0, <1>t, <1>5 DEF OpenAssign, Goto, MappedOwn, Handle
  <2>3. QED
    BY <1>s, <1>t, <1>5, <2>1, <2>2 DEF OpenAssign, Goto, Owns
<1>6. ASSUME NEW f \in Files, OpenAlloc(f) PROVE BufferInv'
  <2> DEFINE s == session[f]
             c == Current(f)
  <2>1. /\ UNCHANGED <<uncached, session, step, mapped, assigned>>
        /\ pc[f] = "alloc" /\ pc' = [pc EXCEPT ![f] = "addr"]
        /\ \/ UNCHANGED <<allocated, handle>>
           \/ \E b \in Bufs \ allocated :
                /\ allocated' = allocated \cup {b}
                /\ handle' = [handle EXCEPT ![s][c] = b]
    BY <1>6 DEF OpenAlloc, Goto
  <2>2. s \in Sessions /\ assigned[s] /\ c \in MapTypes /\ Place(c) = step[f]
    BY <1>0, <1>t, <2>1 DEF Marked, Holders, Current
  <2>3. \A t \in MapTypes : Place(t) = step[f] => t = c
    BY <1>t, <2>2 DEF Current
  <2>4. Handle(f, c) = None
    BY <1>0, <2>1, <2>2 DEF Zeroed, Creating, Owns
  <2>5. ASSUME NEW g \in Files, NEW t \in MapTypes
        PROVE  Owns(g, t)' <=> Owns(g, t) \/ (g = f /\ t = c)
    <3>1. Place(t) \in 1..3 /\ step[f] \in 1..3
      BY <1>t
    <3>2. QED
      BY <1>t, <2>1, <2>2, <2>3, <3>1 DEF Owns
  <2>6. ASSUME NEW q \in Sessions, NEW t \in MapTypes, q # s \/ t # c
        PROVE  handle'[q][t] = handle[q][t]
    BY <1>t, <2>1, <2>2, <2>6
  <2>7. \/ allocated' = allocated /\ handle'[s][c] = None
        \/ /\ handle'[s][c] \in Bufs \ allocated
           /\ allocated' = allocated \cup {handle'[s][c]}
    BY <1>t, <2>1, <2>2, <2>4 DEF Handle
  <2>8. ASSUME NEW g \in Files, NEW t \in MapTypes, Owns(g, t)
        PROVE  handle'[session[g]][t] = Handle(g, t)
    <3>1. session[g] \in Sessions /\ (session[g] = s => g = f)
      BY <1>0, <2>1, <2>8 DEF Marked, Holders, SessionExclusive, Owns
    <3>2. g = f => t # c
      BY <2>1, <2>2, <2>8, <1>t DEF Owns
    <3>3. QED
      BY <2>6, <3>1, <3>2 DEF Handle
  <2>9. Zeroed'
    <3>1. \A q \in Sessions, t \in MapTypes : ~assigned'[q] => handle'[q][t] = None
      BY <1>0, <2>1, <2>2, <2>6 DEF Zeroed
    <3>2. ASSUME NEW g \in Files, NEW t \in MapTypes,
                 pc'[g] \in Creating \cup {"oops"}, ~Owns(g, t)'
          PROVE  handle'[session[g]][t] = None
      <4>1. pc[g] \in Creating \cup {"oops"} /\ ~Owns(g, t) /\ (g = f => t # c)
        BY <1>t, <2>1, <2>5, <3>2 DEF Creating
      <4>2. session[g] \in Sessions /\ (session[g] = s => g = f)
        BY <1>0, <2>1, <4>1 DEF Marked, Holders, SessionExclusive, Creating
      <4>3. QED
        BY <1>0, <2>6, <4>1, <4>2 DEF Zeroed, Handle
    <3>3. QED
      BY <2>1, <3>1, <3>2 DEF Zeroed, Handle
  <2>10. OneOwner'
    <3>1. ASSUME NEW g \in Files, NEW h \in Files, NEW t \in MapTypes, NEW u \in MapTypes,
                 Owns(g, t)', Owns(h, u)',
                 handle'[session[g]][t] = handle'[session[h]][u],
                 handle'[session[g]][t] # None
          PROVE  g = h /\ t = u
      <4>1. \A i \in Files, v \in MapTypes :
              Owns(i, v) /\ Handle(i, v) # None => Handle(i, v) \in allocated
        BY <1>0 DEF OwnersBuffers
      <4>2. QED
        BY <1>0, <2>5, <2>7, <2>8, <3>1, <4>1 DEF OneOwner
    <3>2. QED
      BY <2>1, <3>1 DEF OneOwner, Handle
  <2>11. OwnersBuffers'
    <3>1. ASSUME NEW g \in Files, NEW t \in MapTypes, Owns(g, t)',
                 handle'[session[g]][t] # None
          PROVE  /\ handle'[session[g]][t] \in allocated'
                 /\ uncached[handle'[session[g]][t]] \in {None, C2H_METADATA_MAP, t}
      BY <1>0, <2>5, <2>7, <2>8, <3>1 DEF OwnersBuffers, WrittenBack
    <3>2. QED
      BY <2>1, <3>1 DEF OwnersBuffers, Handle
  <2>12. BuffersOwned'
    <3>1. ASSUME NEW b \in allocated'
          PROVE  \E g \in Files, t \in MapTypes :
                   Owns(g, t)' /\ handle'[session[g]][t] = b
      BY <1>0, <2>2, <2>5, <2>7, <2>8 DEF BuffersOwned
    <3>2. QED
      BY <2>1, <3>1 DEF BuffersOwned, Handle
  <2>13. WrittenBack'
    BY <1>0, <2>1 DEF WrittenBack
  <2>14. MappedOwn'
    <3>1. ASSUME NEW g \in Files, pc[g] = "open", NEW t \in MapTypes
          PROVE  handle'[session[g]][t] = Handle(g, t)
      BY <2>8, <3>1 DEF Owns
    <3>2. QED
      BY <1>0, <1>t, <2>1, <3>1 DEF MappedOwn, Handle
  <2>15. QED
    BY <2>9, <2>10, <2>11, <2>12, <2>13, <2>14 DEF BufferInv
<1>7. ASSUME NEW f \in Files, OpenSetAddr(f) \/ OpenSetPort(f) \/ OpenSetType(f)
      PROVE  BufferInv'
  <2>1. /\ UNCHANGED <<handle, allocated, uncached, session, step, mapped, assigned>>
        /\ pc[f] \in {"addr", "port", "type"}
        /\ pc' \in {[pc EXCEPT ![f] = "port"], [pc EXCEPT ![f] = "type"],
                    [pc EXCEPT ![f] = "store"]}
    BY <1>7 DEF OpenSetAddr, OpenSetPort, OpenSetType, Goto
  <2>2. \A g \in Files, t \in MapTypes : Owns(g, t)' <=> Owns(g, t)
    BY <1>t, <2>1 DEF Owns
  <2>3. Zeroed'
    BY <1>0, <1>t, <2>1 DEF Zeroed, Handle, Owns, Creating
  <2>4. MappedOwn'
    BY <1>0, <1>t, <2>1 DEF MappedOwn, Handle
  <2>5. QED
    BY <1>s, <2>1, <2>2, <2>3, <2>4
<1>8. ASSUME NEW f \in Files, OpenStore(f) PROVE BufferInv'
  <2>1. /\ UNCHANGED <<handle, allocated, uncached, session, mapped, assigned>>
        /\ pc[f] = "store"
        /\ \/ step[f] < 3 /\ step' = [step EXCEPT ![f] = @ + 1] /\ pc' = [pc EXCEPT ![f] = "alloc"]
           \/ /\ ~(step[f] < 3) /\ step' = [step EXCEPT ![f] = 1]
              /\ pc' = [pc EXCEPT ![f] = "open"]
    BY <1>8 DEF OpenStore, Goto
  <2>2. ASSUME NEW g \in Files, NEW t \in MapTypes PROVE Owns(g, t)' <=> Owns(g, t)
    <3>1. Place(t) \in 1..3 /\ step[f] \in 1..3
      BY <1>t
    <3>2. QED
      BY <1>t, <2>1, <3>1 DEF Owns
  <2>3. Zeroed'
    BY <1>0, <1>t, <2>1, <2>2 DEF Zeroed, Handle, Owns, Creating
  <2>4. MappedOwn'
    BY <1>0, <1>t, <2>1 DEF MappedOwn, Handle
  <2>5. QED
    BY <1>s, <2>1, <2>2, <2>3, <2>4
<1>9. ASSUME NEW f \in Files, OpenOops(f) PROVE BufferInv'
  BY <1>0, <1>t, <1>9
     DEF OpenOops, Goto, Zeroed, OneOwner, OwnersBuffers, BuffersOwned,
         WrittenBack, MappedOwn, BufferInv, Owns, Handle, Creating
<1>10. ASSUME NEW f \in Files, NEW t \in MapTypes, Mmap(f, t) PROVE BufferInv'
  BY <1>0, <1>t, <1>10, SMTT(60)
     DEF Mmap, Zeroed, OneOwner, OwnersBuffers, BuffersOwned, Marked, Holders,
         SessionExclusive, WrittenBack, MappedOwn, BufferInv, Owns, Handle, Creating
<1>11. ASSUME NEW f \in Files, CloseEnter(f) PROVE BufferInv'
  <2>1. /\ UNCHANGED <<handle, allocated, uncached, session, assigned>>
        /\ pc[f] = "open" /\ pc' = [pc EXCEPT ![f] = "free"]
        /\ step' = [step EXCEPT ![f] = 1] /\ mapped' = [mapped EXCEPT ![f] = {}]
    BY <1>11 DEF CloseEnter, Goto
  <2>2. \A g \in Files, t \in MapTypes : Owns(g, t)' <=> Owns(g, t)
    BY <1>t, <2>1 DEF Owns
  <2>3. Zeroed'
    BY <1>0, <1>t, <2>1 DEF Zeroed, Handle, Owns, Creating
  <2>4. MappedOwn'
    BY <1>0, <1>t, <2>1 DEF MappedOwn, Handle
  <2>5. QED
    BY <1>s, <2>1, <2>2, <2>3, <2>4
<1>12. ASSUME NEW f \in Files, CloseFree(f) PROVE BufferInv'
  <2> DEFINE s == session[f]
             c == Current(f)
             b == Handle(f, c)
  <2>1. /\ UNCHANGED <<handle, mapped, assigned>> /\ pc[f] = "free"
        /\ \/ /\ step[f] < 3 /\ step' = [step EXCEPT ![f] = @ + 1]
              /\ UNCHANGED <<pc, session>>
           \/ /\ ~(step[f] < 3) /\ step' = [step EXCEPT ![f] = 1]
              /\ session' = [session EXCEPT ![f] = None]
              /\ pc' = [pc EXCEPT ![f] = "closed"]
    BY <1>12 DEF CloseFree, Goto
  <2>2. /\ allocated' = allocated \ {b}
        /\ uncached' = IF b = None \/ c = C2H_METADATA_MAP THEN uncached
                       ELSE [uncached EXCEPT ![b] = None]
    BY <1>12 DEF CloseFree, Handle
  <2>3. s \in Sessions /\ c \in MapTypes /\ Place(c) = step[f] /\ Owns(f, c)
    BY <1>0, <1>t, <2>1 DEF Marked, Holders, Current, Owns
  <2>4. \A t \in MapTypes : Place(t) = step[f] => t = c
    BY <1>t DEF Current
  <2>5. ASSUME NEW g \in Files, NEW t \in MapTypes
        PROVE  Owns(g, t)' <=> Owns(g, t) /\ ~(g = f /\ t = c)
    <3>1. Place(t) \in 1..3 /\ step[f] \in 1..3
      BY <1>t
    <3>2. CASE g = f
      BY <1>t, <2>1, <2>3, <2>4, <3>1, <3>2 DEF Owns
    <3>3. CASE g # f
      BY <1>t, <2>1, <3>3 DEF Owns
    <3>4. QED
      BY <3>2, <3>3
  <2>6. ASSUME NEW g \in Files, NEW t \in MapTypes, Owns(g, t)'
        PROVE  handle'[session'[g]][t] = Handle(g, t)
    <3>1. session'[g] = session[g]
      BY <1>t, <2>1, <2>6 DEF Owns
    <3>2. QED
      BY <2>1, <3>1 DEF Handle
  <2>7. b # None =>
          /\ b \in allocated /\ uncached[b] \in {None, C2H_METADATA_MAP, c}
          /\ \A g \in Files, t \in MapTypes : Owns(g, t)' => Handle(g, t) # b
    BY <1>0, <2>3, <2>5 DEF OwnersBuffers, OneOwner
  <2>8. Zeroed'
    BY <1>0, <1>t, <2>1, SMTT(60) DEF Zeroed, Handle, Owns, Creating
  <2>9. OneOwner'
    BY <1>0, <2>5, <2>6 DEF OneOwner, Handle
  <2>10. OwnersBuffers'
    <3>1. ASSUME NEW g \in Files, NEW t \in MapTypes, Owns(g, t)', Handle(g, t) # None
          PROVE  /\ Handle(g, t) \in allocated'
                 /\ uncached'[Handle(g, t)] \in {None, C2H_METADATA_MAP, t}
      <4>1. Handle(g, t) # b
        BY <2>7, <3>1
      <4>2. Handle(g, t) \in allocated
            /\ uncached[Handle(g, t)] \in {None, C2H_METADATA_MAP, t}
        BY <1>0, <2>5, <3>1 DEF OwnersBuffers
      <4>3. uncached'[Handle(g, t)] = uncached[Handle(g, t)]
        BY <1>t, <2>2, <4>1, <4>2
      <4>4. QED
        BY <2>2, <4>1, <4>2, <4>3
    <3>2. QED
      BY <2>6, <3>1 DEF OwnersBuffers, Handle
  <2>11. BuffersOwned'
    <3>1. ASSUME NEW d \in allocated'
          PROVE  \E g \in Files, t \in MapTypes :
                   Owns(g, t)' /\ handle'[session'[g]][t] = d
      <4>1. d \in allocated /\ d # b
        BY <2>2
      <4>2. PICK g \in Files, t \in MapTypes : Owns(g, t) /\ Handle(g, t) = d
        BY <1>0, <4>1 DEF BuffersOwned
      <4>3. Owns(g, t)'
        BY <2>5, <4>1, <4>2
      <4>4. QED
        BY <2>6, <4>2, <4>3
    <3>2. QED
      BY <3>1 DEF BuffersOwned, Handle
  <2>12. WrittenBack'
    <3>1. ASSUME NEW d \in Bufs \ allocated'
          PROVE  uncached'[d] \in {None, C2H_METADATA_MAP}
      <4>1. CASE d # b
        BY <1>0, <1>t, <2>2, <4>1 DEF WrittenBack
      <4>2. CASE d = b
        <5>1. b # None /\ uncached[b] \in {None, C2H_METADATA_MAP, c}
          BY <2>7, <4>2
        <5>2. QED
          BY <1>t, <2>2, <4>2, <5>1
      <4>3. QED
        BY <4>1, <4>2
    <3>2. QED
      BY <3>1 DEF WrittenBack
  <2>13. MappedOwn'
    BY <1>0, <1>t, <2>1 DEF MappedOwn, Handle
  <2>14. QED
    BY <2>8, <2>9, <2>10, <2>11, <2>12, <2>13 DEF BufferInv
<1>13. CASE UNCHANGED vars
  BY <1>0, <1>13
     DEF vars, Zeroed, OneOwner, OwnersBuffers, BuffersOwned,
         WrittenBack, MappedOwn, BufferInv, Owns, Handle
<1>14. QED
  BY <1>1, <1>2, <1>3, <1>4, <1>5, <1>6, <1>7, <1>8, <1>9, <1>10, <1>11,
     <1>12, <1>13 DEF Next, Load, Open, Close

\* A step of one open leaves alone what is said of an open that met no other.
LEMMA MapStep ==
  ASSUME SessionInv, SessionInv', MapInv, [Next]_vars
  PROVE  MapInv'
<1> USE Places, PortsAssumption, NoneAssumption
<1> USE DEF nic, memory, races
<1>0. /\ HasSession /\ Together /\ ClosedUnlessVisible /\ Filled /\ Stored /\ Whole
  BY DEF SessionInv, MapInv
<1>t. /\ pc \in [Files -> PCs] /\ session \in [Files -> Sessions \cup {None}]
      /\ step \in [Files -> 1..3] /\ met \in [Files -> BOOLEAN]
      /\ handle \in [Sessions -> [MapTypes -> Bufs \cup {None}]]
      /\ dma_map \in [phys_addr : Bufs \cup {None}, port : {0, 1}, type : MapTypes]
      /\ onboarded \in [MapTypes -> Bufs \cup {None}]
      /\ nicMap \in [Ports -> [MapTypes -> Bufs \cup {None}]]
      /\ 1 \in Ports
  BY DEF SessionInv, TypeOK, Ports
<1>m. \A f, g \in Files : pc[f] \in Opening /\ pc[g] \in Opening /\ f # g => met[g]
  BY <1>0 DEF Together
<1> USE DEF Opening, ClosedUnlessVisible, HasSession, Holders,
            Filled, Stored, Untouched, Whole, MapInv, Handle, Creating
<1>1. CASE InitSessions
  BY <1>0, <1>t, <1>1 DEF InitSessions
<1>2. CASE InitFails \/ InitDevice \/ InitRegisters \/ Exit
  BY <1>0, <1>t, <1>2 DEF InitFails, InitDevice, InitRegisters, Exit, Current
<1>3. ASSUME NEW f \in Files, OpenEnter(f) PROVE MapInv'
  <2>1. /\ UNCHANGED <<module, handle, dma_map, nicMap, onboarded, alone, session, step>>
        /\ pc[f] = "closed" /\ pc'[f] = "scan"
        /\ \A g \in Files : g # f => pc'[g] = pc[g]
    BY <1>t, <1>3 DEF OpenEnter, Goto
  <2>2. \A g \in Files : g # f /\ ~met'[g] => ~met[g]
    BY <1>3 DEF OpenEnter
  <2>3. Filled'
    BY <1>0, <2>1, <2>2 DEF Current
  <2>4. Stored'
    BY <1>0, <2>1, <2>2
  <2>5. Whole'
    BY <1>0, <2>1
  <2>6. QED
    BY <2>3, <2>4, <2>5
<1>4. ASSUME NEW f \in Files, OpenScan(f) PROVE MapInv'
  <2>1. /\ UNCHANGED <<module, handle, dma_map, nicMap, onboarded, alone, step>>
        /\ pc[f] = "scan" /\ pc'[f] \in {"scan", "assign", "closed"}
        /\ \A g \in Files : g # f => /\ pc'[g] = pc[g] /\ session'[g] = session[g]
                                     /\ met'[g] = met[g]
    BY <1>t, <1>4 DEF OpenScan, Goto
  <2>2. QED
    BY <1>0, <2>1 DEF Current
<1>5. ASSUME NEW f \in Files, OpenAssign(f) PROVE MapInv'
  <2>1. /\ UNCHANGED <<module, handle, dma_map, nicMap, onboarded, alone, met, session>>
        /\ pc[f] = "assign" /\ pc'[f] = "alloc" /\ step'[f] = 1
        /\ \A g \in Files : g # f => pc'[g] = pc[g] /\ step'[g] = step[g]
    BY <1>t, <1>5 DEF OpenAssign, Goto
  <2>2. \A t \in MapTypes : ~(Place(t) < 1)
    OBVIOUS
  <2>3. Filled'
    BY <1>0, <2>1 DEF Current
  <2>4. Stored'
    BY <1>0, <2>1, <2>2
  <2>5. Whole'
    BY <1>0, <2>1
  <2>6. QED
    BY <2>3, <2>4, <2>5
<1>6. ASSUME NEW f \in Files, OpenAlloc(f) PROVE MapInv'
  <2>1. /\ UNCHANGED <<module, dma_map, nicMap, onboarded, alone, met, session, step>>
        /\ pc[f] = "alloc" /\ pc'[f] = "addr"
        /\ \A g \in Files : g # f => pc'[g] = pc[g]
    BY <1>t, <1>6 DEF OpenAlloc, Goto
  <2>2. \A t \in MapTypes : t # Current(f) => handle'[session[f]][t] = handle[session[f]][t]
    BY <1>0, <1>t, <1>6, <2>1 DEF OpenAlloc
  <2>3. Place(Current(f)) = step[f]
    BY <1>t DEF Current
  <2>4. ASSUME NEW g \in Files, ~met[g], pc[g] \in Opening PROVE g = f
    BY <1>m, <2>1, <2>4
  <2>5. Filled'
    BY <2>1, <2>4
  <2>6. Stored'
    <3>1. ASSUME NEW g \in Files, pc'[g] \in Creating
          PROVE  step'[g] > 1 => module' = "loaded"
      BY <1>0, <2>1, <3>1
    <3>2. ASSUME NEW g \in Files, pc'[g] \in Creating, ~met'[g],
                 NEW t \in MapTypes, Place(t) < step'[g]
          PROVE  nicMap'[1][t] = handle'[session'[g]][t]
      <4>1. g = f /\ pc[g] \in Creating
        BY <2>1, <2>4, <3>2
      <4>2. t # Current(f) /\ nicMap[1][t] = handle[session[f]][t]
        BY <1>0, <1>t, <2>1, <2>3, <3>2, <4>1
      <4>3. QED
        BY <2>1, <2>2, <4>1, <4>2
    <3>3. QED
      BY <3>1, <3>2
  <2>7. Whole'
    BY <1>0, <2>1
  <2>8. QED
    BY <2>5, <2>6, <2>7
<1>7. ASSUME NEW f \in Files, OpenSetAddr(f) \/ OpenSetPort(f) \/ OpenSetType(f)
      PROVE  MapInv'
  <2>1. /\ UNCHANGED <<module, handle, nicMap, onboarded, alone, met, session, step>>
        /\ pc[f] \in {"addr", "port", "type"}
        /\ \A g \in Files : g # f => pc'[g] = pc[g]
        /\ pc'[f] \in {"port", "type", "store"}
    BY <1>t, <1>7 DEF OpenSetAddr, OpenSetPort, OpenSetType, Goto
  <2>2. ASSUME NEW g \in Files, ~met[g], pc[g] \in Opening PROVE g = f
    BY <1>m, <2>1, <2>2
  <2>3. Filled'
    <3>1. CASE OpenSetAddr(f)
      BY <1>0, <1>t, <2>1, <2>2, <3>1 DEF OpenSetAddr, Goto, Current
    <3>2. CASE OpenSetPort(f)
      BY <1>0, <1>t, <2>1, <2>2, <3>2 DEF OpenSetPort, Goto, Current
    <3>3. CASE OpenSetType(f)
      BY <1>0, <1>t, <2>1, <2>2, <3>3 DEF OpenSetType, Goto, Current
    <3>4. QED
      BY <1>7, <3>1, <3>2, <3>3
  <2>4. Stored'
    BY <1>0, <2>1
  <2>5. Whole'
    BY <1>0, <2>1
  <2>6. QED
    BY <2>3, <2>4, <2>5
<1>8. ASSUME NEW f \in Files, OpenStore(f) PROVE MapInv'
  <2> DEFINE c == Current(f)
  <2>1. /\ UNCHANGED <<module, handle, dma_map, session>> /\ module = "loaded"
        /\ pc[f] = "store"
        /\ nicMap' = [nicMap EXCEPT ![dma_map.port][dma_map.type] = dma_map.phys_addr]
        /\ \/ /\ step[f] < 3 /\ step' = [step EXCEPT ![f] = @ + 1]
              /\ pc' = [pc EXCEPT ![f] = "alloc"] /\ UNCHANGED <<onboarded, alone, met>>
           \/ /\ ~(step[f] < 3) /\ step' = [step EXCEPT ![f] = 1]
              /\ pc' = [pc EXCEPT ![f] = "open"] /\ onboarded' = handle[session[f]]
              /\ alone' = ~met[f] /\ met' = [met EXCEPT ![f] = FALSE]
    BY <1>8 DEF OpenStore, Goto
  <2>2. session[f] \in Sessions /\ c \in MapTypes /\ Place(c) = step[f]
    BY <1>0, <1>t, <2>1 DEF Current
  <2>3. ASSUME NEW g \in Files, g # f
        PROVE  pc'[g] = pc[g] /\ step'[g] = step[g] /\ met'[g] = met[g]
    BY <1>t, <2>1, <2>3
  <2>4. ASSUME NEW g \in Files, ~met[g], pc[g] \in Opening PROVE g = f
    BY <1>m, <2>1, <2>4
  <2>5. ASSUME ~met[f], NEW t \in MapTypes, Place(t) <= step[f]
        PROVE  nicMap'[1][t] = Handle(f, t)
    <3>1. dma_map.port = 1 /\ dma_map.type = c /\ dma_map.phys_addr = Handle(f, c)
      BY <1>0, <2>1, <2>5
    <3>2. /\ nicMap'[1][c] = Handle(f, c)
          /\ \A u \in MapTypes : u # c => nicMap'[1][u] = nicMap[1][u]
      BY <1>t, <2>1, <2>2, <3>1
    <3>3. Place(t) \in 1..3 /\ step[f] \in 1..3
      BY <1>t
    <3>4. CASE Place(t) = step[f]
      <4>1. t = c
        BY <1>t, <3>4 DEF Current
      <4>2. QED
        BY <3>2, <4>1
    <3>5. CASE Place(t) < step[f]
      <4>1. nicMap[1][t] = Handle(f, t) /\ t # c
        BY <1>0, <2>1, <2>2, <2>5, <3>5
      <4>2. QED
        BY <3>2, <4>1
    <3>6. QED
      BY <2>5, <3>3, <3>4, <3>5
  <2>6. Filled'
    BY <2>1, <2>3, <2>4, <1>t
  <2>7. CASE step[f] < 3
    <3>1. /\ step'[f] = step[f] + 1 /\ step[f] \in 1..3
          /\ pc'[f] = "alloc" /\ UNCHANGED <<onboarded, alone, met>>
      BY <1>t, <2>1, <2>7
    <3>2. Stored'
      <4>1. ASSUME NEW g \in Files, pc'[g] \in Creating
            PROVE  step'[g] > 1 => module' = "loaded"
        BY <2>1
      <4>2. ASSUME NEW g \in Files, pc'[g] \in Creating, ~met'[g],
                   NEW t \in MapTypes, Place(t) < step'[g]
            PROVE  nicMap'[1][t] = handle'[session'[g]][t]
        <5>1. g = f
          BY <2>3, <2>4, <3>1, <4>2
        <5>2. Place(t) \in 1..3
          OBVIOUS
        <5>3. Place(t) <= step[f] /\ ~met[f]
          BY <3>1, <4>2, <5>1, <5>2
        <5>4. QED
          BY <2>1, <2>5, <5>1, <5>3
      <4>3. QED
        BY <4>1, <4>2
    <3>3. Whole'
      <4>1. ~Untouched'
        BY <3>1
      <4>2. QED
        BY <4>1
    <3>4. QED
      BY <2>6, <3>2, <3>3
  <2>8. CASE ~(step[f] < 3)
    <3>1. /\ onboarded' = handle[session[f]] /\ pc'[f] = "open" /\ step[f] = 3
          /\ alone' = ~met[f]
      BY <1>t, <2>1, <2>8
    <3>2. Stored'
      <4>1. ASSUME NEW g \in Files, pc'[g] \in Creating
            PROVE  met'[g] /\ module' = "loaded"
        BY <2>1, <2>3, <2>4, <3>1, <4>1
      <4>2. QED
        BY <4>1
    <3>3. Whole'
      <4>1. ASSUME ~met[f] PROVE nicMap'[1] = onboarded'
        <5>1. nicMap' \in [Ports -> [MapTypes -> Bufs \cup {None}]]
              /\ onboarded' \in [MapTypes -> Bufs \cup {None}]
          BY DEF SessionInv, TypeOK
        <5>2. \A t \in MapTypes : nicMap'[1][t] = onboarded'[t]
          BY <2>5, <3>1, <4>1
        <5>3. QED
          BY <1>t, <5>1, <5>2
      <4>2. QED
        BY <3>1, <4>1
    <3>4. QED
      BY <2>6, <3>2, <3>3
  <2>9. QED
    BY <2>7, <2>8
<1>9. ASSUME NEW f \in Files, OpenOops(f) PROVE MapInv'
  <2>1. /\ UNCHANGED <<module, handle, nicMap, onboarded, alone, dma_map, session, step>>
        /\ pc[f] = "store" /\ module = "visible" /\ pc'[f] = "oops"
        /\ \A g \in Files : g # f => pc'[g] = pc[g] /\ met'[g] = met[g]
    BY <1>t, <1>9 DEF OpenOops, Goto
  <2>2. step[f] = 1
    BY <1>0, <1>t, <2>1
  <2>3. Filled' /\ Stored'
    BY <1>0, <2>1 DEF Current
  <2>4. Untouched' => Untouched
    BY <2>1, <2>2
  <2>5. Whole'
    BY <1>0, <2>1, <2>4
  <2>6. QED
    BY <2>3, <2>5
<1>10. ASSUME NEW f \in Files, NEW t \in MapTypes, Mmap(f, t) PROVE MapInv'
  BY <1>0, <1>t, <1>10 DEF Mmap, Current
<1>11. ASSUME NEW f \in Files, CloseEnter(f) PROVE MapInv'
  <2>1. /\ UNCHANGED <<module, handle, nicMap, onboarded, alone, dma_map, session, met>>
        /\ pc[f] = "open" /\ pc'[f] = "free"
        /\ \A g \in Files : g # f => pc'[g] = pc[g] /\ step'[g] = step[g]
    BY <1>t, <1>11 DEF CloseEnter, Goto
  <2>2. QED
    BY <1>0, <2>1 DEF Current
<1>12. ASSUME NEW f \in Files, CloseFree(f) PROVE MapInv'
  <2>1. /\ UNCHANGED <<module, handle, nicMap, onboarded, alone, dma_map, met>>
        /\ pc[f] = "free" /\ pc'[f] \in {"free", "closed"}
        /\ \A g \in Files :
             g # f => pc'[g] = pc[g] /\ session'[g] = session[g] /\ step'[g] = step[g]
    BY <1>t, <1>12 DEF CloseFree, Goto
  <2>2. QED
    BY <1>0, <2>1 DEF Current
<1>13. CASE UNCHANGED vars
  BY <1>0, <1>13 DEF vars, Current
<1>14. QED
  BY <1>1, <1>2, <1>3, <1>4, <1>5, <1>6, <1>7, <1>8, <1>9, <1>10, <1>11,
     <1>12, <1>13 DEF Next, Load, Open, Close

-----------------------------------------------------------------------------
\* The predicate of the proofs is the set of the properties.
LEMMA OwnedTypes ==
  ASSUME TypeOK, NEW f \in Files
  PROVE  Owned(f) = {t \in MapTypes : Owns(f, t)}
<1>0. step[f] \in 1..3 /\ pc[f] \in PCs
  BY DEF TypeOK
<1>1. CASE pc[f] = "open"
  BY <1>1 DEF Owned, Owns
<1>2. CASE pc[f] = "alloc"
  <2>1. Owned(f) = {MapOrder[i] : i \in 1..(step[f] - 1)}
    BY <1>2 DEF Owned
  <2>2. QED
    BY <1>0, <1>2, <2>1, Places DEF Owns
<1>3. CASE pc[f] = "free"
  <2>1. Owned(f) = {MapOrder[i] : i \in step[f]..3}
    BY <1>3 DEF Owned
  <2>2. QED
    BY <1>0, <1>3, <2>1, Places DEF Owns
<1>4. CASE pc[f] \in {"addr", "port", "type", "store", "oops"}
  <2>1. Owned(f) = {MapOrder[i] : i \in 1..step[f]}
    BY <1>4 DEF Owned
  <2>2. QED
    BY <1>0, <1>4, <2>1, Places DEF Owns
<1>5. CASE pc[f] \in {"closed", "scan", "assign"}
  <2>1. Owned(f) = {}
    BY <1>5 DEF Owned
  <2>2. QED
    BY <1>5, <2>1 DEF Owns
<1>6. QED
  BY <1>0, <1>1, <1>2, <1>3, <1>4, <1>5 DEF PCs, Opening, Closing

\* The buffers a file owns are those its session's handles name.
LEMMA OwnedBuffers ==
  ASSUME TypeOK, NEW f \in Files, NEW b
  PROVE  b \in OwnedBufs(f) <=> b # None /\ \E t \in MapTypes : Owns(f, t) /\ Handle(f, t) = b
BY OwnedTypes DEF OwnedBufs, Handle

\* The part of the inductive invariant that nothing disturbs.
LEMMA SessionInvariant == Spec => []SessionInv
<1>1. SessionInv /\ [Next]_vars => SessionInv'
  BY SessionStep
<1>2. QED
  BY InitSession, <1>1, PTL DEF Spec

\* Every register, handle and pointer keeps its type, whoever opens and when.
THEOREM TypeCorrect == Spec => []TypeOK
<1>1. SessionInv => TypeOK
  BY DEF SessionInv
<1>2. QED
  BY <1>1, SessionInvariant, PTL

\* The part about sessions and buffers, until two opens take one session.
LEMMA OwnInvariant == Spec => []OwnInv
<1>1. Init => OwnInv
  <2> SUFFICES ASSUME Init PROVE Apart /\ BufferInv
    BY DEF OwnInv
  <2>1. Apart
    BY DEF Init, Apart, Marked, SessionExclusive, Holders
  <2>2. BufferInv
    BY NoneAssumption DEF Init, BufferInv, Zeroed, OneOwner, OwnersBuffers, BuffersOwned,
       WrittenBack, MappedOwn, Owns, Handle, Creating
  <2>3. QED
    BY <2>1, <2>2
<1>2. SessionInv /\ OwnInv /\ [Next]_vars => OwnInv'
  <2> SUFFICES ASSUME SessionInv, OwnInv, [Next]_vars PROVE OwnInv'
    OBVIOUS
  <2>1. CASE raced'
    BY <2>1 DEF OwnInv
  <2>2. CASE ~raced'
    <3>1. raced => raced'
      BY DEF Next, Open, Close, Load, OpenEnter, OpenScan, OpenAssign, OpenAlloc,
         OpenSetAddr, OpenSetPort, OpenSetType, OpenStore, OpenOops, Mmap, CloseEnter,
         CloseFree, InitSessions, InitFails, InitDevice, InitRegisters, Exit, races, vars
    <3>2. ~raced /\ Apart /\ BufferInv
      BY <2>2, <3>1 DEF OwnInv
    <3>3. Apart'
      BY <2>2, <3>2, ApartStep
    <3>4. BufferInv'
      BY <3>2, <3>3, BufferStep
    <3>5. QED
      BY <3>3, <3>4 DEF OwnInv
  <2>3. QED
    BY <2>1, <2>2
<1>3. QED
  BY <1>1, <1>2, SessionInvariant, PTL DEF Spec

\* "Ensure that this session is not allocated to anyone else" (homanic_open):
\* two files only ever hold the same session after an open has found it
\* unassigned that another had found before, and not yet marked.
THEOREM SessionsStayApart == Spec => []SessionsApart
<1>1. OwnInv => SessionsApart
  BY DEF OwnInv, Apart, SessionsApart
<1>2. QED
  BY <1>1, OwnInvariant, PTL

\* homanic_open, homanic_mmap and homanic_close: unless two opens took one
\* session, a file's buffers are allocated and its own until its close has
\* freed them.
THEOREM BuffersArePrivate == Spec => []BuffersPrivate
<1>1. SessionInv /\ OwnInv => BuffersPrivate
  <2> SUFFICES ASSUME SessionInv, BufferInv PROVE BuffersPrivate
    BY DEF OwnInv, BuffersPrivate
  <2>0. TypeOK /\ OneOwner /\ OwnersBuffers /\ MappedOwn
    BY DEF SessionInv, BufferInv
  <2>1. ASSUME NEW f \in Files PROVE OwnedBufs(f) \subseteq allocated
    BY <2>0, OwnedBuffers DEF OwnersBuffers
  <2>2. ASSUME NEW f \in Files PROVE mapped[f] \subseteq OwnedBufs(f)
    <3>1. ASSUME NEW b \in mapped[f] PROVE b \in OwnedBufs(f)
      <4>1. b # None /\ pc[f] = "open"
        BY <2>0, NoneAssumption DEF TypeOK, MappedOwn
      <4>2. PICK t \in MapTypes : Handle(f, t) = b
        BY <2>0 DEF MappedOwn
      <4>3. QED
        BY <2>0, <4>1, <4>2, OwnedBuffers DEF Owns
    <3>2. QED
      BY <3>1
  <2>3. ASSUME NEW f \in Files, NEW g \in Files \ {f}
        PROVE  OwnedBufs(f) \cap OwnedBufs(g) = {}
    BY <2>0, OwnedBuffers DEF OneOwner
  <2>4. QED
    BY <2>1, <2>2, <2>3 DEF BuffersPrivate
<1>2. QED
  BY <1>1, SessionInvariant, OwnInvariant, PTL

\* homanic_close: unless two opens took one session, no buffer is without a file
\* that will free it, and what was freed is write back, but for metadata.
THEOREM AllCleanedUp == Spec => []CleanedUp
<1>1. SessionInv /\ OwnInv => CleanedUp
  <2> SUFFICES ASSUME SessionInv, BufferInv PROVE CleanedUp
    BY DEF OwnInv, CleanedUp
  <2>0. TypeOK /\ BuffersOwned /\ WrittenBack
    BY DEF SessionInv, BufferInv
  <2>1. ASSUME NEW b \in allocated PROVE \E f \in Files : b \in OwnedBufs(f)
    <3>1. b # None
      BY <2>0, NoneAssumption DEF TypeOK
    <3>2. QED
      BY <2>0, <3>1, OwnedBuffers DEF BuffersOwned
  <2>2. QED
    BY <2>0, <2>1 DEF CleanedUp, WrittenBack
<1>2. QED
  BY <1>1, SessionInvariant, OwnInvariant, PTL

\* The part about dma_map and the NIC.
LEMMA MapInvariant == Spec => []MapInv
<1>1. Init => MapInv
  <2> SUFFICES ASSUME Init PROVE MapInv
    OBVIOUS
  <2>1. 1 \in Ports
    BY PortsAssumption DEF Ports
  <2>2. QED
    BY <2>1 DEF Init, MapInv, Filled, Stored, Whole, Creating
<1>2. SessionInv /\ SessionInv' /\ MapInv /\ [Next]_vars => MapInv'
  BY MapStep
<1>3. QED
  BY <1>1, <1>2, SessionInvariant, PTL DEF Spec

\* homanic_open, homanic_close and homanic_init: when no open is under way and
\* the latest one met no other, the NIC's map is that of this open, whatever
\* other opens had written before it, and whatever was closed, reloaded or
\* reallocated since.
THEOREM LatestOpenIsMapped == Spec => []LatestOpenMapped
<1>1. MapInv => LatestOpenMapped
  BY DEF MapInv, Whole, Untouched, LatestOpenMapped, Creating, Opening
<1>2. QED
  BY <1>1, MapInvariant, PTL

\* "Create an on-chip mapping to this buffer" (homanic_open): of an open that
\* meets no other the NIC takes each address under the type of its buffer.
THEOREM OpensMatchTypes == Spec => MapsMatchTypes
<1> DEFINE Match ==
      \A f \in Files :
        pc[f] = "store" /\ pc'[f] \in {"alloc", "open"} /\ ~met[f] =>
          nicMap' = [nicMap EXCEPT ![1][Current(f)] = handle[session[f]][Current(f)]]
<1>1. SessionInv /\ MapInv /\ [Next]_vars => [Match]_vars
  <2> SUFFICES ASSUME SessionInv, MapInv, Next,
                      NEW f \in Files, pc[f] = "store", pc'[f] \in {"alloc", "open"}, ~met[f]
               PROVE  nicMap' = [nicMap EXCEPT ![1][Current(f)] = handle[session[f]][Current(f)]]
    OBVIOUS
  <2>1. dma_map.port = 1 /\ dma_map.type = Current(f)
        /\ dma_map.phys_addr = handle[session[f]][Current(f)]
    BY DEF MapInv, Filled, Handle
  <2>2. pc \in [Files -> PCs]
    BY DEF SessionInv, TypeOK
  <2>3. OpenStore(f)
    <3>1. pc' # pc
      OBVIOUS
    <3>2. PICK g \in Files : Open(g) \/ Close(g)
      BY <3>1 DEF Next, Load, InitSessions, InitFails, InitDevice, InitRegisters, Exit, Mmap
    <3>3. pc' = pc \/ \E l \in PCs : pc' = [pc EXCEPT ![g] = l]
      BY <3>2 DEF Open, Close, OpenEnter, OpenScan, OpenAssign, OpenAlloc, OpenSetAddr,
         OpenSetPort, OpenSetType, OpenStore, OpenOops, CloseEnter, CloseFree, Goto, PCs,
         Opening, Closing
    <3>4. g = f
      BY <2>2, <3>1, <3>3
    <3>5. QED
      BY <2>2, <3>2, <3>4 DEF Open, Close, OpenEnter, OpenScan, OpenAssign, OpenAlloc,
         OpenSetAddr, OpenSetPort, OpenSetType, OpenOops, CloseEnter, CloseFree, Goto
  <2>4. nicMap' = [nicMap EXCEPT ![dma_map.port][dma_map.type] = dma_map.phys_addr]
    BY <2>3 DEF OpenStore
  <2>5. QED
    BY <2>1, <2>4
<1>2. QED
  BY <1>1, SessionInvariant, MapInvariant, PTL DEF Spec, MapsMatchTypes
=============================================================================
