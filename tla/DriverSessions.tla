---------------------------- MODULE DriverSessions ----------------------------
(***************************************************************************)
(* The kernel module driver/homanic.c: loading and unloading it, open,     *)
(* mmap and release of its character device by concurrent callers, and the *)
(* address map the opens write into the NIC through the shared dma_map     *)
(* structure.  One action is one access to shared memory; the 64 byte      *)
(* store of iomov64B reads the fields of dma_map with its first load.  The *)
(* NIC's map outlives the module.  A dma_alloc_coherent that fails leaves  *)
(* the session's zeroed handle, and open goes on with it.                  *)
(***************************************************************************)
EXTENDS Naturals, Sequences, FiniteSets

CONSTANTS
  MAX_PORTS,   \* sessions (16 in the driver)
  Files,       \* open files, each used by one caller at a time
  Bufs,        \* DMA addresses dma_alloc_coherent may return
  None,        \* no session, no address
  MaxOpens     \* bound: calls of open

ASSUME PortsAssumption == MAX_PORTS \in Nat \ {0}
ASSUME OpensAssumption == MaxOpens \in Nat
ASSUME NoneAssumption == None \notin Bufs /\ None \notin Nat

H2C_MSGBUFF_MAP  == 0
C2H_MSGBUFF_MAP  == 1
C2H_METADATA_MAP == 2
MapTypes == {H2C_MSGBUFF_MAP, C2H_MSGBUFF_MAP, C2H_METADATA_MAP}

\* The order in which open creates, and close frees, the buffers.
MapOrder == <<C2H_METADATA_MAP, H2C_MSGBUFF_MAP, C2H_MSGBUFF_MAP>>

Sessions == 0..(MAX_PORTS - 1)
port(s) == s + 1
Ports == 1..MAX_PORTS

VARIABLES
  opened,     \* calls of open so far
  module,     \* "unloaded", "starting", "visible" (no io_regs yet), "loaded"
  assigned,   \* sessions[s].assigned
  handle,     \* the three DMA handles of sessions[s]
  dma_map,    \* the shared structure: phys_addr, port, type
  nicMap,     \* the NIC's address map: per port and type
  onboarded,  \* ghost: the buffers of the latest open that returned 0 ...
  alone,      \* ghost: ... and that it met no other open
  allocated,  \* DMA addresses the kernel has handed out
  uncached,   \* per address: the type for which its pages were made uncached
  pc,         \* per file: where its caller is
  scan,       \* per file: s of the loop in open
  session,    \* per file: session / private_data
  step,       \* per file: which of MapOrder it is at
  mapped,     \* per file: what its process has mapped
  met,        \* ghost, per file: has its open been under way with another?
  raced       \* ghost: has an open found a session unassigned that another
              \* had found before, and not yet marked?

vars == <<opened, module, assigned, handle, dma_map, nicMap, onboarded, alone, allocated,
          uncached, pc, scan, session, step, mapped, met, raced>>

Opening == {"scan", "assign", "alloc", "addr", "port", "type", "store"}
Closing == {"free"}
PCs == {"closed", "open", "oops"} \cup Opening \cup Closing

nic == <<nicMap, onboarded, alone>>
races == <<met, raced>>
memory == <<allocated, uncached>>

Current(f) == MapOrder[step[f]]
Goto(f, label) == pc' = [pc EXCEPT ![f] = label]

-----------------------------------------------------------------------------
\* homanic_open is entered.
OpenEnter(f) ==
  LET others == {g \in Files : pc[g] \in Opening}
  IN /\ pc[f] = "closed" /\ module \in {"visible", "loaded"}
     /\ opened < MaxOpens /\ opened' = opened + 1
     /\ Goto(f, "scan")
     /\ met' = [g \in Files |-> IF g = f THEN others # {} ELSE met[g] \/ g \in others]
     /\ UNCHANGED <<module, assigned, handle, dma_map, nic, memory, scan, session, step,
                    mapped, raced>>

\* One turn of the loop that looks for an unassigned session; open fails at
\* the last one, and may be called again.
OpenScan(f) ==
  /\ pc[f] = "scan"
  /\ IF ~assigned[scan[f]]
     THEN /\ session' = [session EXCEPT ![f] = scan[f]]
          /\ raced' = (raced \/ \E g \in Files : pc[g] = "assign" /\ session[g] = scan[f])
          /\ scan' = [scan EXCEPT ![f] = 0]
          /\ Goto(f, "assign")
          /\ UNCHANGED met
     ELSE IF scan[f] = MAX_PORTS - 1
     THEN /\ scan' = [scan EXCEPT ![f] = 0]
          /\ met' = [met EXCEPT ![f] = FALSE]
          /\ Goto(f, "closed")
          /\ UNCHANGED <<session, raced>>
     ELSE /\ scan' = [scan EXCEPT ![f] = @ + 1]
          /\ UNCHANGED <<session, pc, met, raced>>
  /\ UNCHANGED <<opened, module, assigned, handle, dma_map, nic, memory, step, mapped>>

\* Mutant: the session is not marked.
OpenAssignUnmarked(f) ==
  /\ pc[f] = "assign"
  /\ step' = [step EXCEPT ![f] = 1]
  /\ Goto(f, "alloc")
  /\ UNCHANGED <<opened, races, module, assigned, handle, dma_map, nic, memory, scan, session, mapped>>

\* "Ensure that this session is not allocated to anyone else"
OpenAssign(f) ==
  /\ pc[f] = "assign"
  /\ assigned' = [assigned EXCEPT ![session[f]] = TRUE]
  /\ step' = [step EXCEPT ![f] = 1]
  /\ Goto(f, "alloc")
  /\ UNCHANGED <<opened, races, module, handle, dma_map, nic, memory, scan, session, mapped>>

\* dma_alloc_coherent, whose result is not looked at.
OpenAlloc(f) ==
  /\ pc[f] = "alloc"
  /\ \/ \E b \in Bufs \ allocated :
          /\ allocated' = allocated \cup {b}
          /\ handle' = [handle EXCEPT ![session[f]][Current(f)] = b]
     \/ UNCHANGED <<allocated, handle>>
  /\ Goto(f, "addr")
  /\ UNCHANGED <<opened, races, module, assigned, dma_map, nic, uncached, scan, session, step, mapped>>

OpenSetAddr(f) ==
  /\ pc[f] = "addr"
  /\ dma_map' = [dma_map EXCEPT !.phys_addr = handle[session[f]][Current(f)]]
  /\ Goto(f, "port")
  /\ UNCHANGED <<opened, races, module, assigned, handle, nic, memory, scan, session, step, mapped>>

\* The port is the constant 1, not session->port.
OpenSetPort(f) ==
  /\ pc[f] = "port"
  /\ dma_map' = [dma_map EXCEPT !.port = 1]
  /\ Goto(f, "type")
  /\ UNCHANGED <<opened, races, module, assigned, handle, nic, memory, scan, session, step, mapped>>

\* Mutant: the type of another buffer.
OpenSetTypeStale(f) ==
  /\ pc[f] = "type"
  /\ dma_map' = [dma_map EXCEPT !.type = MapOrder[1]]
  /\ Goto(f, "store")
  /\ UNCHANGED <<opened, races, module, assigned, handle, nic, memory, scan, session, step, mapped>>

OpenSetType(f) ==
  /\ pc[f] = "type"
  /\ dma_map' = [dma_map EXCEPT !.type = Current(f)]
  /\ Goto(f, "store")
  /\ UNCHANGED <<opened, races, module, assigned, handle, nic, memory, scan, session, step, mapped>>

\* Mutant: the last buffer is not stored to the NIC.
OpenStoreTwo(f) ==
  /\ pc[f] = "store" /\ module = "loaded"
  /\ IF step[f] < Len(MapOrder)
     THEN /\ nicMap' = [nicMap EXCEPT ![dma_map.port][dma_map.type] = dma_map.phys_addr]
          /\ step' = [step EXCEPT ![f] = @ + 1] /\ Goto(f, "alloc") /\ UNCHANGED <<onboarded, alone, met>>
     ELSE UNCHANGED nicMap /\ step' = [step EXCEPT ![f] = 1] /\ Goto(f, "open") /\ onboarded' = handle[session[f]]
          /\ alone' = ~met[f] /\ met' = [met EXCEPT ![f] = FALSE]
  /\ UNCHANGED <<opened, raced, module, assigned, handle, dma_map, memory, scan, session, mapped>>

\* iomov64B: the NIC takes the translation; then the next buffer or the return.
OpenStore(f) ==
  /\ pc[f] = "store" /\ module = "loaded"
  /\ nicMap' = [nicMap EXCEPT ![dma_map.port][dma_map.type] = dma_map.phys_addr]
  /\ IF step[f] < Len(MapOrder)
     THEN step' = [step EXCEPT ![f] = @ + 1] /\ Goto(f, "alloc") /\ UNCHANGED <<onboarded, alone, met>>
     ELSE step' = [step EXCEPT ![f] = 1] /\ Goto(f, "open") /\ onboarded' = handle[session[f]]
          /\ alone' = ~met[f] /\ met' = [met EXCEPT ![f] = FALSE]
  /\ UNCHANGED <<opened, raced, module, assigned, handle, dma_map, memory, scan, session, mapped>>

\* iomov64B to io_regs before homanic_init has mapped them: the caller dies in
\* the kernel, with its session, its buffer and the reference to the module.
OpenOops(f) ==
  /\ pc[f] = "store" /\ module = "visible"
  /\ Goto(f, "oops")
  /\ met' = [met EXCEPT ![f] = FALSE]
  /\ UNCHANGED <<opened, raced, module, assigned, handle, dma_map, nic, memory, scan, session, step, mapped>>

-----------------------------------------------------------------------------
\* homanic_mmap of one of the session's buffers, or of what failed to become
\* one.  (Offset 1 maps the MMIO page at BAR_0 + 4096, whatever the session,
\* and changes nothing the driver keeps.)
Mmap(f, t) ==
  LET b == handle[session[f]][t]
  IN /\ pc[f] = "open"
     /\ mapped' = [mapped EXCEPT ![f] = @ \cup ({b} \ {None})]
     /\ uncached' = IF b = None THEN uncached ELSE [uncached EXCEPT ![b] = t]
     /\ UNCHANGED <<opened, races, module, assigned, handle, dma_map, nic, allocated, pc, scan,
                    session, step>>

\* The last reference to the file goes, its mappings with it: homanic_close.
CloseEnter(f) ==
  /\ pc[f] = "open"
  /\ mapped' = [mapped EXCEPT ![f] = {}]
  /\ step' = [step EXCEPT ![f] = 1]
  /\ Goto(f, "free")
  /\ UNCHANGED <<opened, races, module, assigned, handle, dma_map, nic, memory, scan, session>>

\* Mutant: every call frees the metadata buffer.
CloseFreeFirst(f) ==
  LET b == handle[session[f]][MapOrder[1]]
  IN /\ pc[f] = "free"
     /\ allocated' = allocated \ {b}
     /\ uncached' = IF b = None THEN uncached ELSE [uncached EXCEPT ![b] = None]
     /\ IF step[f] < Len(MapOrder)
        THEN step' = [step EXCEPT ![f] = @ + 1] /\ UNCHANGED <<pc, session>>
        ELSE /\ step' = [step EXCEPT ![f] = 1]
             /\ session' = [session EXCEPT ![f] = None]
             /\ Goto(f, "closed")
     /\ UNCHANGED <<opened, races, module, assigned, handle, dma_map, nic, scan, mapped>>

\* set_memory_wb and dma_free_coherent of one buffer, of the metadata buffer
\* without the former; neither the session nor the NIC's map is cleared.
CloseFree(f) ==
  LET b == handle[session[f]][Current(f)]
  IN /\ pc[f] = "free"
     /\ allocated' = allocated \ {b}
     /\ uncached' = IF b = None \/ Current(f) = C2H_METADATA_MAP THEN uncached
                    ELSE [uncached EXCEPT ![b] = None]
     /\ IF step[f] < Len(MapOrder)
        THEN step' = [step EXCEPT ![f] = @ + 1] /\ UNCHANGED <<pc, session>>
        ELSE /\ step' = [step EXCEPT ![f] = 1]
             /\ session' = [session EXCEPT ![f] = None]
             /\ Goto(f, "closed")
     /\ UNCHANGED <<opened, races, module, assigned, handle, dma_map, nic, scan, mapped>>

-----------------------------------------------------------------------------
\* homanic_init: the sessions and the PCI device, ...
InitSessions ==
  /\ module = "unloaded"
  /\ module' = "starting"
  /\ assigned' = [s \in Sessions |-> FALSE]
  /\ handle' = [s \in Sessions |-> [t \in MapTypes |-> None]]
  /\ dma_map' = [phys_addr |-> None, port |-> 0, type |-> 0]
  /\ UNCHANGED <<opened, races, nic, memory, pc, scan, session, step, mapped>>

\* ... alloc_chrdev_region, without which the error is returned, ...
InitFails ==
  /\ module = "starting"
  /\ module' = "unloaded"
  /\ UNCHANGED <<opened, races, assigned, handle, dma_map, nic, memory, pc, scan, session, step, mapped>>

\* ... and with which device_create and cdev_add let the device be opened, ...
InitDevice ==
  /\ module = "starting"
  /\ module' = "visible"
  /\ UNCHANGED <<opened, races, assigned, handle, dma_map, nic, memory, pc, scan, session, step, mapped>>

\* ... and only then ioremap_wc and the configuration of the NIC.
InitRegisters ==
  /\ module = "visible"
  /\ module' = "loaded"
  /\ UNCHANGED <<opened, races, assigned, handle, dma_map, nic, memory, pc, scan, session, step, mapped>>

\* homanic_exit, which the kernel calls once no file refers to the module.
Exit ==
  /\ module = "loaded" /\ \A f \in Files : pc[f] = "closed"
  /\ module' = "unloaded"
  /\ UNCHANGED <<opened, races, assigned, handle, dma_map, nic, memory, pc, scan, session, step, mapped>>

Init ==
  /\ opened = 0 /\ module = "unloaded"
  /\ assigned = [s \in Sessions |-> FALSE]
  /\ handle = [s \in Sessions |-> [t \in MapTypes |-> None]]
  /\ dma_map = [phys_addr |-> None, port |-> 0, type |-> 0]
  /\ nicMap = [p \in Ports |-> [t \in MapTypes |-> None]]
  /\ onboarded = [t \in MapTypes |-> None] /\ alone = TRUE
  /\ allocated = {}
  /\ uncached = [b \in Bufs |-> None]
  /\ pc = [f \in Files |-> "closed"]
  /\ scan = [f \in Files |-> 0]
  /\ session = [f \in Files |-> None]
  /\ step = [f \in Files |-> 1]
  /\ mapped = [f \in Files |-> {}]
  /\ met = [f \in Files |-> FALSE] /\ raced = FALSE

Open(f) == \/ OpenEnter(f) \/ OpenScan(f) \/ OpenAssign(f) \/ OpenAlloc(f)
           \/ OpenSetAddr(f) \/ OpenSetPort(f) \/ OpenSetType(f) \/ OpenStore(f)
           \/ OpenOops(f)

Close(f) == CloseEnter(f) \/ CloseFree(f)

Load == InitSessions \/ InitFails \/ InitDevice \/ InitRegisters \/ Exit

Next == Load \/ \E f \in Files : Open(f) \/ Close(f) \/ \E t \in MapTypes : Mmap(f, t)

Spec == Init /\ [][Next]_vars

-----------------------------------------------------------------------------
\* Every variable holds a value of its type.
TypeOK ==
  /\ opened \in Nat
  /\ module \in {"unloaded", "starting", "visible", "loaded"}
  /\ onboarded \in [MapTypes -> Bufs \cup {None}]
  /\ uncached \in [Bufs -> MapTypes \cup {None}]
  /\ assigned \in [Sessions -> BOOLEAN]
  /\ handle \in [Sessions -> [MapTypes -> Bufs \cup {None}]]
  /\ dma_map \in [phys_addr : Bufs \cup {None}, port : {0, 1}, type : MapTypes]
  /\ nicMap \in [Ports -> [MapTypes -> Bufs \cup {None}]]
  /\ allocated \subseteq Bufs
  /\ pc \in [Files -> PCs]
  /\ scan \in [Files -> Sessions]
  /\ session \in [Files -> Sessions \cup {None}]
  /\ step \in [Files -> 1..3]
  /\ mapped \in [Files -> SUBSET Bufs]
  /\ met \in [Files -> BOOLEAN] /\ raced \in BOOLEAN /\ alone \in BOOLEAN

\* Files between the choice of a session and the end of their close.
Holders == {f \in Files : pc[f] \notin {"closed", "scan"}}

\* "Ensure that this session is not allocated to anyone else": no two files
\* ever hold the same session.  Two opens that look before either marks break
\* it.
SessionExclusive ==
  \A f, g \in Holders : session[f] = session[g] => f = g

\* Nothing else does: opens that overlap anywhere else, closes, opens that died
\* in the kernel and new loads of the module leave every session to one file.
SessionsApart == raced \/ SessionExclusive

\* Buffers of an open or opening file: those already allocated by it.
Owned(f) ==
  CASE pc[f] = "open"  -> MapTypes
    [] pc[f] = "alloc" -> {MapOrder[i] : i \in 1..(step[f] - 1)}
    [] pc[f] = "free"  -> {MapOrder[i] : i \in step[f]..3}
    [] pc[f] \in {"addr", "port", "type", "store", "oops"} ->
         {MapOrder[i] : i \in 1..step[f]}
    [] OTHER           -> {}

OwnedBufs(f) == {handle[session[f]][t] : t \in Owned(f)} \ {None}

\* What a file uses, or is about to free, is allocated, and no other file uses
\* it, however opens and closes overlap, unless two opens took one session: no
\* buffer is freed twice or under the process that has it mapped.
BuffersPrivate ==
  raced \/ \A f \in Files :
    /\ OwnedBufs(f) \subseteq allocated
    /\ mapped[f] \subseteq OwnedBufs(f)
    /\ \A g \in Files \ {f} : OwnedBufs(f) \cap OwnedBufs(g) = {}

\* "Reset memory in page attribute table to write back, free the DMA buffer":
\* every buffer is some file's, also after an allocation that failed, and what
\* went back to the kernel is write back, but for metadata ("TODO no write
\* back?").  Two opens that take one session lose the buffers of one.
CleanedUp ==
  \/ raced
  \/ /\ allocated \subseteq UNION {OwnedBufs(f) : f \in Files}
     /\ \A b \in Bufs \ allocated : uncached[b] \in {None, C2H_METADATA_MAP}

\* "Create an on-chip mapping to this buffer": an open that meets no other
\* writes its buffer under the type of that buffer, and nothing else, although
\* dma_map is shared and keeps what an earlier open, or one that died between
\* two of its assignments, left in it.
MapsMatchTypes ==
  [][\A f \in Files :
       pc[f] = "store" /\ pc'[f] \in {"alloc", "open"} /\ ~met[f] =>
         nicMap' = [nicMap EXCEPT ![1][Current(f)] = handle[session[f]][Current(f)]]]_vars

\* When no open is under way and the latest one met no other, the NIC's map is
\* whole, that of this open: closes, opens that fail or die, new loads of the
\* module and reuse of addresses never leave metadata of one session and
\* messages of another in it.
LatestOpenMapped ==
  alone /\ (\A f \in Files : pc[f] \notin Opening) => nicMap[1] = onboarded
=============================================================================
