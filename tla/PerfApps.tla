------------------------------- MODULE PerfApps -------------------------------
(***************************************************************************)
(* The measuring programs of app/src: each opens the device, maps its      *)
(* buffers, stores a 64 byte request into the NIC's page and polls a byte  *)
(* of its card-to-host buffer for the answer.  A program is a sequence of  *)
(* instructions; programs and NIC interleave between them.  Of the NIC the *)
(* module holds what programs and buffers meet of MgmtCore's wiring: what  *)
(* a request makes it read and write.  What happens inside is the subject  *)
(* of the modules of its parts; that they may skip or misplace frames is a *)
(* choice here.  Loops are unrolled; the time trace is module TimeTrace.   *)
(***************************************************************************)
EXTENDS Naturals, FiniteSets, SequencesExt

CONSTANTS
  Iterations,  \* turns of the measuring loops (1000, and 16 in perf_write)
  Sizes,       \* sizes perf_write goes through (200)
  Chunks       \* chunks of 64 bytes of the largest message (256 in bitrate)

ASSUME AppsAssumption ==
  Iterations \in Nat \ {0} /\ Sizes \in 1..Chunks /\ Chunks \in Nat \ {0, 1}

VARIABLES
  setup,    \* the programs that run
  nodes,    \* the device nodes that exist
  at,       \* program -> index of its next instruction, 0 after a crash
  map,      \* program -> "none", "failed" (MAP_FAILED), "mapped" or "closed"
  c2h,      \* program -> chunk -> number of the message in it, 0 if cleared
  sent,     \* program -> requests stored
  seen,     \* program -> number of the message its last poll saw
  metadata, \* NIC: program -> writes of metadata requested and not yet made
  fetches,  \* NIC: program -> requests whose chunks it still fetches
  wire,     \* NIC: chunks on their way
  lost,     \* ghost: messages wiped or dropped unseen, by whom and where
  damaged   \* ghost: whether a chunk was skipped, misplaced or garbled

nic == <<metadata, fetches, wire, damaged>>
vars == <<setup, nodes, at, map, c2h, sent, seen, lost, nic>>

Programs == {"perf_read", "perf_msg", "perf_write", "perf_latency_server",
             "perf_latency_client", "perf_bitrate_server", "perf_bitrate_client"}
Setups == {{"perf_read"}, {"perf_msg"}, {"perf_write"},
           {"perf_latency_server", "perf_latency_client"},
           {"perf_bitrate_server", "perf_bitrate_client"}}

\* The other program of a pair.  Alone, a program is answered by its own NIC,
\* whose egress is wired to its ingress; between the two of a pair there must
\* be a network, which that wiring leaves out.
Peer(p) == IF setup = {p} THEN p ELSE CHOOSE q \in setup : q # p

-----------------------------------------------------------------------------
Instr(op, arg) == [op |-> op, arg |-> arg]
Repeat(n, body(_)) == FlattenSeq([i \in 1..n |-> body(i)])
prologue == <<Instr("open", 0), Instr("zero", 0), Instr("clear", 0)>>
epilogue == <<Instr("print", 0), Instr("close", 0)>>

perf_read ==
  LET turn(i) == <<Instr("read", 0)>>
  IN <<Instr("open", 0)>> \o Repeat(Iterations, turn) \o epilogue

\* Mutant: the program goes on without an answer.
perf_msg_unanswered ==
  LET turn(i) == <<Instr("send", 1), Instr("clear", 0)>>
  IN prologue \o Repeat(Iterations, turn) \o epilogue

perf_msg ==
  LET turn(i) == <<Instr("send", 1), Instr("wait", 0), Instr("clear", 0)>>
  IN prologue \o Repeat(Iterations, turn) \o epilogue

\* Mutant: the byte to poll is not cleared before the request.
perf_write_stale ==
  LET turn(size) == <<Instr("send", size), Instr("wait", size - 1)>>
      measure(size) == Repeat(Iterations, LAMBDA j : turn(size)) \o <<Instr("print", 0)>>
  IN <<Instr("open", 0), Instr("fill", 0)>> \o Repeat(Sizes, measure) \o <<Instr("close", 0)>>

\* Each size 16 times, and a trace for each size.
perf_write ==
  LET turn(size) == <<Instr("clear", size - 1), Instr("send", size), Instr("wait", size - 1)>>
      measure(size) == Repeat(Iterations, LAMBDA j : turn(size)) \o <<Instr("print", 0)>>
  IN <<Instr("open", 0), Instr("fill", 0)>> \o Repeat(Sizes, measure) \o <<Instr("close", 0)>>

\* Mutant: the answer is cleared after the next request.
perf_latency_client_late ==
  LET turn(i) == <<Instr("wait", 0), Instr("send", 1), Instr("clear", 0)>>
  IN prologue \o <<Instr("send", 1)>> \o Repeat(Iterations, turn) \o epilogue

perf_latency_client ==
  LET turn(i) == <<Instr("send", 1), Instr("wait", 0), Instr("clear", 0)>>
  IN prologue \o Repeat(Iterations, turn) \o epilogue

\* Answers for ever; the byte is cleared after the answer is sent.
perf_latency_server ==
  prologue \o <<Instr("wait", 0), Instr("send", 1), Instr("clear", 0),
                Instr("again", 4)>>

\* One message, and no wait for anything.
perf_bitrate_client ==
  <<Instr("open", 0), Instr("fill", 0), Instr("send", Chunks), Instr("close", 0)>>

\* Mutant: the poll for the end is at the last chunk.
perf_bitrate_server_last ==
  prologue \o <<Instr("clear", Chunks - 1), Instr("wait", 0),
                Instr("wait", Chunks - 1)>> \o epilogue

\* The first chunk, and the last but one: 16384 - 128.
perf_bitrate_server ==
  prologue \o <<Instr("clear", Chunks - 2), Instr("wait", 0),
                Instr("wait", Chunks - 2)>> \o epilogue

Program(p) ==
  CASE p = "perf_read"           -> perf_read
    [] p = "perf_msg"            -> perf_msg
    [] p = "perf_write"          -> perf_write
    [] p = "perf_latency_client" -> perf_latency_client
    [] p = "perf_latency_server" -> perf_latency_server
    [] p = "perf_bitrate_client" -> perf_bitrate_client
    [] p = "perf_bitrate_server" -> perf_bitrate_server

\* perf_write opens the node the driver creates, the others the four nodes of
\* an earlier driver that the README describes.
Needs(p) == IF p = "perf_write" THEN "homanic" ELSE "homa_nic_*"

\* A chunk of the bitrate message holds the low byte of its number: 0 in the
\* last one.  Every other message is of bytes that are not 0.
Nonzero(p, chunk) ==
  /\ c2h[p][chunk] # 0
  /\ Peer(p) = "perf_bitrate_client" => (chunk + 1) % Chunks # 0

-----------------------------------------------------------------------------
Running(p) == at[p] \in DOMAIN Program(p)
Op(p) == Program(p)[at[p]].op
Arg(p) == Program(p)[at[p]].arg
Advance(p) == at' = [at EXCEPT ![p] = @ + 1]
Wiped(p, chunks) ==
  IF \E c \in chunks : c2h[p][c] > seen[p] THEN {<<p, at[p]>>} ELSE {}

\* open and mmap.  A node that is missing makes mmap return MAP_FAILED; the
\* program tests for NULL, and goes on in any case.
Open(p) ==
  /\ Running(p) /\ Op(p) = "open"
  /\ map' = [map EXCEPT ![p] = IF Needs(p) = nodes THEN "mapped" ELSE "failed"]
  /\ Advance(p)
  /\ UNCHANGED <<setup, nodes, c2h, sent, seen, lost, nic>>

\* The first access to a mapping that failed.
Crash(p) ==
  /\ Running(p) /\ map[p] = "failed"
  /\ Op(p) \in {"fill", "zero", "clear", "read"}
  /\ at' = [at EXCEPT ![p] = 0]
  /\ UNCHANGED <<setup, nodes, map, c2h, sent, seen, lost, nic>>

\* The payload, which the model does not hold.
Fill(p) ==
  /\ Running(p) /\ Op(p) = "fill" /\ map[p] = "mapped"
  /\ Advance(p)
  /\ UNCHANGED <<setup, nodes, map, c2h, sent, seen, lost, nic>>

\* Payload, and memset of the card-to-host buffer.
Zero(p) ==
  /\ Running(p) /\ Op(p) = "zero" /\ map[p] = "mapped"
  /\ c2h' = [c2h EXCEPT ![p] = [c \in DOMAIN @ |-> 0]]
  /\ lost' = lost \cup Wiped(p, DOMAIN c2h[p])
  /\ Advance(p)
  /\ UNCHANGED <<setup, nodes, map, sent, seen, nic>>

\* *poll = 0
Clear(p) ==
  /\ Running(p) /\ Op(p) = "clear" /\ map[p] = "mapped"
  /\ c2h' = [c2h EXCEPT ![p][Arg(p)] = 0]
  /\ lost' = lost \cup Wiped(p, {Arg(p)})
  /\ Advance(p)
  /\ UNCHANGED <<setup, nodes, map, sent, seen, nic>>

\* The 64 byte store of the request: the Delegate onboards it with a fetch of
\* the message and a write of its metadata.
Send(p) ==
  /\ Running(p) /\ Op(p) = "send"
  /\ sent' = [sent EXCEPT ![p] = @ + 1]
  /\ fetches' = [fetches EXCEPT ![p] =
                   Append(@, [number |-> sent[p] + 1, size |-> Arg(p), chunk |-> 0])]
  /\ metadata' = [metadata EXCEPT ![p] = @ + 1]
  /\ Advance(p)
  /\ UNCHANGED <<setup, nodes, map, c2h, seen, wire, lost, damaged>>

\* while (*poll == 0);
Wait(p) ==
  /\ Running(p) /\ Op(p) = "wait" /\ Nonzero(p, Arg(p))
  /\ seen' = [seen EXCEPT ![p] = c2h[p][Arg(p)]]
  /\ Advance(p)
  /\ UNCHANGED <<setup, nodes, map, c2h, sent, lost, nic>>

\* A 64 byte load from the NIC, or a trace printed to a file.
Private(p) ==
  /\ Running(p)
  /\ Op(p) = "print" \/ (Op(p) = "read" /\ map[p] = "mapped")
  /\ Advance(p)
  /\ UNCHANGED <<setup, nodes, map, c2h, sent, seen, lost, nic>>

\* while (1)
Again(p) ==
  /\ Running(p) /\ Op(p) = "again"
  /\ at' = [at EXCEPT ![p] = Arg(p)]
  /\ UNCHANGED <<setup, nodes, map, c2h, sent, seen, lost, nic>>

\* munmap and close: the driver frees the buffers.
Close(p) ==
  /\ Running(p) /\ Op(p) = "close"
  /\ map' = [map EXCEPT ![p] = "closed"]
  /\ Advance(p)
  /\ UNCHANGED <<setup, nodes, c2h, sent, seen, lost, nic>>

-----------------------------------------------------------------------------
\* The metadata of a message goes to the buffer of that name, which the
\* programs map and never read.
WriteMetadata(p) ==
  /\ metadata[p] > 0
  /\ metadata' = [metadata EXCEPT ![p] = @ - 1]
  /\ UNCHANGED <<setup, nodes, at, map, c2h, sent, seen, fetches, wire, lost, damaged>>

\* The NIC reads the next chunk of a request and sends it.
Fetch(p) ==
  LET m == Head(fetches[p])
  IN /\ fetches[p] # <<>>
     /\ wire' = Append(wire, [to |-> Peer(p), number |-> m.number, chunk |-> m.chunk])
     /\ fetches' = [fetches EXCEPT ![p] =
          IF m.chunk + 1 < m.size THEN <<[m EXCEPT !.chunk = @ + 1]>> \o Tail(@) ELSE Tail(@)]
     /\ UNCHANGED <<setup, nodes, at, map, c2h, sent, seen, metadata, lost, damaged>>

\* The NIC writes a chunk to the receiver's buffer, if there is one: to its
\* place, or, after a skipped frame, to another one or to none, as ingress
\* counts frames and takes the header from the first two.
Deliver ==
  LET m == Head(wire)
      there == map[m.to] = "mapped"
  IN /\ wire # <<>>
     /\ wire' = Tail(wire)
     /\ \E place \in {{c} : c \in 0..(Chunks - 1)} \cup {{}} :
          /\ damaged' = (damaged \/ place # {m.chunk})
          /\ c2h' = IF there
                     THEN [c2h EXCEPT ![m.to] =
                             [c \in DOMAIN @ |-> IF c \in place THEN m.number ELSE @[c]]]
                     ELSE c2h
     /\ lost' = IF there \/ map[m.to] = "closed" THEN lost
                ELSE lost \cup {<<m.to, at[m.to]>>}
     /\ UNCHANGED <<setup, nodes, at, map, sent, seen, metadata, fetches>>

Init ==
  /\ setup \in Setups /\ nodes \in {"homanic", "homa_nic_*"}
  /\ at = [p \in setup |-> 1]
  /\ map = [p \in setup |-> "none"]
  /\ c2h = [p \in setup |-> [c \in 0..(Chunks - 1) |-> 0]]
  /\ sent = [p \in setup |-> 0] /\ seen = sent
  /\ metadata = sent /\ fetches = [p \in setup |-> <<>>] /\ wire = <<>>
  /\ lost = {} /\ damaged = FALSE

Run(p) == \/ Open(p) \/ Crash(p) \/ Fill(p) \/ Zero(p) \/ Clear(p) \/ Send(p)
          \/ Wait(p) \/ Private(p) \/ Again(p) \/ Close(p)

Next == Deliver \/ \E p \in setup : Run(p) \/ Fetch(p) \/ WriteMetadata(p)

\* Programs are scheduled, and the NIC goes on with what it is given: the
\* Delegate takes every write that is not behind a receive request, and no
\* program makes one, and egress transmits every packet.  What it transmits
\* may be damaged, and no property needs the metadata to be written.
Fairness ==
  /\ WF_vars(Deliver)
  /\ \A p \in Programs : /\ WF_vars(p \in setup /\ Run(p))
                         /\ WF_vars(p \in setup /\ Fetch(p))

Spec == Init /\ [][Next]_vars /\ Fairness

-----------------------------------------------------------------------------
\* The programs trust the NIC with every frame: a chunk that egress skips, or
\* ingress writes elsewhere, is noticed by none of them, so what follows holds
\* until the NIC first damages one.

\* "write response", "pong" and "last" mean what the trace is read for: when a
\* poll succeeds, the message is the answer to the latest request, not one
\* left over, and all its chunks up to the polled one have been written.
AnswerWhole ==
  \A p \in setup :
    ~damaged /\ Running(p) /\ Op(p) = "wait" /\ Nonzero(p, Arg(p)) =>
      /\ \A c \in 0..Arg(p) : c2h[p][c] = c2h[p][Arg(p)]
      /\ sent[p] > 0 /\ p # "perf_latency_server" => c2h[p][Arg(p)] = sent[p]

FirstWait(p) == CHOOSE i \in DOMAIN Program(p) :
                  /\ Program(p)[i].op = "wait"
                  /\ \A j \in 1..(i - 1) : Program(p)[j].op # "wait"

\* No undamaged message is wiped before it is seen, but for the two windows of
\* the servers: a request that comes while a server still sets up, and a ping
\* that comes between the store of the pong and *poll = 0.
LostInWindows ==
  \A l \in lost :
    \/ l[1] \in {"perf_latency_server", "perf_bitrate_server"} /\ l[2] < FirstWait(l[1])
    \/ l[1] = "perf_latency_server" /\ Program(l[1])[l[2]].op = "clear"
    \/ damaged

\* Chunks the NIC still reads from the message buffer of p, and those it has
\* yet to write to p's.
Unread(p) == {m.chunk : m \in Range(fetches[p])}
Due(p) == Unread(Peer(p)) \cup {m.chunk : m \in {n \in Range(wire) : n.to = p}}

\* The driver frees the buffers at close: by then the NIC has read and written
\* all it will of the two message buffers, but for the bitrate programs, of
\* which the client closes right after its store and the server one chunk
\* early.  Of the metadata buffer this is not true: nobody waits for a write
\* of metadata, and it may come when the buffer has been freed.
ClosedWhenIdle ==
  \A p \in setup :
    map[p] = "closed" /\ p # "perf_bitrate_client" /\ ~damaged =>
      /\ Unread(p) = {}
      /\ Due(p) \subseteq (IF p = "perf_bitrate_server" THEN {Chunks - 1} ELSE {})

\* Every program but the latency server comes to its end, unless a message was
\* lost in such a window or damaged: then the byte polled may never come.
Finishes ==
  \A p \in Programs \ {"perf_latency_server"} :
    <>(p \in setup => ~Running(p) \/ lost # {} \/ damaged)
=============================================================================
