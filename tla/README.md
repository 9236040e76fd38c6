# A TLA+ model of the Homa NIC

This directory holds TLA+ modules for the control logic of the Homa NIC, of its
kernel module, its measuring programs and its queue simulator, the TLC configurations that check them, and proofs for TLAPS. Paths below are
relative to the repository; `S` is `hw/src/main/scala`, `V` is
`hw/src/main/resources/verilog_src`.

## 1. Inventory of the system

The NIC implements the Homa transport. An application maps a page of the PCIe
BAR and writes 64 byte requests into it; the card fetches message data by DMA,
cuts it into packets, sends them, and writes what it receives, and the answers
to requests, into host memory. A kernel module hands out the pages and buffers.

```
 application --64B MMIO--> axi2axis -> Delegate --+--> AddressMap <-- driver: translations
                                                  +--> dynamic configuration
                                                  +--> newSendmsgQueue   -> Scheduler --+
                                                  +--> newFetchableQueue -> Prefetcher  |  sendPacket
                                                  +--> control block RAM                v
                                                  +--> metadata RAM + DMA    PPegressStages
 host memory <-- PCIe core <-- AddressMap <-- PPingressStages <---- loopback -----------+
```

| component | state | operations | what is hard | what makes it correct |
|---|---|---|---|---|
| Priority queue (`S/PriorityQueue.scala`, entries in `S/Interfaces.scala`) | `size` registers, an output register | enqueue (always ready), pop | parallel comparison needs a sorted prefix; overflow; merge with the output register's back pressure | serves the pending entry of highest priority, each `cycles + 1` times; loses nothing below capacity |
| SRPT queue (`V/srpt_queue.v`) | `MAX_RPCS` slots, output register | insert of a message or an update, dequeue | updates and bubbles live in slots and move only with inserts; output handshake | every message kept, every packet once, only eligible packets, cache lines not overfilled |
| Delegate (`S/Delegate.scala`), queues of `S/MgmtCore.scala` | `function_queue`, configuration, ids | translation, configuration, sendmsg, recvmsg | five outputs at once; head-of-line blocking | a message is onboarded as one operation, in order; a write is served unless a receive request is before it |
| Address map (`S/AddressMap.scala`) | synchronous memory, three registers per channel | map, translate | memory latency against back pressure; shared index | requests in order, each with the current translation of its port |
| Kernel module (`driver/homanic.c`) | `sessions[]`, `dma_map`, `io_regs`, per file `private_data` | load, unload, open, mmap, release | concurrent callers, shared structure, failed allocations, opens before the registers are mapped | a session and its buffers should belong to one file (two opens at once can break it); everything goes back at close; the NIC's map is that of the latest open |
| Scheduler, Prefetcher (`S/Scheduler.scala`, `S/Prefetcher.scala`) | message state RAM, `excluded`, `blocked` | new, cached, blocked message | lock set, dropped entries | unfinished: the first does not elaborate, the body of the second is a comment |
| Grant queue (`V/srpt_queue_grant.v`) | active set, queue of inactive entries | header, grant, swap | one active message per peer, overcommitment | grants go to the messages with least to be granted |
| Egress pipeline (`S/PacketPipeline.scala`) | queues between Lookup, Ctor, Dupe, Payload, Xmit | one frame of 64 bytes per cycle | frame offset against stalls, RAM latency | frames of a packet in order, each once, with its payload |
| Ingress pipeline (same file) | queues between Dtor, Map, Lookup, Payload | frames, id allocation, DMA partition | as above | payload lands at its message offset |
| RAM clients (`S/RamClient.scala`) | latches, pending queue | read, write | split over two segments, byte enables | a flat memory |
| CAM (`S/CAM.scala`) | four tables, queues | insert, search | eviction chains, searches in between | a map |
| Queue simulator (`model/queues.hh`, `model/qsim.cc`) | sorted queue, backing vector with flags, one insertion in progress, all pending entries | arrival, departure, one step of the sorter per cycle | indices into a vector that moves under them; interrupted insertions; unsigned comparison | no entry lost or doubled; flags right; the link never idle; the simulation ends |
| Workload distributions (`model/dist.cc`) | five tables, `dist_points`, `dist_mean` | constructor, sample, mean | merging and truncation | every draw has a sample, close to the table's; the mean is that of the samples |
| Time trace (`app/lib/time_trace.cc`) | a ring per thread, the list of rings, `frozen` | record, print, thread buffers, cleanup | recording without locks; wrapped rings; buffers that outlive threads | an undisturbed print is complete and in order; no thread's buffer is deleted; a print returns |
| Measuring programs (`app/src`) | mappings, a polled byte in the card-to-host buffer | request, poll, clear, close | polls race the NIC's writes; two programs answer each other | a poll sees the whole answer to the latest request; the NIC is done with a buffer at close |
| Firmware, wrappers, vendored Verilog | | | | no logic of this system, or none that is compiled |

Interactions are ready/valid handshakes in one clock domain, shared memories
(control block RAM, address map), and on the host side the `dma_map` structure,
the mapped pages, and buffers that programs poll while the card writes them.
The programs use the time trace; `qsim.cc` draws its messages from
`dist.cc`. There are no crashes or lost messages inside the card:
the hazards are order within a cycle, back pressure, capacity and stale state;
on the host, concurrency, allocations that fail, and callers that die.
`PROJECT.json` lists them one by one with the
properties that cover them.

## 2. What is modelled

| module | models | step |
|---|---|---|
| `PriorityQueue` | `S/PriorityQueue.scala` with `pop()` and `<` of `PrefetcherEntry` | one clock cycle: `EnqueueCycle`, `PopCycle`, `IdleCycle` |
| `PriorityService` | abstract: a bag served by priority | |
| `MCPriorityQueue` | instance for TLC and the refinement mapping | |
| `PriorityQueueProofs` | theorems about `PriorityQueue` and its refinement of `PriorityService` | |
| `SrptQueue` | the common core of `V/srpt_queue.v`, both `TYPE`s | one clock edge: `InsertCycle`, `DequeueCycle`, `IdleCycle`, `StalledCycle` |
| `SrptSendQueue` | `TYPE "sendmsg"` with its feeders | inserts are `Sendmsg`, `Grant`, `Notify` |
| `SrptFetchQueue` | `TYPE "fetch"` with its feeders | inserts are `Fetchable`, `Free`; `Request` is a dequeue, `Drain` the packets that do not notify |
| `SrptQueueProofs` | theorems about `SrptSendQueue` and `SrptFetchQueue` | |
| `Delegate` | `S/Delegate.scala` and the queues behind it | one clock cycle, an action per kind of write presented |
| `DelegateProofs` | theorems about `Delegate` | |
| `AddressMap` | `S/AddressMap.scala`, all channels | one clock cycle |
| `RequestChannel` | abstract: a bounded first-in first-out channel | |
| `MCAddressMap` | instance for TLC and the refinement mapping | |
| `AddressMapProofs` | theorems about `AddressMap` | |
| `PacketFrames` | the frame arithmetic of `PacketFrameFactory` (`S/Interfaces.scala`) | operators only |
| `EgressPipeline` | `PPegressDupe`, `PPegressPayload`, `PPegressXmit` of `S/PacketPipeline.scala` | one clock cycle |
| `EgressPipelineProofs` | theorems about `EgressPipeline` and `PacketFrames` | |
| `DriverSessions` | `driver/homanic.c`: init, exit, open, mmap, release | one access to shared memory |
| `MCDriverSessions` | instance for TLC, symmetry | |
| `DriverSessionsProofs` | theorems about `DriverSessions` | |
| `PerfApps` | the seven programs of `app/src`, and what their requests make the NIC read and write | one access to the device or to a buffer, one transfer of a chunk |
| `TimeTrace` | `app/lib/time_trace.cc` and `.h` | a store of `record()`, a loop of `print_internal()`, a body under the mutex |
| `TimeTraceProofs` | theorems about `TimeTrace` | |
| `SimQueue` | `model/queues.hh` (`Queue`, `Ideal`, `PIFO_Naive`) and the loops of `model/qsim.cc` | departure, pulse control, arrival, step of one cycle |
| `SimQueueProofs` | theorems about `SimQueue` | |
| `Workloads` | the tables `w1` to `w5` of `model/dist.cc`, every point | data |
| `DistPoints` | constructor and `operator()` of `dist_point_gen` | one iteration of a loop, one sample |
| `MCDistPoints` | arguments and draws for TLC | |

Abstractions that matter:

* **Priority queue.** `id` stands for `dbuffID`. The priority wraps at
  `MaxPriority + 1` as its 10 bits do. Entries are offered with
  `cycles <= priority`: a message's priority is the number of packets left and
  `cycles` how many of them may be sent now. Nothing in the queue checks this,
  and without it a decrement at 0 wraps and the queue is no longer sorted.
  `MaxLoad` bounds what clients keep in the queue.
* **SRPT queue.** Offsets count down from the length. A message, a grant or a
  notification carries any offset of `GrantOffsets` and `BufferOffsets`. An id
  is used again only when its last packet left the output, and none is 0, the
  ids of a slot after reset: an update for it would turn an empty slot into a
  message. `MaxLive` bounds the messages at once for TLC. An insert may come
  in any cycle, also in the one the receiver takes a packet in. `delivered`,
  `peak`, `crowded` and the history of `SrptSendQueue` are used by the
  properties only. The fetch queue is told of a free only for
  whole packets, and only while the message is not fully requested.
* **Delegate.** The 64 bytes of a write are one value. The RAMs take their
  writes at the edge ("Ram core will always be ready"). The three consumers are
  ready in any combination in any cycle.
* **Address map.** `Stride` is the 100 slots of a channel; `Busy` are the
  channels on which requests arrive. A read that is not enabled returns any
  value of the memory's range; a read of the slot that is being written the old
  or the new value. The fields `bases` and `stalled` of a request and the
  variable `current` are history, used by the properties only.
* **Egress.** A payload is the address it was read from, so that a property can
  say which bytes of the message a frame carries. The payload RAM answers in
  order after any delay and may refuse a read in any cycle. The packets offered
  are those of messages of `SIZE` bytes, in order; `MaxPackets` bounds those in
  the pipeline. `frame_off` saturates behind the longest packet, where nothing
  depends on it any more (in the code it wraps at 32 bits). `stalled`, `awaited`
  and `wire` are history.
* **Driver.** A caller is interleaved with others between any two accesses to
  `sessions`, `dma_map` or the card. `dma_alloc_coherent` returns any address
  not handed out, or fails, and then the handle of the session stays 0 and open
  goes on with it. An open between `cdev_add` and `ioremap_wc` dies in its
  store to the card (`OpenOops`); the kernel then keeps the module. Unloading
  needs all files closed (`.owner` is set). `uncached` is the page attribute
  that mmap sets and release resets. `opened`
  bounds the calls of open (`MaxOpens`); `onboarded`, `alone`, `met` and `raced`
  are history. Nothing serialises opens, in the driver or in the model. The MMIO
  page of mmap (offset 1) touches nothing the driver keeps.
* **Programs.** A program is its sequence of opens, clears, stores, polls and
  closes with loops unrolled (`again` for the server's endless one). A chunk
  of a buffer holds the number of the message last written to it. The NIC
  onboards a request as a fetch of the message and a write of its metadata
  (`S/Delegate.scala:120`), reads the chunks in order and writes them in order
  and nowhere when the receiver has no buffer; the metadata is written at any
  time later. A chunk may be damaged: after a skipped frame
  (`S/PacketPipeline.scala:162`) ingress, which counts frames as they arrive and
  takes the header from the first two, writes it to another place or to none
  (`damaged`). A program has one request under way at a time. Egress is wired to
  the ingress of the same NIC (`S/MgmtCore.scala:68`): that is how one program is
  answered; for a pair the module assumes a network between two NICs, which that
  wiring leaves out. The second frame carries the end of the 64 bytes read
  (`S/Interfaces.scala:439`); the module does not hold payloads, and where the
  programs poll, the bytes taken from the wrong place are not 0 either, with one
  exception: the last packet of `perf_write` at 140000 bytes carries 14, so that
  the byte polled is taken from behind the message. A 0 there is a chunk that is
  written nowhere. Polls are loads of memory: the makefile does not
  optimise, so the pointers that are not `volatile` are read every time.
  `nodes` says which device nodes exist; `lost` and `damaged` are history.
* **Time trace.** Times are distinct, so a time also names the event's format.
  The test of `frozen`, the move of `next_index` and each store of
  `record()` are steps of their own; any number of threads print. Buffers are numbered as they are created; as the list is
  only appended to and erased from, it is the set of its buffers in that order.
  The mutex makes the constructor, the destructor and `cleanup` single steps.
  `log` is history, and so is `clean`, which says that no `record()` was
  between its test and its last store when the print froze the recording, that
  no other print ended meanwhile and that no buffer of the print was deleted.
* **Simulator.** Lengths are in cycles of 64 bytes, a packet is `Frame` cycles,
  the 8 of `priorities+1-8` is `Slack`. `priorities = Slack - 1` is excluded:
  the code then forms an iterator before the first entry. Arrivals come in any
  cycle, at most `MaxMessages`. Statistics are left out but for `underflow` and
  `pktinacc`, as flags. A snapshot run starts empty, as the constructor that
  should load one is commented out.
* **Distributions.** Fractions are in parts of 10^9, the mean in exact decimal
  arithmetic. `MCDistPoints` takes bucket fractions that no difference of two
  points equals, so that the rounding of doubles cannot decide a comparison.

Modules hold, next to a definition, its mutants: plausible slips of the code
(a guard dropped, a comparison off by one). They are used by no specification;
`PROJECT.json` pairs each with a property that detects it.

## 3. Runs

Runs that pass:

| run | instance | shows |
|---|---|---|
| `PQService` | 4 slots, up to 3 active entries, a consumer that may refuse | below capacity the queue implements `PriorityService` (`ServesAsPromised`): nothing lost, duplicated, served too often or out of order; it empties unless enqueues never end (`Drains`) |
| `SrptSend` | 4 slots, 3 messages of two packets, the last one short; updates in flight, inserts in any cycle | a message has one slot at most, with the bytes it owes, and none only if an insert dropped it, which takes more messages than half the slots (`MessagesKept`); every packet once, and again only for an insert that meets it being taken (`EachPacketOnce`); sent only when granted and buffered; a message that is alone is sent |
| `SrptFetch` | 4 slots, 3 messages, packets that are no multiple of a block | requested blocks are covered by the occupancy, each free counts once, for a message that was not dropped (`OccupancyCovered`); a cache line is overrun by less than a block |
| `DelegateWrites` | 3 writes of all kinds from 2 pages | a message reaches scheduler, prefetcher and DMA together, once, in order, with its control block written; a write is served in the end unless a receive request is before it, though the receivers are never assumed ready together |
| `MapRequests` | 2 channels, one busy, mappings that change at any time | each channel implements `RequestChannel` under any back pressure (`CarriesInOrder`); a request that did not wait in the read stage gets the translation in force (`UnstalledRight`) |
| `Egress` | packets of 3 and 4 frames, 2 in the pipeline, any back pressure and RAM latency | packets leave in order, each with one last frame; a frame carries the bytes of its own place (the second excepted); a packet that never waits at the duplication stage is complete; nothing gets stuck |
| `DriverOpens` | 2 files, 2 sessions, 2 addresses, 3 calls of open that overlap in any way; failed allocations, deaths in open, a load that fails, unloading | two files share a session only after two opens both found it unassigned (`SessionsApart`); until then buffers are private and every buffer goes back, write back again (`BuffersPrivate`, `CleanedUp`); after an open that met no other the NIC's map is that open's (`LatestOpenMapped`), and it stored every buffer under its type (`MapsMatchTypes`) |
| `PerfApps` | 2 turns, 3 sizes, 4 chunks; each program alone or with its peer, either set of nodes; any chunk damaged | until a chunk is damaged: a poll sees the whole answer to the latest request; a message is lost only while a server sets up or between its answer and its clear (`LostInWindows`); at close the NIC has read and written all it will of the message buffers, the bitrate pair excepted (`ClosedWhenIdle`); the programs end if no message is lost |
| `TimeTrace` | 2 threads, 2 buffers of 2 objects, rings of 3 slots, 4 times, 2 prints that may overlap | a clean print shows exactly what is retained, merged in order; the buffer of a thread is not deleted under its `record()` or destructor; a print returns whatever records were under way, unless another print ends first and lets recording go on |
| `SimQueue` | all 4 types, 0 and 2 priorities, lengths of 1 and 5 cycles, 8 messages | `assert(val == 1)` and more: every entry in exactly one place (`Conserved`); `assert(missort.second == false)` and order of what is flagged sorted (`FlagsRight`); no cycle wasted, and Ideal optimal (`LinkServed`); the loops end (`Finishes`) |
| `Dist` | the 5 tables as compiled, 3 pairs of limit and bucket fraction, every percent as a draw | the result can be sampled (`Samplable`), each sample is the table's, cut at the limit, or at most the size ratio above it (`QuantileClose`), and the mean is the expected cycles of a sample, computed a second way (`MeanExact`) |

One run ends in a violation: `DriverRace`, in which two opens find session 0
unassigned (`driver/homanic.c:148`) before either marks it, and both take it,
against "Ensure that this session is not allocated to anyone else"
(`driver/homanic.c:159`; `findings` in `PROJECT.json`).

Further statements, defined in the modules or got from a property by leaving
out its exception, are refuted by the code; the passing properties are stated up
to them. Each can be reproduced by checking the statement alone with the
constants of the run named:

| statement | run | what TLC shows |
|---|---|---|
| `EachPacketOnce` without `repeated` | `SrptSend` | `V/srpt_queue.v:214`: an insert in the cycle of an output handshake leaves the packet valid, and it is taken twice |
| `MessagesKept` and `OccupancyCovered` without their exception | `SrptSend`, `SrptFetch` | `V/srpt_queue.v:216`: an insert never writes the last slot, and updates and bubbles take slots too, so that a message is pushed out although there are fewer messages than slots ("the maximum number of RPCs that we could be trying to send to at a single point in time", `srpt_queue.v:34`) |
| `EligibleIsSent` | `SrptSend` | `V/srpt_queue.v:219`: an update or a bubble at the head hides an eligible message of another id until the next insert; `LoneMessageIsSent` is about one message at a time |
| `MapsMatchTypes` without `met` | `DriverOpens` | `driver/homanic.c:172`: opens that overlap mix the fields of `dma_map`, and a buffer is stored under the type of another |
| `map[p] = "closed" => metadata[p] = 0` | `PerfApps` | `S/Delegate.scala:121`: no program waits for the write of its metadata, and `driver/homanic.c:206` frees the buffer it goes to |
| `TranslatedRight` | `MapRequests` | `S/AddressMap.scala:39`: a request stalled after its read is translated with what the memory shows later; `UnstalledRight` excepts it |
| `FramesComplete` | `Egress` | `S/PacketPipeline.scala:162`: a frame the next stage refuses is skipped; `UnstalledComplete` excepts it |
| `SecondFramePayload` | `Egress` | `S/Interfaces.scala:439`: the second frame carries the end of the 64 bytes read, not their start; `OwnPayload` excepts it |
| `PrintedInOrder` | `TimeTrace` | `app/lib/time_trace.cc:268`: a `record()` that tested `frozen` before the freeze takes and fills its slot during the print ("This class is thread-safe", `time_trace.h:36`); `CompletePrint` is about clean prints |
| `NoneForgotten` | `SimQueue` | `model/queues.hh:384`: `firstunsort` is cleared with the first unsorted entry, and later ones are not jumped to ("jump to that") |

Limits of the code that the modules show but that no run is about, because the
assumptions exclude them: a full priority queue drops entries and duplicates
its tail (`MaxLoad`); a receive request blocks the Delegate
(`FunctionsServed` excepts what waits behind one); message ids are not
incremented; a session is never given back and its translations are never
withdrawn; the metadata buffer goes back uncached if it was mapped; `BAR_0` has
32 bits; the driver creates one device node, while the repository's README and
all programs but `perf_write` expect four, test `mmap` for `NULL` and crash on
`MAP_FAILED`; a latency server that is slow to clear loses a ping, and both
sides wait for ever; a program whose answer the NIC damages may wait for ever or
take a part of it for the whole; a print may read a buffer that `cleanup()`
deletes meanwhile; the mean of a fixed length is in bytes, that of a table in
cycles, and a fixed length ignores the limit; with 0 priorities, the default of
`qsim`, entries of `PIFO_Naive` circle between its two queues and are served
only as others arrive; a frame over the end of a cache line reads on into the next line
(`WithinLine`).

**Bounds.** Every step is local to neighbouring slots, one id, one port or one
session, so two or three of each, with enough slots for the chains that swaps
and shifts make, show all patterns of interference; values are the few that
the guards tell apart (an entry with and without cycles left; a message of one
packet, of one and a bit, and of two). In `Egress` a frame has 4 bytes and a
header 6, so that it ends in the second frame as 114 bytes do in frames of 64;
a message has two full packets and a short one that fills its last frame, and a
line holds two packets. `pending` has 2 entries instead of 8: both its limit
and several reads in flight occur. Two packets are 7 or 8 frames, more than the
stages hold. `MaxWrites` bounds the history of `Delegate`.
Two addresses are less than a session needs, so that opens meet failing
allocations and addresses used again; three opens are two that overlap and one
before or after them. A ring of 3 slots is empty, partly
filled, full and wrapped within 4 times; two prints let one end under the other.
In `PerfApps` two turns show what a turn leaves to the next, three sizes move the
polled byte twice, and with four chunks the bitrate server polls the third. In `SimQueue` 2 priorities with a slack
of 2 make refills by both conditions and spills into a busy insertion occur;
8 messages fill the vector behind them. The tables of `Dist` are whole. The refinement in
`PQService` needs `MaxLoad < Size`, the hypothesis of its theorem, met with
equality. In the SRPT runs three messages are more than half of four slots, so
that inserts do drop messages.

**Fairness.** The clock ticks, and a consumer that is asked for ever is ready
in some cycle: weak fairness of the cycles in which it is. In `Delegate` and in
`Egress` each consumer, the RAM's two sides included, has its own; that they
coincide is not assumed. In `PQService` and `SrptSend` the liveness properties
except behaviours in which enqueues or inserts never end: they have precedence
over pops. In `SimQueue` the loop runs on and arrivals come again and again, as
exponential gaps are finite (strong fairness, since a drain suspends them). In
`TimeTrace` and `PerfApps` every thread that is in a call, or program that is
not at its poll, is scheduled. In `PerfApps` the NIC goes on with what it is
given, right or damaged: the Delegate serves every write that is not behind a
receive request (`FunctionsServed`), which no program makes, and egress transmits
every packet (`Transmitted`). The fetch
queue, the address map, the distributions and the driver are checked for
safety only.

**Deadlock** is checked in every run that models hardware, the simulator or the
distributions: there a step is always possible. In the runs of `DriverSessions`
the calls of open are bounded and all callers may have died in the kernel, in
`TimeTrace` threads may have nothing more to do within the bounds, and in
`PerfApps` programs end and the latency server waits for ever.

## 4. Proofs

`PriorityQueueProofs` proves, for every `Size >= 2`, every set of ids and
entries, every priority range and every load:

* `TypeCorrect`: `Spec => []TypeOK`;
* `QueueInOrder`: `Spec => []OrderInv`, active entries are a prefix of the
  queue, sorted, and their cycles do not exceed their priority;
* `HighestPriorityFirst`: `Spec => EmitsHighestPriority`.

The inductive invariant is `TypeOK /\ OrderInv`. The sorted prefix alone is
not inductive: `pop()` lowers the priority of the head, which keeps the order
unless the priority is 0 and wraps; `CyclesCovered` excludes that, since an
entry with cycles left has a priority of at least 1. The core of the argument is
`MaskIsSuffix`: in a sorted prefix the slots that a new entry comes before are
a suffix, so the priority encoder finds its first slot, and the slot-by-slot
shift moves exactly that suffix (`InsertedSlot`, `InsertionKeepsOrder`).
`PopKeepsOrder` treats a head that stays and a head that is shifted out. No
bound on the load is needed: order survives overflow, which no run reaches and
the proof covers. The assumptions are those named in `PriorityQueue`.

Its last part proves `QueueServesAsPromised`: `Spec => ServesAsPromised`, the
refinement of `PriorityService`, for every instance with `MaxLoad <= Size - 1`. The hypothesis is the limit stated in section 3: a queue
that is full drops an entry and, when it pops, duplicates its tail, and nothing
in the code prevents it. Added to the order is one fact, `LastFree`: the last
slot stays inactive, so that an insertion has where to shift and a shift out
copies nothing. The bag of pending entries is determined by how many slots hold
each entry (`PendingCounted`); a cycle maps the slots one to one to the slots
one further, and only the new entry's or the head's count changes
(`InsertionCounted`, `ShiftCounted`, `ReplacementCounted`). `HeadIsBest` is the
order again.

`SrptQueueProofs` proves of the send queue `SendTypeCorrect`,
`SendKeepsMessages`, `SendsWhatIsEligible` and `SendsEachPacketOnce`, for any
number of messages and inserts in any cycle; of the fetch queue
`FetchCoversOccupancy` and `FetchBoundsOverrun` for the sizes named below. Slots,
ids, lengths, offsets and sizes are arbitrary, as are the number and the order
of grants, notifications and frees.

* An insertion shifts everything by one slot and then compares pairs: `Origin`
  says where in `Shifted` a slot's entry comes from, `Origins` that it is one to
  one, `Passed` that only an update changes what it passes, and only the message
  it is for. The loser of the last comparison would go to the last slot, which
  is never written: it is lost, and `crowded` if it is a message.
* When it may be one is `Kept` and `Roomy`. Updates and bubbles are of lower
  priority value and never stop moving to the tail, messages are put back by each
  comparison with one: so behind the first pair every even slot in front of a
  message is a message (`Packed`), slot 1 is one only if slot 0 is (`Paired`),
  and as many as were ever live at once are never all behind the first pair
  (`Room`). A message in the last pair therefore takes more of them than half the
  slots (`LastPair`). `InsertKeeps` and `DequeueKeeps` preserve `Kept`; a
  completed head may be the last message or have one in slot 1, which is what
  `Room` and `Paired` provide for. All this holds of whatever messages are left
  when one has been dropped. The bound is exact in the sizes TLC was given: with
  4 slots and 3 messages, or 6 slots and 4, it finds a message lost.
* `OnceInv` counts what the receiver took, and apart from it (`repeated`) what an
  insert left on the output in the cycle it was taken.
* `Bounds` is for eligibility: neither a message nor an update still ahead of it
  grants or buffers more than was submitted. Updates for other messages, or left
  over from an earlier use of the id behind the new message, do not count.
* `Occupied` is for the cache: the entry of a message counts what its line holds
  plus the frees still ahead of it (`Ahead`), each of which takes
  `PAYLOAD_SIZE` off when it passes, so that the subtraction does not wrap.
  `Sizes` is what this needs: blocks no larger than a packet's payload, as
  built (256 and 1386), and a cache line (131072) that with a block fits the
  offset.

Nothing in the code keeps the messages at half the slots: the queue is always
ready (`s_axis_tready <= 1`). Neither do the theorems assume it: they say what
happens with more.

`DelegateProofs` proves `DelegateInvariant` and from it `TypeCorrect`,
`WritesServedInOrder`, `MessagesOnboardedAsOne` and `ControlBlocksReady`, from
the assumption of `Delegate` alone. The three properties and the types of the
history variables are together inductive: the queues behind the decoder have
one place each, and a send is served only when all three are free or read.

`AddressMapProofs` has two parts. `ChannelsCarryInOrder` is the refinement of
`RequestChannel` by every channel, step by step: `Carried` is the queue out, the
read stage and the queue in, and each combination of ready and valid takes from
its front or adds at its back. `UnstalledTranslated` has the invariant `MapInv`:
the memory, with the write under way, holds the translations in force
(`MemoryCurrent`), they are among those that a waiting request may be given
(`ReadableBases`), and the value read belongs to the request in the read stage
if that has not waited (`ReadBelongs`). Its hypothesis `PortsFit` says that
ports are 1 to `Stride`; a channel has that many slots and the address is only
added, so that a larger port would write the next channel's. The driver writes
port 1.

`DriverSessionsProofs` proves `TypeCorrect`, `SessionsStayApart`,
`BuffersArePrivate`, `AllCleanedUp`, `LatestOpenIsMapped` and `OpensMatchTypes`,
for opens, closes, failed allocations, deaths and loads that interleave in any
way. The first two parts hold until two opens take one session, which is the one
thing that has to be excepted (`raced`): `OwnInv` is that or `Apart` and
`BufferInv`. A session held is marked but for the instant between test and mark
(`Marked`). `BufferInv` follows the handles through the loops of open and
release: a handle that no longer names a buffer is zero (`Zeroed`), an allocated
buffer has exactly one owner under one type (`OneOwner`, `BuffersOwned`), and
only an owner has it uncached. `MapInv` needs no such exception. It speaks of
opens that met no other (`met`, `Together`): it says how far such an open has
filled `dma_map` (`Filled`) and the card (`Stored`), whatever those before it
left there.

`EgressPipelineProofs` proves `TypeCorrect`, `PacketsKeepOrder`, `PayloadsOwn`
and `UnstalledPacketsComplete` from the assumptions of `EgressPipeline` and
`PacketFrames` alone, for any depth of `pending`, any back pressure and any
latency. Its invariant sees the six places from `xmit` to `dupe_1`, and behind
them the frame `dupe_0` makes next, as one line of frames (`Line`). Seen so, a
cycle only takes a frame from the front (`LineDeparts`) and puts frames at the
back: the next one of the packet (`LineContinues`), the first of a new one
(`LineBegins`), or, in a cycle in which the frame is lost, one further on in a
packet that is from then on `stalled` (`LineStalls`). `FramesMove` shows that
every combination of readies moves the rest without reordering. `GoodLine` says
that the frames up to a last one are of one packet and the packets those
awaited (`Accounted`), that neighbours of a packet that never stalled are one
frame apart (`Adjacent`), and that the wire had what comes before the first one
(`OnWire`). `Paired` says that the reads under way are those of the frames in
`pending`, in order, which makes the payload a frame's own.

Its last part is about `PacketFrames` alone, for every frame and header size
with the header ending in the second frame (`FramesAssumption`): the frames of a
packet tile its segment. A frame's payload begins where the previous one's ends
(`FramesAdjoin`), the last one ends with the segment (`LastFrameEnds`), and no
frame delivers a byte that was not read for it (`CarriedWithinRead`).

`SimQueueProofs` proves `EntriesConserved`, `FlagsStayRight` and
`LinkAlwaysServed` for every length of simulation, size of the sorted queue and
slack, from the assumption of `SimQueue`. The four parts of `PIFO_Naive::step`
are operators on a record of the sorter, and each is shown to keep `GoodSorter`
(`JumpGood`, `CompareGood`, `RefillGood`, `SpillGood`). That no entry is lost
(`Placed`) rests on the indices into `backing` being right (`Indexed`); that the
flags are right rests on `Ordered`, which is stronger than the property: the
entry being inserted comes after every sorted entry already passed, and so does
the entry that `firstunsort` will re-insert, which is what makes a jump safe.
`assert(val == 1)` counts; `Placed` gives three disjoint sets and `backing` a
bijection with its indices. `LinkServed` needs that a departure finds the
sorted queue filled if anything is pending (`Supplied`), which the spill at
`priorities + 1` and the refill keep for one priority or more, and that
`hwqueue` of `Ideal` is all that is pending.

`TimeTraceProofs` proves `BuffersStayAlive`: `Spec => []BuffersAlive`, for any
number of threads, buffers, objects and prints, any size of ring and every
interleaving of the stores of `record()` with constructors, destructors and
`cleanup()`. What has to be added is that a thread has a buffer exactly while it
has objects, and is in `record()` only with a buffer (`Referred`): then a store
never changes a count (`StoreKeeps`), the count of a thread's buffer is that of
its objects (`Recounted`), so `cleanup()` deletes no thread's buffer
(`CleanupStep`), and a new buffer is no other thread's (`NewBufferStep`). That
an object is destroyed by its own thread, outside `record()`, is part of the
model (`Idle`): objects are local variables of their thread's top function
(`time_trace.h:179`).

It also proves `PrintsComplete`: `Spec => []CompletePrint`. The invariant has
three parts besides `TraceInv`.

* `Rings`: going backwards from `next_index`, a ring holds the slot that a
  `record()` under way has taken, if any, then the events of the log, the last
  one first, and empty slots behind the first event (`RingLogged`); the slot
  taken is the last one (`SlotTaken`). So the slot after `next_index` is empty
  unless the ring has wrapped, and `print_internal` finds the oldest event in
  both cases (`QuietRing`).
* `TimesDiffer`: times increase in a buffer and no two events have the same, a
  `record()` under way included.
* `PrintsRight`: a print that is still undisturbed has found every ring at its
  oldest event (`AtOldest`), then starts at the time that `Complete` says
  (`Started`), and from the skip on what it has printed and what it has not
  passed (`Ahead`, `ToPrint`) are together what is expected, all of the first
  before all of the second (`Merging`). `SkipTo` says where the skip stops,
  `NextToPrint` that the earliest current event is the least of all that is
  left, `PassOne` and `LatestLess` that printing it removes it and nothing else.

No step of another thread changes what such a print looks at (`OthersQuiet`,
`PrintKept`): recording is frozen, a new buffer is not in its list, and a
deletion or the end of another print makes it unclean. When nothing is left, the
list printed increases and has the elements expected, so it is the sorted list
(`Enumerated`). Sorted lists are defined by rank, and ranks are cardinalities
of subsets: no induction over the events is needed. `CopyFields` to
`DisturbedFields` only say which fields of a call a step changes.

A proof that fails is what a defect looks like here: with the body of a mutant
(a refill that leaves `firstunsort` behind, a spill over a busy insertion, a pop
that never retires, a frame that takes no answer) in place of the definition,
the proofs of that module no longer go through.

Only model-checked, and why:

* liveness (`Drains`, `LoneMessageIsSent`, `FunctionsServed`, `Transmitted`,
  `PrintReturns`, both `Finishes`): fairness and `ENABLED` are out of the
  prover's reach;
* the distributions and the programs: what they compute are folds over tables
  and fixed programs, of which TLC checks all there are.

## 5. What is not modelled

The Scheduler and the Prefetcher do not exist as working code. The grant queue
(`V/srpt_queue_grant.v`) and the CAM are instantiated by nothing: what feeds
them would have to be invented. The firmware is commented out but for an empty
`main`, `app/lib/homa.h` and `model/config.hh` declare what no compiled code
uses, and so does most of `app/lib/nic_utils`. Wrappers, configuration bundles,
vendored cores and scripts have no control logic of this system. In the kernel
module `init_eth` is never called.

Of the packet pipelines, the header fields and the lookup of the control block
are left out: a packet enters `EgressPipeline` with the size and the remaining
bytes that the lookup provides, through a pending queue like the one that is
modelled. Of ingress only the payload it takes from a frame is modelled; its
message map passes packets through. The RAM clients (split of an access over
two segments) are taken as RAMs that return the bytes asked for.

In `model/dist.cc` `dist_overhead`, `values` and `cdf_fractions` have no caller;
output, statistics and trace files of the simulator and the text of a time
trace are presentation.

## 6. Plan

Done: priority queue, SRPT queue, Delegate, address map, frame arithmetic,
egress from duplication to the wire, the kernel module, the programs, the time
trace, the simulator and its distributions; proofs of every invariant checked but
those of the programs and the distributions. Left:

1. The RAM clients against a flat memory, and with them the lookup stages.
2. The ingress stages, joined to `EgressPipeline` as in `MgmtCore`.
3. The SRPT queue with the core around it, once the Scheduler exists: who keeps
   the number of messages at half the slots.
