# A verification development for BPFabric

BPFabric is a software-defined network whose switches run eBPF programs. A
controller (Python, Twisted) sends a compiled program to a switch; the switch's
*agent* thread loads it, creates the tables it names, compiles it to x86-64 and
publishes the function; the switch's *dataplane* thread runs it on every frame
and acts on what it returns (a port, FLOOD, CONTROLLER or DROP). Agent and
controller talk over one TCP connection: installs, table requests, packets.

This directory holds TLA+ modules of the parts with state worth checking, the
TLC configurations that check them, and TLAPS proofs about both kinds of maps,
installs, the validator and the compiler of programs, the controller's registry,
the framing of messages, networks of learning switches, and the transmit paths of
both switches.

## 1. Inventory

| Component | State | Operations | Talks to |
|---|---|---|---|
| hash map (`bpfmap/hashtab.c`) | a chained table, `current` and `iterator` kept between calls of get_next_key | update, lookup, delete, get_next_key | libghthash below; the agent and the running program above |
| libghthash | chains, age list (`p_oldest` .. `p_newest`), heap blocks | insert, get, remove, first, next | the hash map |
| array map (`bpfmap/arraymap.c`) | one block of elements | update, lookup, get_next_key | agent, program |
| map registry (`bpfmap/bpfmap.c`) | `bpf_maps`, 64 slots | create, and dispatch of the four element calls | loader, agent, program |
| ELF loader and VM (`ubpf/`) | the meta table of tables, `insts`, `jitted` | ubpf_create, ubpf_load_elf, ubpf_load, validate, ubpf_compile | registry, agent |
| agent (`agent/agent.c`) | `agent.fd`, the request it serves, `*ubpf_fn` | connect, hello, install, table requests, PacketOut; agent_packetin and bpf_notify from the dataplane's thread | controller, VM, maps, dataplane |
| software switch (`softswitch/main.c`) | per port a receive and a transmit ring shared with the kernel, `frame_num` | tx_frame, transmit, the poll loop | kernel, program, agent |
| DPDK switch (`dpdkswitch/main.c`) | per core and port a burst of 32 buffers, reference counts, statistics | send_packet, send_burst, flood, drain | driver, program, agent |
| controller core (`controller/core/`) | per connection a buffer and a header, the registry of connections | dataReceived, hello, disconnect | agent, applications |
| applications (`controller/*.py`) | what they learned | hello, packet_in, CLI commands | core |
| example programs (`examples/`) | their tables | one function per frame | maps |

What is hard about it: the agent and the dataplane are two threads without a
lock; they share the maps, the transmit rings, the function pointer and the
socket. What a switch learns depends on the order of frames through the whole
network, and on messages to the controller and back. State is kept between
calls (the map's iterator, the compiled program, the parser's header). An
install fails half-way at any of a dozen places. Switches, paths and the
controller die and come back, and each side learns of it by itself.
`PROJECT.json` lists each such hazard at its line.

## 2. Modules

| Module | Models | State and actions |
|---|---|---|
| `Lists`, `BpfCall` | list helpers, the form of a map call | |
| `BpfMap` | **abstract**: a map is a dictionary with an order; get_next_key depends on its key only | update, delete, lookup, get_next_key as single steps |
| `HashTab` | `hashtab.c` over `hash_table.c`, and `recv_table_list_request` | `pp_entries` (chains), `age` (the age list), `live`/`key`/`value` (the heap: a freed block keeps its bytes), `current`/`p_next` (the iterator), `held` (a pointer a program got from lookup), `pc`/`cursor`/`items` (the list request). One action per call of the map; `ListNext` and `ListCopy` are the loop's condition and body |
| `MCHashTab` | instance for TLC | |
| `BpfArray` | **abstract**: a fixed number of elements of bytes; who has an element open writes bytes of that element only | create, update, lookup, write, delete, get_next_key |
| `ArrayMap`, `MCArrayMap` | `arraymap.c` and the agent's requests on an array | `value` (the bytes of the block), `access` (the element each thread copies to or points into), `pc`/`items` (the list request). Sizes and addresses wrap as a `uint32_t` does; `Copy` and `ListCopy` are one byte of a memcpy |
| `Ubpf`, `MCUbpf` | `recv_install`: loader, `bpf_create_map`, `ubpf_load`, `ubpf_compile`, publication, and the dataplane's test and call of `ubpf_fn` | one action per outcome of each step |
| `TxQueue` | **abstract**: a bounded drop-tail queue | |
| `TxRing` | `tx_frame`, `transmit`, the poll loop, PacketOut; the kernel's ring as an external actor | instruction by instruction where two threads may meet: check, copy, mark, load and store of `frame_num` |
| `Session`, `MCSession` | `agent_task`, `agent_packetin`, `application.py`, `simpleswitch.py`; TCP as an external actor | `fd`, `leaked` (descriptors of failed connects), `dead` and `unacked` (broken paths, and those on which a switch waits for an acknowledgement); connect, a connect that fails, hello, receive, close; packets sent by the dataplane at any time; hello, packet and disconnect handlers; crash, restart, a path that dies unnoticed, controller restart |
| `Channel` | **abstract**: messages arrive whole, once, in order | |
| `Framing` | both ends of the stream: `dataReceived` and `_read_packets` in the controller, the loop of `recv()` in the agent | a byte is its message and position; TCP delivers pieces of any size; one action per branch of either loop; `cut` is the first message that a `recv()` divided |
| `LearningNet`, `MCLearningNet` | `learningswitch.c`, `learningswitch_centralized.c` and `simpleswitch.py` on the software switch, several switches at once; hosts and links as external actors | `inports` (each switch's table), `mac_to_port` (the controller's), the frames in `rx` and `tx`, the messages `up` and `down`; one action per frame, flush or message that a thread handles |
| `Dpdk`, `MCDpdk` | the DPDK switch: the assignment of ports to lcores, the polling loop, bursts, drains, FLOOD, and the agent's PacketOut through the bursts of lcore 0; driver and ports as external actors | `len`/`m_table` (the bursts of each lcore and port), `refcnt`/`pool`/`in_port` (the buffers), `age` (history: which packet was forwarded before which), `pc`, the loop's and `send_packet`'s locals. `send_packet` is read, store (and send), write, since two threads may be in it; the rest of the loop is one action per step |
| `Vm`, `MCVm` | what happens to the code of an install: `validate`, `translate`, `resolve_jumps`, and the compiled code beside `ubpf_exec`, by control flow | `insts`, the loops' `i`, `located` (entries of `pc_locs`), `jumps`; one action per instruction of each phase; `Run` takes one instruction in both, where each finds a condition, a divisor or an address as it may be (`Outcomes`): the two do not always compute the same. `last` and `alike` keep where they were before and whether they found the same there |
| `HashTabProofs`, `ArrayProofs`, `UbpfProofs`, `VmProofs`, `ConnectionProofs`, `LearningNetProofs`, `TxRingProofs`, `DpdkProofs` | TLAPS proofs | |

`HashTab` and the meta table of `Ubpf` meet in `BpfMap`: `Ubpf` uses a table as
the dictionary that `HashTab` is shown to implement. `Session` and `LearningNet`
treat messages as whole and in order, which `Framing` shows of the controller's
parser, and of the agent's up to the first message that a `recv()` divides. Its
specification and type invariant have names of their own (`FramingSpec`,
`FramingTypeOK`), so that one module can hold the proofs about both.
`Ubpf` has code that the validator accepts or refuses; `Vm` is that code from
the inside. `TxRing` and `Dpdk` are the two switches a program can run in.
`LearningNet` composes programs, software switches, agents and the controller:
its `tx` is `TxRing`'s ring when it does not fill up and one thread at a time is in
`tx_frame` for it, and a PacketOut to one port waits in it as it does there. With
the centralized program the agent's thread and the dataplane's transmit on the same
ports; what happens when they meet in `tx_frame` is in `TxRing`, and not here. Its switches' table of ports is a dictionary, as
in `BpfMap`.

## 3. Runs

| Run | Question | Bounds and why they are enough |
|---|---|---|
| `hashtab_agent` | Is the map exact, and is a list reply? | 4 keys of which 3 are stored, 2 of them colliding; 2 values; 3 blocks, so a freed block is reused; no bound on the number of calls. A chain of two and an age list of three have a first, middle and last entry to remove. During list requests the program writes one of the colliding keys, at any point |
| `array` | Do bytes stay where they belong? | a `uint32_t` of 16, alignment and header of 2, seven sizes: one and two elements, shorter than the alignment and as long; two whose size wraps, to 2 and to 0; two that are refused. An index and a flag out of range |
| `ubpf_install` | Do registry, meta table and code agree after any installs? | 6 programs (three good ones with tables in common, one with a broken ELF, one without text, one refused by the validator), 3 slots, so that they run out; one failed update of the meta table |
| `ubpf_replace` | *violation*: does the newly loaded program run? | the same |
| `txring` | Is the ring a queue that is flushed? | 3 frames, 5 packets, so the ring wraps; either thread as the only writer; PacketOuts to one port and flooded ones |
| `session` | Registry and programs under failures | one switch, 5 connections, 2 failures (crashes, broken paths, failed connects), 2 packets; 2 descriptors, so that failed connects use them up. Switches share nothing in the controller but the registry, which is kept by datapath id |
| `session_late` | *violation*: is a greeted switch in the registry? | the same with 4 connections |
| `dpdk` | Are buffers counted, packets in order, and none stuck? | 2 ports, 2 lcores, bursts of 2, one transmit descriptor per port (so bursts are refused in part and as a whole), 3 buffers; four set-ups: forwarding between two ports, an agent with the bursts of an idle lcore 0, an agent that shares them with it, and flooding |
| `dpdk_flood` | *violation*: are flooded buffers counted right? | the flooding set-up |
| `vm` | Is accepted code compiled to what it says? | MAX_INSTS is 5: all code of up to 3 instructions over 17 kinds, good and bad, of 4 over a dozen (loops and branches over a wide instruction, in the longest code accepted), and of 5, which is refused |
| `framing` | Are messages handed on right? | header of 2 bytes, payloads of 0, 1 and 3, three messages, all ways to cut them; the agent's buffer has 4 bytes, so that the longest message never fits |
| `learning` | Is what is learned right, and do frames arrive? | two switches in a line with three hosts, and a third that only says hello; 3 frames of a broadcast and two unicasts, which make a switch learn, answer from its table and be wrong if it could. Both kinds of program; in each a switch that gets its program late. That frames arrive is asked of the switches that learn by themselves, where one thread alone fills the rings |

What the violations show:

* **A second program never runs** (`ubpf_jit_x86_64.c:528`): `ubpf_compile`
  returns the first one for ever, though `ubpf_vm.c:109` means to allow loading
  several.
* **A switch that reconnected may be missing from the registry, or stand in it
  with its old connection** (`application.py:16` and `:25`).
  `RegisteredUnlessOverlap` says when it cannot be.
* **A flooded buffer is released once per enabled port** (`dpdkswitch/main.c:269`)
  and retained once per port it is queued on, so that its count is too low while
  ports still hold it. `RefsCountedUnlessFloodedOrShared` says that bursts,
  drains and the drops of full queues do not upset the counts, where nothing is
  flooded and the agent's thread does not share its bursts with an lcore that polls.

Facts met while modelling, by part; the properties are stated so as to allow
them.

* *Hash map.* `htab_map_update_elem` ignores its flags (`bpfmap.h:8` and `:9`
  describe them) and does not enforce `max_entries` (`bpfmap.h:41`), for which
  the agent sizes its reply. A list request starts from the all-zero key and so
  omits that key and all older entries when it is stored. When the program
  writes during a request, the reply may miss entries nobody touched: rewriting
  one entry frees the block that the iterator was to go to (`hashtab.c:157`). The
  pointer of an earlier lookup does not see an update of its key
  (`test_hashmap.c:58` to `67` expects it to).
* *Array map.* The size of the block is a 32-bit product (`arraymap.c:24`): where
  it wraps, the block is too short for its elements. The list reply copies
  `n * value_size` bytes from elements that are rounded up to 8 bytes
  (`agent.c:243`), so that for other sizes it holds some elements in part and
  lacks the last ones. The reply to a get request is followed by a `free` of the
  pointer that the lookup returned, which is inside the block (`agent.c:319`).
* *Installs.* After a refused program the next install frees the old
  instructions twice.
* *Software switch.* A PacketOut to one port waits in the ring for the next frame
  that the switch handles, since the flags are looked at only when flooding
  (`softswitch/main.c:368`); `late` in `TxRing` holds such packets and no others.
  With two writers `tx_frame` may lose an accepted packet or leave a gap at which
  the kernel stops.
* *Agent's receive loop.* A message that a `recv()` divides sends the loop astray
  (`agent.c:490` and `540`): what follows is read as a header, or the payload is
  read from stale bytes; if the piece is shorter than a header it is dropped and
  later messages may be handled. A message longer than the buffer of 8192 bytes
  is always divided.
* *Agent's session.* `recv()` has no timeout and the socket no keepalive
  (`agent.c:533`): if the path dies after the hello is acknowledged and before the
  INSTALL arrives, the agent has nothing to send again and waits for ever (`Deaf`),
  unless the dataplane sends a packet. A `connect()` that fails leaks its descriptor
  (`agent.c:522`; the only `close` is at `:564`, behind one that succeeded), until
  `socket()` fails for ever (`Exhausted`). The dataplane sends on `agent.fd` at any
  time: without a connection the packet is lost, and before the hello of a new one it
  makes the controller drop the connection.
* *Learning.* No program compares the port it returns with the one the frame came
  in at (`learningswitch.c:33`). As long as tables are right this does not
  matter; when the hello of one switch has made the controller forget all
  (`simpleswitch.py:10`), while the switches kept their tables, a frame may be
  sent back to where it came from, and reach a host twice: `OnceEach` is about
  networks in which nothing was forgotten. A switch that restarts with frames
  under way, which is not modelled, could learn from a frame that comes back.
* *DPDK switch.* A PacketOut stays in the burst of lcore 0 until the burst is
  full when lcore 0 polls no port; when it polls one, the agent and the lcore may
  send a packet twice or lose it; and all lcores use transmit queue 0 of a port,
  which line 679 calls dedicated. The port that a program or a PacketOut names is not
  compared with the enabled ones (`dpdkswitch/main.c:236` and `283`), and indexes
  `tx_mbufs` as it is: the model assumes enabled ports, and `StoreInTable` is promised
  only then.
* *Compiled code* does not test a divisor (`ubpf_jit_x86_64.c:434` to `446` are
  commented out, while `:417` counts on them): where the interpreter returns, it
  stops, or divides by the immediate. It does not test an address either
  (`ubpf_jit_x86_64.c:341` to `378`), where the interpreter gives up an access outside
  of the packet and the stack (`ubpf_vm.c:379` to `441`). Code that does not end in
  EXIT is accepted (`ubpf_vm.c:537`): compiled it returns, interpreted it runs on
  behind its end. And the two compute differently: `JGT_IMM` and `JGE_IMM` extend a
  negative immediate with zeros in the interpreter (`ubpf_vm.c:461` and `471`) and with
  its sign in the compiled code, and a 32-bit move keeps the upper half of its source
  only in the compiled code. `SamePath` says how far the two stay together: up to the
  first of these ends, or the first branch, division or access at which they found
  different values. It says nothing of what each does after that.

### Fairness

* `TxRing!FairSpec`: both threads are scheduled and the device completes what
  it was given. Nothing makes frames arrive; `AcceptedSent` is about runs where
  they stop, since the receive loop need not end while they do not.
* `Session!FairSpec`: the agent's thread and the reactor run, a switch that
  crashed is started again. An agent's `recv()` returns in the end only where
  something makes it (`Told`): the controller's end of the connection is closed and
  the path is alive, or the path is dead and the switch's kernel has sent what was not
  acknowledged, and gives up sending it again. That the controller notices a dead path is
  nowhere assumed. Failures are bounded and not fair. `ProgrammedUnlessStuck` therefore
  has two ways out, `Deaf` and `Exhausted` (see the agent's session above), and without
  either it does not hold. The INSTALL is one that arrives whole and loads; `Framing`
  and `Ubpf` have those that do not.
* `Dpdk!FairSpec`: the lcores poll and never sleep, time passes, so that drains
  come due, and a port sends what it was given. Nothing makes packets or
  PacketOut messages arrive.
* `FramingFairSpec`: TCP hands over what it has and the end that reads, reactor
  or agent, runs. Nothing makes the other end send.
* `LearningNet!FairSpec`: as long as some thread has something to do, one that
  has does it. This is weaker than fairness to each thread; hosts need not send,
  and that frames stop coming is the model's bound on them.

## 4. Proofs

`HashTabProofs`, for any keys, values, buckets, hash function, heap and program:

* `TypeCorrect` and `StructureHolds`: `TypeOK` and `Structure`, whether or not the
  program writes during a request. The inductive invariant `Inv` adds
  `IteratorReal`: the block the iterator goes to next, freed or not, has held a
  key. `Unlinked` and `InsertKeeps` say what removal and insertion do to both
  lists at once.
* `IteratorFreshHolds`, of a request up to the first write in it; and
  `ListExactHolds`, of the same, assuming that the all-zero key is not stored (see
  above). `ListInv` relates the items collected to a prefix of the age list and
  the iterator to the entry after it.
* `CrashOnlyIfTouchedHolds`, without that assumption. `CrashInv` says that if the
  entry to go to is freed its key was written meanwhile.
* `HeldUntilWrittenHolds`: an action property from the same `Inv`.
* `Implements`: the refinement of `BpfMap`, call by call, assuming that the flags
  passed are 0: the agent and the programs pass no others, and the map ignores
  them. What the dictionary may answer to get_next_key after a write
  (`Disturb`) is what a freed iterator can lead to, by `Inv` and `IteratorFresh`.

The first part of the module has the lemmas on `IndexOf`, `Without`, `Cons` and
`Append`.

`ArrayProofs`, for any alignment, header, width of integers and sizes:

* `Layout`: where the sizes fit nothing wraps, and element after element lies
  within the block; from it `Disjoint` (two bytes of different elements are
  different bytes) and `InBlock`.
* `TypeCorrect` and `StaysInBlockHolds`, from `Inv`, which adds that an open
  element is one of the map (`Opened`) and how far a list request has come
  (`Listing`). `ListedExactHolds` adds that what was copied is what the map holds
  where nobody wrote (`Copied`).
* `Implements`: the refinement of `BpfArray`, action by action, from `Inv` and
  `Disjoint`, assuming that 0 is an index and BPF_ANY a flag: the agent passes
  them.

`UbpfProofs`, for any programs, tables, names and faults:

* `TypeCorrect`, `RegistrySoundHolds`, `NeverCallsNullHolds`,
  `ProgramUsesItsTablesHolds` and `TablesFitReplyHolds`. The invariant `Inv` joins
  to `TypeOK` and `RegistrySound` that code is relocated to slots that stand in the
  meta table under its own symbols (`CodePatched`), that a cached function
  outlives a failed install (`Compiled`), and that what `recv_install` is about to
  publish is not NULL (`InstallReal`). `RegistryKept` says that what leaves the
  registry alone keeps what is said of it.

`VmProofs`, for code of any length below any MAX_INSTS:

* `TypeCorrect`, `TranslateTotalHolds`, `JumpsFitHolds`, `JumpsResolveHolds` and
  `SamePathHolds`; `JumpsResolve` is proved only, as TLC has in `SamePath` what
  follows from it. The invariant says that what has been validated consists of
  whole instructions (`Good`: a half is that of an lddw, the rest is `Valid`), so
  that a step forward or a jump arrives where an instruction begins
  (`AfterBegins`, `TargetBegins`), and that the translator has located exactly
  those (`Emitted`). `SamePath` follows from where one instruction leads in both, for
  every pair of outcomes.

`ConnectionProofs`, on `Session`, for any switches, datapath ids, connections and
failures:

* `TypeCorrect`, `RegistrySoundHolds`, and `RegisteredUnlessOverlapHolds`, the last
  assuming that no two switches have one datapath id. `Registry` joins that a
  connection has the datapath id of the switch that made it (`Named`), that two
  open connections of one switch are both in `overlapped` (`Overlaps`), and that a
  named connection that is open and not in it is registered (`Registered`).

and on `Framing`, for any size of headers, payloads and the agent's buffer, any
number of messages, and any way to cut them:

* `FramingInvariant`, from which `FramingTypeCorrect`. Where a message begins in the
  stream is a sum over those before it, and nothing can be proved here by induction
  over them. The invariant needs no sum: it says of each byte that a reader has not
  taken yet (`Rest`: what is in its buffer and behind that on the wire) that the
  rest of its message is behind it and the next message behind that, or the end, if
  it is the last one sent, and that no earlier message comes later (`Follows`). A
  suffix of such a stream is one (`FollowsCut`), and so is the stream with one more
  message (`FollowsMore`); of its first bytes it says which message they are and
  what is behind them (`Taken`), which is all a step needs.
* To this it joins, up to the first message that a `recv()` divided: that a reader
  without a header is at the beginning of the message it will handle next, one with
  a header has that of this message and is behind it (`Reading`), and that what was
  handled is what was sent (`Done`). Beyond it, no earlier message is under way
  (`Beyond`), so that `cut` does not go back behind what was handled. `Cuts` says
  that a wire which goes on inside a message is recorded as a division; hence what
  the agent drops as too short for a header (`RecvDone`) is nothing up to there. The
  controller keeps such a piece and divides nothing.
* `FramingImplements`: the refinement of `Channel`. Sending a message maps to
  `Send`, handling one to `Deliver` as long as it is not behind the division
  (`PayloadIntact`), and all other steps to stutters, since no step takes back what
  was delivered (`RecvCut`).

`LearningNetProofs`, for any tree of switches, any hosts and any number of frames:

* `TypeCorrect` and `LearnedRightHolds`. That tables are right depends on where
  frames come from, and this on tables being right. The invariant says of every
  frame on a link that it comes from its sender's side or, after the controller
  forgot, that the switch it comes to knows both its ends and so neither learns
  from it nor asks (`Fitting`, in `RxOK` and `TxOK`); of every message that what it
  tells of a host is right (`UpOK`, `DownOK`). Two reasons keep that so: who knows
  a host behind a link has it from the switch at the other end (`FromNeighbour`);
  and a frame that is flooded though its destination is where it came from is
  ahead, on its link, of whatever tells the next switch so (`Ahead`).
* `OnceEachHolds`, from three invariants. `OnceEach` itself is not inductive: a
  frame that has a copy elsewhere in the network, or one on its way back, breaks
  it later. `CopyInv` lays out, for every frame and every host, the line of places
  where the frame may be on its way there: on each switch for which the sender and
  the host are behind different ports, the link towards the sender, the ring
  towards the host, and the messages to and from the controller; and last what
  the host got. Together they hold one copy at most (`Single`), and none of a
  frame that was not sent. Each step is shown to move a copy to the next place,
  to take one away, or to put in the only one (`Moves`, `Pours`, `Adds`); a flood
  is on one line at one port. This fails if a frame is sent out of the port it
  came in at, since the line would get a second copy. `Ahead` excludes that for
  the learning switch, and `WayInv` for the centralized program as long as the
  controller forgets nothing: frames are on the side away from their sender, a
  switch that asks the controller about a host, or is about to flood a frame to
  it, does not know the host, and nothing that will tell it so is ahead of the
  question (`Fresh`, for each queue, and `Asking`, `Told`).

  For the centralized program both are about runs in which the agent's thread and the
  dataplane's do not meet in `tx_frame` for one port (see section 2).

`TxRingProofs`, for a ring of any size and any number of packets:

* `TypeCorrect`, with any threads transmitting.
* `FlushTakesAllHolds` and `Implements` (the refinement of `TxQueue`), assuming that
  each port has one thread that transmits. `RingInv` says that the marked frames
  are a run from the kernel's head to `frame_num`, or one further while a thread
  is between its mark and its store; `PollInv` that during the poll only
  PacketOuts to one port are in it. With two writers `RingInv` is false: both may
  mark one frame, or one advance past a frame that is not marked (see above).

`DpdkProofs`, for any ports, lcores, bursts, descriptors and programs:

* `TypeCorrect` and `StoreInTableHolds`, flooding and shared bursts included.
  `TypeInv` adds that below the length that the variable, or a thread in
  send_packet, has of a burst there are buffers (`Filled`), which is what lets a
  length that the other thread has made stale still lead to a table that can be
  sent.
* `RefsCountedHolds`. The invariant says where each buffer is: in the pool, a
  transmit queue, a burst, among what an lcore received, or in the hands of a
  thread, and in one of these once (`PlaceInv`); and that what a thread in
  send_packet has read and stored is still so (`CallInv`), which holds because the
  burst is its own. Each step is shown to have one of eight effects on places
  (`Move`), and each effect to keep the invariant.
* `InOrderHolds`, from the same and `OrderInv`: a packet in the hands of its lcore is
  behind all others of that lcore, one in a burst behind those in the transmit
  queue (`Ahead`), and what is ahead is never younger (`Ordered`); `Owned` says
  that packets stay with the lcore that polls their port, and `Rounds` that an
  lcore receives from its own ports only, though it drains them all.

The only assumptions are `HashTabAssumption`, `ArrayAssumption`,
`UbpfAssumption`, `VmAssumption`, `SessionAssumption`, `FramingAssumption`,
`LearningNetAssumption` (the network is a tree, told by which port leads to
which host), `TxRingAssumption`, `DpdkAssumption` and those named in a theorem.

Every invariant, action property and refinement that a passing run checks is stated
by a theorem. Left to TLC is liveness: `AllHandled`, `AcceptedSent`,
`ProgrammedUnlessStuck`, `EveryBufferReturns` and `Arrives`, since TLAPS does not treat
fairness and ENABLED here; and the runs that expect a violation. Nothing is proved by
induction over data or about RECURSIVE operators, and no module declares one.

## 5. Not modelled

What instructions compute (`Vm` lets each of the two find what it may), their encoding and the size of the code buffer; the
links of libghthash below the level of lists, so also two threads inside one
operation, its rehashing and bounded buckets, which BPFabric never switches on,
and the hash functions; the text of strings that a program refers to; in the
DPDK switch the statistics, the options and the lengths of packets; a switch that
restarts in a network of learning switches; rings that fill up there; the
statistics programs and their applications, the CLI, whose thread reads the
registry while the reactor changes it; the message definitions, how mininet
starts and stops switches, and the disassembler.

## 6. Plan

What is left is a model, `Ght`: the links of the hash table below the level of
lists, with two threads in it.
