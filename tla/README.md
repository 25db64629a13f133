# BaseJump STL in TLA+

Formal models of the sequential logic of BaseJump STL, a library of
SystemVerilog modules and of the Python scripts that print some of them:
queues, clock-domain crossings, credit links, arbiters, on-chip network routers,
caches, CORDIC pipelines, hardened cells, register files and multipliers. Each
model is written from the source, checked with TLC on small instances, and, where the proof system reaches it, proved with
TLAPS for every value of its parameters.

The library has no program that runs from beginning to end. It has several
hundred modules, most of them an expression or a register, and some thirty in
which something can go wrong over many cycles: a queue that confuses full with
empty, a pointer read while it changes, a credit that gets lost, an input that
is never served. Part of the library is not written by hand: scripts compute
tables, name wires and instantiate cells by the thousand, and one index wrong in
a format string is wrong in every circuit printed. This project models the
former and the scripts that print the latter, and says below which components
are still to come.

## 1. The library and what is hard in it

### Queues (`bsg_dataflow`)

| component | state | operations | what makes it correct |
|---|---|---|---|
| `bsg_fifo_tracker` | two pointers, the last operation as two flops | enqueue, dequeue, both, reset | equal pointers are read as empty or full correctly after any sequence of operations |
| `bsg_fifo_1r1w_small_unhardened` | tracker, register file | handshakes `v_i/ready_param_o`, `v_o/yumi_i` | an exact bounded queue |
| `bsg_fifo_1r1w_small_hardened` | tracker, RAM with a registered output, bypass register | the same | the word is fetched the cycle before it is offered; a word that arrives in just that cycle is in neither place |
| `bsg_two_fifo` | one-bit pointers, `empty_r`, `full_r`, two slots | the same, and replacing a word while full | the flops never look at the pointers |
| `bsg_fifo_reorder` | tracker, valid bits, words | allocate an id, write by id, dequeue in order | no word passes an older id; a slot is clean when it is handed out again |
| `bsg_fifo_1rw_large` | RAM with one port, pointers, last operation | enqueue or dequeue, one a cycle | full and empty are exact |
| `bsg_fifo_1r1w_pseudo_large` | the above and a `bsg_two_fifo` behind it | both ends at once over one port | a fetched word lands a cycle later and must find room; bypassing words must not overtake |
| `bsg_fifo_1r1w_large` | serial-in-parallel-out buffer, RAM of double width, two output queues, a round robin on each side | the same | three paths of different length, one order |
| serialisers, `bsg_one_fifo`, `bsg_1_to_n_tagged_fifo`, `bsg_ready_to_credit_flow_converter`, channel tunnel | counters and words | streams with various handshakes | no word lost or duplicated; credits conserved |

### Between clocks (`bsg_async`, `bsg_link`)

| component | state | operations | what makes it correct |
|---|---|---|---|
| `bsg_async_ptr_gray`, `bsg_launch_sync_sync` | binary pointer, its successor, Gray launch flop, two synchroniser flops | count (w_clk), sample (r_clk) | the sample is a value the pointer had |
| `bsg_async_fifo` | a pointer pair each way, memory | enqueue (w_clk), dequeue (r_clk) | stale views may hide words or room, never invent them, and are brought up to date |
| `bsg_async_credit_counter` | token count crossing from w_clk, credit count in r_clk | give a token, spend a credit | never overdrawn, none lost, whatever the decimation |
| `bsg_link_source_sync_upstream/downstream` | the above, twice on the token side, with an async FIFO at the receiver | send, receive, return a token edge | the receiver does not look at `full`: the credits alone protect its buffer |
| DDR wrappers, PHYs, delay lines, `bsg_comm_link` | serialiser state, calibration | | not modelled yet, or a matter of time within a cycle |

### Arbiters and networks (`bsg_misc`, `bsg_noc`)

| component | state | operations | what makes it correct |
|---|---|---|---|
| `bsg_round_robin_arb` (generated) | `last_r` | grant, move the pointer by one of four policies | bounded waiting; an offer that stands if asked to |
| `bsg_arb_round_robin` | a thermometer code for each level of priority | grant, next | the next requester in turn; no lost turn when overridden |
| `bsg_wormhole_router` | five input queues, a flit counter each, an allocation register and an arbiter for each output | decode a header, allocate, forward, release | packets stay whole, owners keep outputs to the last flit, nobody starves |
| `bsg_mesh_router` | input queues, an arbiter for each output | decode on every hop, forward | the decoder asks only for turns the crossbar has, and arrives |
| wormhole adapters, concentrators, `bsg_barrier`, ready/credit bridges | various | | planned |

### Caches (`bsg_cache`)

| component | state | operations | what makes it correct |
|---|---|---|---|
| the pipeline of `bsg_cache` | a request in TL, one in TV, the outputs of four RAMs | accept, look up, answer | a RAM is read a stage before its contents are used, and stores land later than that |
| `bsg_cache_sbuf`, `bsg_cache_tbuf` | two entries each | enter a store, drain it, look up | a load sees a store wherever it is; nothing is entered into a full buffer |
| `bsg_cache_miss` | eleven states, the way chosen, the way flushed | fill, evict, flush, lock, allocate without a fill | tags, dirty bits and track bits stay in step with the data |
| `bsg_cache_dma` | its own state, a counter, a FIFO each way | move a block in or out, leaving out words never fetched | never waits for memory while memory waits for it |
| pseudo-LRU decoder, encoder, backup | none | name the victim, note a use | a locked way is passed over and the others keep their order |

### CORDIC units (`experimental/bsg_cordic`)

| component | state | operations | what makes it correct |
|---|---|---|---|
| eight scripts: exponential, logarithm, hyperbolic sine and tangent, square root, arctangent, sine, polar | a table of angles, a start value, one set of registers for each stage and a *valid* bit | turn the operand stage by stage, repeat certain iterations, stall on `ready_i` | the repeated iterations make the stages converge; a sum fits its width; every register has one driver; a stall holds every stage or none |
| the help script of the exponential | none | widths and bits of precision from a maximum | what it recommends neither overflows nor loses the result |
| the polar unit | the quadrant travels beside the vector | fold, turn, unfold | the quadrant arrives with its vector |

### Generated text and hardened replacements (`hard`, `bsg_noc`, `bsg_misc`)

| component | state | operations | what makes it correct |
|---|---|---|---|
| gate stacks, multiplexers, reductions for three processes | none | choose, reduce | the cells compute what the module they replace computes, for every width it takes |
| `bsg_rf_gen.py` and kin: register files, registers, shift arrays | latches behind gated clocks, flops | write one word, read one or two | a write changes its own word and no other; cells are not placed over each other |
| Booth multiplier, its hardened rows and `bsg_and_csa_gen.py` | four pipeline registers | encode, compress, add, in signed and unsigned form | carries that leave a block enter the next; the hardened rows add the same dots |
| `bsg_scatter_gather.py` and `bsg_sbox` | registered selects | concentrate active channels | every active channel gets a place of its own and gets its own words back |
| `bsg_mesh_to_ring_stitch.py` | none | wire a ring through a mesh | one ring through every tile, between neighbours |
| memory generator, oscillator and delay-line netlists | | | not modelled, see section 9 |

### Non-blocking caches, memory control, the rest

`bsg_cache_nb` (non-blocking: several
miss handlers over one DMA), the bridges that turn their refills and evictions
into DRAM, AXI and wormhole traffic, the DRAM controller `bsg_dmc` (command
timing, refresh), the tag configuration chain `bsg_tag`, id pools, CAMs, the
banked crossbar, iterative dividers and multipliers, counters. They are not
modelled; section 7 says in which order they would be.

### How the parts interact

Everything is a handshake. A producer raises *valid* and a consumer *ready*
(`ready_and`: both together move the word) or *yumi* (the consumer raises it
only while valid is up), and the word moves at the clock edge. Components are
composed by wiring those handshakes: the link contains async FIFOs and credit
counters, which contain Gray pointers; the routers contain two-word queues and
round-robin arbiters; large queues contain small ones. The composition is
combinational, so all components of a clock domain take their step in one edge,
and what goes wrong is a matter of which of them decides on a value that
another changes in the same edge or changed an edge ago.

The hard behaviours are these, and `PROJECT.json` lists them line by line:

* state inferred from history and not from contents (last-operation flops,
  parity of edges, flit counters, thermometer codes);
* decisions taken one cycle before their effect lands (RAM reads, registered
  grants), while both neighbours move on;
* values read in another clock domain, old and possibly caught in transition;
* resources protected by credits alone, with words and tokens in flight;
* pointers wrapping at sizes that are not powers of two;
* fairness that depends on a pointer moving exactly when a grant is accepted;
* what a pipeline stage looked up, after a request ahead of it has changed it;
* tables and generated text in which one wrong bit makes a request vanish.

## 2. Conventions

**A step is an edge.** In a module with one clock, `Clk` is a rising edge with
reset low and `Reset` one with reset high; the inputs of the edge are
existentially quantified within it. A module with two clocks has `WClk`, `RClk`
and `BothClks`: the two edges come in any order, any number of times, or in the
same instant. Register names are those of the source (`rptr_r`, `scheduled_r`),
outputs are operators named after the ports (`v_o`, `ready_param_o`).

**Handshakes.** A client may raise valid whether or not the other side is
ready, and may withdraw it again, unless the module documents otherwise. It
raises `yumi` only with valid, which the library's own assertions require.

**Power-up.** Models start after a first reset; memories that have no reset
start with a value `Junk` that no client ever wrote. `Reset` can happen again at
any time.

**History variables.** `q`, the words accepted and not yet taken, is in every
queue model. It is written only by the handshakes at the ports, so comparing it
with what the registers hold says that the component did what was asked.
`passed`, `owner`, `tickets`, `tx` play that part elsewhere.

**Seeded faults.** Definitions whose names start with `Mut` are wrong versions
of a definition that follows them. No specification uses them; each one, put
in its place, makes a property fail, which shows that the property can tell the
code from a plausible mistake. `PROJECT.json` pairs them under `mutants`.

**Metastability** (`AsyncPtrGray`). A flop that is clocked while its input changes
settles on any word between the old and the new one, each wire by itself:
`Sampled(old, new)`. Only the coincident edge `BothClks` makes that choice. A
Gray code makes it a choice of two; a binary code would make it one of many. The
seeded faults of `AsyncPtrGray` and `AsyncFifo` skip the launch flop, compare
the wrong bits, or take the wrong end for full.

## 3. The modules

### Queues

* `FifoSpec` is the abstract queue: a sequence of bounded length and the
  actions `Enq`, `Deq`, `EnqDeq`, `Reset`. Every exact queue below is shown to
  implement it by a refinement mapping that reads the sequence out of the
  registers (`contents`), never out of the history.
* `FifoTracker` has the pointers and flops of `bsg_fifo_tracker`, over
  `bsg_circular_ptr`; `SmallFifo`, `HardenedFifo` and `FifoReorder` extend it.
* `SmallFifo` is the tracker and a register file, `HardenedFifo` the tracker and
  a RAM which delivers a cycle late: `MemStep` is the read-ahead, the register
  that bypasses it is `BypassStep`, and their order of priority is the code's.
* `Fifo1r1wSmall` is the wrapper that chooses between the two. Its source says
  that they are functionally equivalent; the module puts both between the same
  clients and compares what they offer, cycle by cycle. Being given the same
  inputs their trackers are equal, so one stands for both; the state each
  implementation adds to it is its own.
* `TwoFifo` transcribes the minimised equations of `bsg_two_fifo` as `Flags`;
  `allow_enq_deq_on_full_p` is a constant. `ready_THEN_valid_p` changes only
  which side of the port the AND gate is on and is not a case of its own.
* `FifoReorder` keeps the ids given out as `tickets`. A client writes each of
  its ids once, in any order, even in the cycle in which it gets the id.
* `OneRwFifo` is the queue over one port that the two large queues share.
  `PseudoLargeFifo` composes it with an instance of `TwoFifo`. In `LargeFifo` the two
  output queues are sequences of at most two words - the theorems at the end of
  `TwoFifo` show that they may be - and a full one drops the word offered to it, as the circuit would,
  so that overflow shows as a lost word.
* `LargeFifo` asks for resets of at least `MinReset = 2` edges. `big_deq_r` is
  the one register without a reset; it follows `big_deq`, which falls an edge
  after the RAM's pointers are cleared. With resets of a single edge a pair on
  its way out of the RAM is delivered into the queues just emptied.

### Between clocks

* `AsyncPtrGray` is one crossing: the Gray code, the sampling of wires, the
  variables of both sides and the effect of an edge on them. It is instantiated
  once or more by each module below.
* `AsyncFifo` is two crossings and a memory. Resets are asserted by each side
  by itself; the procedure written at the head of `bsg_async_ptr_gray.sv` is
  counted by `w_flush`, `r_flush`, and a side may leave reset when it is done.
* `AsyncCreditCounter` has one crossing. `w_counter_width_lp` and the
  decimation are constants, as are the tokens present after reset and those
  given in advance.
* `SourceSyncLink` composes four crossings: the receive buffer is an
  asynchronous FIFO, the token wire a counter whose bit is seen by the sender
  as clock edges, the rising and the falling ones counted by two credit
  counters. The channel is a row of registers. The core side of the sender is
  left out: it is the FIFO of `AsyncFifo` once more.

### Arbiters and networks

* `RoundRobin` is pure: who is granted (`tag_o`) and where the pointer goes
  (`LastNext`) for the four policies of the generator. The thousands of
  generated lines for each size are one operator with the size as parameter, mapped to
  the generator, `bsg_round_robin_arb.py`, whose loops print them.
  `RoundRobinArb` puts requesters and a consumer around it; the policy is a
  variable that no step changes, so that one run covers all four.
* `ArbRoundRobin` models the scan of `bsg_arb_round_robin` as the code makes it,
  over the doubled request vector, against the definition of the next in turn,
  for the two-level arbiter built of two of them.
* `WormholeRouter` models the router with its input and output controls as one
  step: the header decode in dimension order, the requests filtered by the
  routing matrix, the arbiters, the allocation registers, the flit counters and
  the two-word input queues. Inputs are packets out of `Traffic`.
* `MeshRoute` sends one packet hop by hop over a mesh through
  `bsg_mesh_router_decoder_dor` and, when it arrives, sends a response back by a
  network of the other dimension order, as manycores built with the library do.
  The ten crossbar matrices of the source are tables in it.

### Caches

* `CacheLru` is the pseudo-LRU tree, pure: how a use turns its bits, which way they
  name, and how the backup finder turns them away from disabled ways.
* `Cache` is the blocking cache, a cycle to a step. `Pipeline` has the two stages and
  the buffers, `MissHandler` and `DmaEngine` the two state machines, `TagMem`,
  `DataMem`, `TrackMem` and `StatMem` the four RAMs with their single ports, `Memory`
  what is behind the DMA ports. The operators `tl_ready`, `sbuf_hazard`, `sbuf_yumi` and
  their like are the code's wires of those names: who may move in which cycle is
  the heart of this component, and it is kept exactly. What TV computes from the registers it
  loads (hits, track miss, miss) is computed once, on the way into them.
* Of a word one byte is modelled; `lane` and `full` say whether a request touches
  it and whether it writes the whole word, which is all that the kinds and sizes of
  loads and stores come to. `word_tracking_p` is part of `setting`, so that one run
  covers both.

### CORDIC

* `CordicTables` has what the scripts compute before they print: the angles, the
  product of the lengths, which iterations are repeated, the start values and
  the sizes the help script recommends. Python's floating point is replaced by
  series in fixed point, with more bits of fraction than the units have.
* `CordicWiring` has the `generate` blocks the hyperbolic scripts print: which
  iterations come from which block, where each register gets its value, and where two blocks
  meet.
* `CordicDatapath` is what one stage does to the registers and what is done before
  the first and after the last, for the eight scripts, in integers of the widths
  they declare.
* `Cordic` takes operands through a unit one stage to a step, and the result of
  one unit back through the unit of the inverse function, which is the reference:
  the logarithm of an exponential, the sine and cosine of an arctangent. `zero` is what is on the inputs
  at time zero, from which the arctangent unit takes its operand (section 8). `CordicPipe` has the same
  stages as a pipeline with its `ready_i` and `val_i`, operands as numbers, the
  iterations as a list. `PolarPipe` is the pipeline of the polar unit, whose stall,
  quadrant bits and `ready_o` are made differently from those of the others.

### Generated text

* `HardenedCells` has the library cells by their function and the muxes,
  reductions and gates that the scripts of three processes print of them.
* `HardenedStorage` clocks a printed register file, register or shift array
  beside the memory or register it replaces. What is modelled of the netlist is
  which cell has which wire on which pin, indices as the script computes them, and
  the column and row in which each cell is placed. `Written` says which arrays there
  are scripts for.
* `HardenedMultiplier` has the rows of the multiplier, unhardened and as the scripts
  print them, which add the same bits in another order, with the wrapper
  that puts hand-drawn blocks in place of a row. `Multiplier32` is the pipelined
  multiplier built of either kind.
* `ScatterGather` has the lines of the script's four tables and the
  registered selects of `bsg_sbox` around them. `RingStitch` walks the wires.

### Modules for TLC

`MCQueues`, `MCCrossings`, `MCNetworks`, `MCCache`, `MCCordic` and `MCGenerated`
each take the components of one subject. A variable `unit`, chosen at the start
and kept, says which of them is under test in a behaviour; the others stay as
after reset. So the state spaces add up and are not multiplied, and components
that are alike are asked the same question under one name. Components that really
interact are composed in the modules of the previous sections.

### How a model corresponds to the code

`PROJECT.json` maps each definition to the lines it stands for. As an example,
`SmallFifo` and the source:

| TLA+ | SystemVerilog |
|---|---|
| `rptr_r`, `wptr_r`, `enq_r`, `deq_r` | the registers of those names |
| `Succ` | `bsg_circular_ptr` with `max_add_p = 1` |
| `TrackerEdge(reset_i, enq_i, deq_i)` | both `always_ff` blocks of the tracker, and its pointers |
| `full_o`, `empty_o` | the assigns of those names |
| `Edge(reset, enque, d, deque)` | the instance of the tracker and the write port of `bsg_mem_1r1w` |
| `Clk`, `Reset` | `posedge clk_i` with `reset_i` low or high |

## 4. The runs

A run asks its questions of one subject. On two cores `queues` takes half a
minute, `networks` and `cordic` about one, the other three up to two.

| run | instance | distinct states | what it shows |
|---|---|---|---|
| `queues` | small queues in step, 3 slots; reorder, 3 slots; pseudo-large, 3 + 2 places, `early_yumi_p` set; large, 2 pairs in the RAM; 2 words | 74831 | exact flags, the same words from registers and from RAM, refinement of `FifoSpec`; each id gets its own word; a fetched word always finds room, nothing is lost or overtakes, half-rate receivers do not starve |
| `crossings` | queue of 2; credit counter with decimation 2, one token prepaid; link with a buffer of 4, decimation 2, 2 registers in the channel | 18831 | refinement of `FifoSpec` across clocks, resets on either side, neither side stalls; credits are neither overdrawn nor lost and come back; the receive buffer cannot overflow |
| `networks` | wormhole router at the centre of a mesh, 5 crossing packets of 1 to 3 flits; nine meshes up to 8 by 3 | 26064 | packets stay whole, every input that presses moves; every source reaches every destination by turns the crossbar has, and the answer comes back the same way |
| `cache` | 2 sets, 2 ways, 2 words to a block, 3 tags, 14 clients | 304976 | a load sees the last store, no block is twice in a set, buffers fit, no circular wait with memory, a miss ends in bounded time, locked blocks stay |
| `cordic` | nine units with sampled operands; four pipelines; the polar pipeline of one stage under a sender of either kind | 59013 | stages converge, no register overflows, operands come back from the inverse function; results in order, complete and delivered; the polar unit loses and swaps nothing while its receiver does not stall |
| `generated` | 5 inputs under four policies, 4 items at two levels; register files of 2 to 32 words, registers, shift arrays in three processes; nine operands in all pairs; switchbox of 1 to 11 channels; meshes up to 8 by 8 | 44951 | bounded waiting, a held offer stands, turns are taken; a netlist does what it replaces and cells are not placed over each other; products are right with either kind of row; active channels are concentrated; the ring is closed |
| `round_robin_hold_on_sr_claim`, `cache_flush_partial_store`, `cordic_sine_whole_circle`, `cordic_polar_quadrants`, `ring_ids`, `reduce_any_width` | | (violated) | section 8 |

### Why the bounds are enough

* *Three slots* is the smallest size that is no power of two, so that pointers
  wrap by comparison, and it tells an off-by-one from an exchange of the two
  ends. The proofs of section 6 remove this bound for both small queues, the reorder
  queue and the RAMs of the two large ones.
* *Two words* and a history: queues move words without looking at them, so a
  word out of place shows as a difference of two values. The link has one word:
  its properties count credits and places, and order is the business of the
  queues in it.
* *`early_yumi_p` set*: the harder setting, in which the room for a word may be that
  of a word leaving in the same edge. The proof covers both settings.
* *Two words deep* is the least an asynchronous FIFO can be, and has the
  tightest margins: both pointers wrap every four operations, and full inverts the
  whole pointer. The link's buffer is four deep and compares a bit as it is. The
  proofs remove these bounds, and those of the credit counter and the channel.
* *Two synchroniser flops* is what the code has. A third would add staleness,
  which an arbitrary ratio of the two clocks already provides.
* *Packets of up to three flits* through queues of two: a packet can be longer
  than the queue, so its head leaves before its tail arrives. The five packets of
  `Crossing` meet at the same outputs from every side the matrix allows.
* *Five requesters* give a loser a choice of winners to lose against and the
  pointer an odd wrap. The proofs of section 6 remove this bound.
* *The cache.* Two ways and three tags: a block is replaced when the two others of its
  set are loaded. The second set is there to have a request in TL look at another row
  than the one TV changes. Two words make a burst with a first and a last word and let a block
  be partly fetched. Four ways, where the tree has more than one level, are checked by
  an `ASSUME` over every state of its bits and every set of disabled ways.
* *Its clients* make a few kinds of request each, in any order and for ever, and are
  chosen so that every kind meets every part of the cache it uses: with and without word
  tracking, whole words and parts, atomic operations, flushes by address and by way,
  invalidations, locks. `stalls` says which handshakes the other side may delay;
  all of them together with all requests would be out of reach. Two of the
  tags are alike to every client and are declared symmetric. No
  client of the passing run both flushes and stores to parts of words with tracking
  on: that is the defect of section 8, which a run of its own shows.
* *Where it starts*: the RAMs hold anything at power-up, and the client first clears
  every way with `TAGST`, as the library's test benches do. The tags at power-up are
  the same in all ways. The cache is not reset in operation, since every reset is
  followed by the same sweep.
* *Its memory* does not begin to read a block while it is writing it. The cache
  relies on this: a block is fetched again as soon as its eviction has left the
  DMA engine. A bridge with channels that are independent of one another, as
  `bsg_cache_to_axi` has, must get it from what is behind it.
* The meshes use the full range of the coordinate's width in X, where
  `my_x + ruche_factor` wraps.
* *CORDIC units* have eight bits of fraction and six positive stages, or eight for the
  circular functions, where the makefiles ask for more of each. The repeated stage (the fourth)
  is among them. Operands are every n-th of the range in which a unit
  converges. The exponential is there three times, with the sizes that the help script recommends for
  maxima of 8, 31 and 174. The reference of a result is the unit of the inverse
  function, so an error that two scripts share would not show.
  The pipelines have every kind of `generate` block, with and without negative iterations;
  three operands in flight are enough for a stall to hold one, pass one and stop one.
* *Register files* are as large as the scripts allow. An address of five bits, a
  decoder of three levels and a word select of eight groups occur only at 32 words. Two
  bits to a word show a bit in the wrong column. Files of up to four words get three
  writes in a row, in every order and with every word; of eight two, of more one: a
  write that changes another word is seen after one, that a word stays after two.
* *Operands of the multiplier* are the ends of both ranges, patterns that make
  every Booth digit +2, -2 or 0 in a row, and others: nine of them, in all pairs,
  signed and unsigned, with hardened rows and without, in a pipeline in which signed and
  unsigned products follow each other. They are samples; for all operands
  there is the proof of the rows in section 6.
* *Eleven channels* are more than any set of active ones needs to go wrong in; every set
  of up to eleven is tried. For up to four channels the set changes while the switch runs.

## 5. Liveness and the fairness it rests on

The library's modules are passive: nothing happens without a clock edge or
without a client. Fairness therefore says two things and no more.

*Clocks keep running while something is under way.* In `MCCrossings` a side of the
queue whose synchronisers are not up to date gets an edge (`WStale`, `RStale`), and
so does the credit counter (`Stale`); once they are up to date nothing is
promised, and the edge need not enqueue or dequeue. From this alone follows
`NeitherSideStalls`: what was put in is seen, and room that was made is seen,
without anyone having to act. In the link the channel, the core of the receiver and the
token wire move while there is something to be moved (`IoMoves`, `CoreMoves`,
`TokenMoves`); the receiver's core must take what it is offered, or its buffer
fills for a good reason. From that follows `CreditsComeBack`, for the counter
and for the link.

*Neighbours do not refuse for ever*, where the property is about progress past
them. For the router (`NoInputStarves`): the clock runs while a flit is offered, each
neighbour accepts at times (`[]<>(refused[o] = {})`), and a sender that has begun a
packet goes on with it - a sender that stops in the middle keeps its output, which is
how wormhole routing is. A packet in a mesh goes on while it can (`ComesHome`). For
the CORDIC pipeline the clock runs and the receiver is ready at times
(`[]<>ready`); then every operand accepted is `Delivered`. No client is ever
obliged to begin anything.

For the arbiters waiting is bounded outright, by a count of the times a request
was overtaken, so `BoundedWait` is an invariant and needs no fairness. For
`reset_on_sr_p` it is checked with a consumer that accepts every offer: with one
that does not, the pointer goes back to the same place each time a request
appears alone and is refused, and no bound holds.

The cache gets the same treatment: `AnsweredInTime` bounds the cycles a request
spends in TV when memory does not stall, by the length of a fill, of an eviction and
nine cycles more, so it says more than that an answer comes in the end. The bound is
reached, and no smaller one holds: three exchanges in a row leave two entries in the store
buffer and, by the hazard, an empty TL, into which another one enters while the miss behind them
waits for the buffer. The last client of the atomic operations does that.

## 6. The proofs

Eight modules hold theorems. Most need no assumption beyond those the code
makes of its parameters: at least one slot (`ElsAssumption`), at least one input
(`InputsAssumption`), at least one item, pointers and coordinates of the widths the code gives
them, as many iterations as the scripts take, the sizes and cells that the storage scripts have
gates for (`ArraysAssumption`); and, for the large queue, resets of two
edges or more, which its procedure needs (section 3). Those about the cache take its
settings as they are (`CacheAssumption`, `SettingsAssumption`), and `LocksHold`, `LoadsAreRight` and `MissesEndInTime` name what they need of the
victim tree, the first two also something of the client, in their statements. Data, memory
contents at power-up and client behaviour are otherwise arbitrary; where a model writes a mark
for "no word", the theorem assumes that it is not itself a word.

| module | about | stated for the run |
|---|---|---|
| `QueuesProofs` | small queues of registers and of RAM, reorder FIFO, pseudo-large and large FIFO | `ExactFlags`, `SameWords`, `ImplementsFifo`, `OwnWord`, `PseudoIsExact`, `LargeIsExact` |
| `TwoFifo` | two-word queue | |
| `CrossingsProofs` | asynchronous queue, credit counter, source-synchronous link | `AsyncImplementsFifo`, `NeverOverdrawn`, `CreditsConserved`, `NeverEnqueOnFull` |
| `GeneratedProofs` | both round-robin arbiters, channel switchbox, ring through a mesh, storage, muxes and reductions of cells | `BoundedWait`, `KeepsOffer`, `GrantsNextInTurn`, `Concentrates`, `RingIsClosed`, `StorageMatches`, `OneCellPerSlot`, `CellsMatch` |
| `NetworksProofs` | wormhole router, mesh routing | `WholePackets`, `RoutesExist`, `Retraces` |
| `CacheProofs` | blocking cache | `OneHit`, `BuffersFit`, `NoCircularWait`, `LockedStays`, `LoadsSeeLastStore`, `AnsweredInTime` |
| `CordicPipeProofs` | printed pipelines | `InOrder`, `EveryIteration` |
| `HardenedMultiplierProofs` | rows of compressors, gates by kind | |

Where a run puts several units side by side, the theorem is about the run's own
specification: its invariant is that of the unit, together with the lemma that
the unit takes a step of its own or none, whichever is under test (`FifoAlone`,
`CreditAlone`, `LinkAlone` and their like).

### `QueuesProofs`: the pointer queue, for every number of slots

`ExactFlags` is not inductive: nothing in it says why equal pointers with `enq_r`
set are a full queue. The inductive invariant is

    IInv == TypeOK /\ PtrInv /\ FlagInv /\ MemInv

where `PtrInv` says that the write pointer is `Len(q)` slots ahead of the read
pointer and that `q` fits, `FlagInv` that a queue that is full has an enqueue as its
last operation and one that is empty a dequeue, and `MemInv` that the slots
from the read pointer on hold the words of `q`. The argument runs thus:

1. arithmetic of `Ahead` and `Succ` modulo the number of slots, at the head of the module: `AheadSucc`,
   `SuccAhead`, and `AheadInjective`, which says that two different distances
   lead to two different slots except for 0 and `els_p`;
2. so equal pointers mean an empty or a full queue (`EqualPointers`), and
   `FlagInv` says which (`FlagsFromInv`, which gives `ExactFlags`);
3. so a client enqueues only into a queue with room and dequeues only from one
   with words, and each combination of the two keeps `IInv` (`ClkInv`, by cases);
4. reset establishes it again (`InitInv`, `NextInv`), hence `InductiveInvariant`;
5. `contents`, read out of the registers, equals `q` (`ContentsAreInFlight`),
   and each edge is a step of `FifoSpec` or changes nothing (`StepImplements`),
   hence `Refinement`.

The theorems are `TypeCorrect`, `FlagsAreExact`, `OrderIsKept`, `NoCollision`
and `Refinement`.

### `QueuesProofs`, second part: registers and RAM are equivalent

`FunctionallyEquivalent` states that both implementations offer the same word
whenever they offer one. Beside `IInv` it takes

    HardenedInv == HardenedTypeOK /\ OfferInv /\ RamInv

`OfferInv`: what the RAM's output or the bypass register shows is the oldest word.
`RamInv`: the *other* words in flight are in their slots. The oldest need not
be, since a word that is caught by the bypass register is never written, and
that is the reason why the obvious invariant, that the RAM holds the queue,
fails. `HardenedClkInv` goes through the edges: an enqueue into an empty queue or
beside the dequeue of the last word is just when the two addresses meet
(`SameAddress`, from `AheadInjective`), and a dequeue that leaves a word behind
reads it from a slot that `RamInv` vouches for.

### `TwoFifo`: the two-word queue, for both settings

    IInv == TypeOK /\ PtrInv /\ contents = q

The flops divide the states in three (`ThreeStates`: no word, one, two), and
`ClkInv` takes each through the legal handshakes. `FlagsAreExact` and `Refinement`
follow; the proofs are few and stand at the end of the module. No run is about `TwoFifo` alone; it is checked as a part of the
pseudo-large queue in `queues`, and the proof is what allows `LargeFifo` to use sequences.

### `QueuesProofs`, third part: words leave in the order of ids, for every depth

`Held` says what the slots mean: the ids that are out are `Len(tickets)` slots from the
read pointer on, in order; a slot of theirs is marked valid exactly when its ticket has its
word, and then holds it; no other slot is marked. The last is what makes an id clean when it
is given out again. `OutInv` adds the tracker's flops. `ReorderInvariant` is the
induction over allocating, writing any ticket, dequeuing, and any two or three of
them in one edge; `DeliversInOrder` reads off that what is offered is the word of the
oldest ticket, and that it is offered as soon as it is there. `OwnWordInTurn` says so of
the run, where the model has to stand for the words that were written.

### `QueuesProofs`, fourth part: one port to the RAM, for every size

A word of the pseudo-large queue may go through the RAM or past it, and leaves the RAM an edge
before it enters the output queue. For some words `L` of the output queue and `B`
of the RAM:

    PseudoInv == PseudoTypeOK /\ \E L, B : PseudoHolds(L, B) /\ FetchInv(L, B) /\ RateInv(L, B)

`PseudoHolds`: pointers, flops and memories stand for `L` and `B`, and the words in
flight are `L`, then the word fetched if any, then `B`. `FetchInv`: a word was fetched
only when it has a place to go to and one that it came from, which is why
`big_enq` may write without looking at `full_o` in the cycle after. `RateInv` is what
`NeverStarved` needs and does not say: while half-rate clients are served, an output
queue runs empty only because its word was taken with the next one on the way, and
one with room does not fetch only in a cycle that a client used.

A word moves in one of a few ways (to the output queue past the RAM, into the RAM, out
of it, and any of these while one is taken). `OrderKept` says once, of sequences, that
none of them changes the order; `LittleStep`, `BigStep` and `PseudoControl` that an edge
makes one of these moves. `PseudoContents` reads the words out of
the registers, and `PseudoKeepsWords` concludes for the run.

### `QueuesProofs`, fifth part: words in pairs, two lanes and three places

The words of the large queue are dealt to two output queues, the first to the one that `tag_r`
points at, and the newest wait in the serial converter. For some words `D` of the output queues
together and some pairs `P` of the RAM:

    LargeInv == LargeTypeOK
                /\ reset_edges = MinReset => \E D, P : LargeHolds(D, P) /\ LargeFlow(D, P)
                /\ reset_edges # MinReset => the RAM's pointers are cleared

`LargeHolds`: `D` dealt out in turn is what the two queues hold and `rr222_head_r` is whose turn
it is next; the words in flight are `D`, then the pair just fetched, then `P` flattened,
then the converter's. `LargeFlow` is about numbers only, and it is what the checked property does
not say. With `T` words in the output queues, `p` pairs in the RAM of `N` and `n` words in the
converter, a cycle that has just fetched a pair has

    1 <= T <= 2,  p < N,  n = 3 => p = N - 1

and any other

    p # 0 \/ n # 0 => T >= 2,   p # 0 /\ n >= 2 => p = N,   n = 3 => p = N.

From these follow that a fetched pair finds room in *both* queues (which is why nothing looks at
`ready` then), that the converter fills up only when the RAM is full, so that no input is refused
with fewer than `els_p` words in flight, and that the output is empty only when everything is.
`LControl` goes through the cycles: a pair arrives, and may go beside another that is spilled; words
bypass an empty RAM; a pair is fetched; or nothing moves. `LargeMove` says the same of sequences, and
`LargeOrder` that none of it changes their order. The last edge of a reset is where
`MinReset >= 2` is used: `big_deq_r` has no reset and copies the RAM's `yumi`, so it is clear one
edge after the pointers are. The theorems are `LargeInvariant` and `LargeKeepsWords`.

### `GeneratedProofs`: bounded waiting, for every number of inputs

`Turn(n, last_r, i)` is the place of input `i` in the order of service. The
invariant trades places for grants:

    WaitInv == \A i \in Inputs : IF i \in reqs_i
                 THEN passed[i] + Turn(inputs_p, last_r, i) < inputs_p
                 ELSE passed[i] = 0

1. every set of numbers has a least one (`Least`, from the library's
   theorem on well-founded relations), so the operator that picks the winner picks
   a request with the first turn (`GrantedFirst`, `SelFirst`);
2. the pointer goes one of four ways, whatever the policy (`PointerMoves`); a policy
   moves it anywhere else only on a grant to the only request;
3. in each of the four a request that was not granted comes one place nearer for a
   grant and no farther without one (`TurnsLeft`).

`OfferInv` adds that after a refused offer under `hold_on_valid_p` the pointer
is just before the input offered, whose turn is then the first. The theorems are
`WaitIsBounded` and `OfferIsKept`. `WaitIsBounded` covers the `hold_on_sr_p` logic as
it is generated: its reversed bits cost nobody a turn.

### `GeneratedProofs`, second part: the thermometer-coded arbiter, for every number of items

The code of a level is `{i : i < last}` for the item last granted (`ArbInvariant`). The
edge that the doubled scan looks for is then at the highest request below that item, or, when
there is none, at the highest of all (`TurnsAreTaken`): least and greatest elements of
finite sets of numbers exist by the library's theorem on well-founded relations.
`GrantsInTurn` is the property of the run, of both levels and of their step.

### `CrossingsProofs`: Gray pointers, and queues and credits across clocks

**Pointers** (for every width). Counting on changes one digit from 0 to 1 and all
digits below it from 1 to 0 (`Carry`, the least counterexample being half of a smaller one),
so a Gray code changes in one wire (`OneWire`, wrapping included) and a flop that
catches it changing holds the code before or the code after (`CaughtOld`). A code tells
its pointer (`GrayTells`), and half way round the circle exactly the two top wires differ
(`Opposite`), which is what `full` compares. Induction over the width would need an
operator as a parameter, so each of these takes a least counterexample instead, by the
library's theorem on well-founded relations.

`Trail(ptr, sync1, sync2, a, b, w)` says that the two flops of the other clock hold the pointer
as it was `a` and `b` increments ago, with `a <= b`. `TrailEdge` is what any edge, of
either clock or of both at once, does to it. `Behind` bounds the age.

**The queue** (for every depth). `AsyncImplementsFifo` needs that each side's idea of
the other is old in the safe direction and *not older than a lap*:

    LiveInv == pointers Len(q) apart, the slots between them hold q,
               Behind(w_ptr_r, w_sync1, w_sync2, Len(q), PtrWidth),
               Behind(r_ptr_r, r_sync1, r_sync2, Depth - Len(q), PtrWidth)

The reader's view of the writer is at most as old as there are words, the writer's of
the reader at most as old as there is room. The step that matters: a pointer exactly
that old would show empty (or full), so a client that acts on the flag makes the bound one
smaller just when the flag's view was one better (`FlagsTrue`, from `BehindFresh`). `ResetInv`
follows the procedure at the head of `bsg_async_ptr_gray.sv`: how many edges have
cleared how much of the chain, until `ThroughReset` finds `LiveInv` true of the empty queue.

**The credit counter** (for every width, decimation and number of tokens). The counter never
knows how many credits it holds; it compares what it spent with a token count that is old. `Account`
says that what it spent is what came back less what is held, modulo the counter;
`CreditLive` adds that the token count it sees is at most as many tokens old as there are whole
tokens among the credits held. The counter stops on equality of the upper bits, and
`SpentOut` shows that this is exactly the state with nothing left of what it sees.
`NeverOverdrawn` follows: overtaking the token count, where the equality would never
be met again, needs a credit more than are held.

**The link** (for every depth, decimation and length of the wires). `CreditsConserved` is inductive only
together with the above for both counters, and it does not imply `NeverEnqueOnFull`: the credits may be
right while the write side of the receive buffer still works with an old read pointer. Its invariant is

    LinkInv == LinkTypeOK /\ CreditsConserved /\ BufferInv /\ StaleInv

`BufferInv`: the pointers of the buffer are as far apart as there are words sent and not taken that
are no longer on the wires. `StaleInv` relates the ages of three crossings: the read pointer that
the write side has (`a`, `b` increments old) and the two token counts that the sender has. The sender is
never told of credits for words of whose leaving the write side has not been told:

    b <= Returning + (pb + nb) * CreditsPerToken

with `Returning` the credits counted towards the next toggle or on the token line and `pb`, `nb` the tokens
that the sender has not seen yet. Both sides of the inequality age by the same edge, that of `io_clk`,
and that is why it holds: the token goes the longer way. Every step of the link is a `LinkCycle` (one record of
what each domain does, `LinkCycleOf`), and `AccountStep` follows one through all four parts. An arriving
word then finds the buffer, seen through `b`, short of full by at least the word itself (`RoomForArrivals`),
so `NeverEnquesOnFull`.

### `NetworksProofs`, first part: packets stay whole, for every routing and traffic

`WholePackets` looks at one flit leaving an output. It rests on three relations between
registers that are nowhere compared in the code:

    WormInv == RouterTypeOK /\ PathInv /\ StreamInv

`PathInv`: an input in the middle of a packet (payload counter not zero) is scheduled at exactly one
output, which is the one its packet goes to and which waits for as many flits as the input has counted;
an output that waits is held by such an input. `StreamInv`: what waits in an input's queue continues
the packet that the outputs wait for, and what arrives continues what waits. An output grants one input
(`GrantsOne`, by ranks that are its own and least elements), only headers of packets routed to it ask
for it (`DecodeTowards`), and `EdgePath` and `EdgeStream` take the two parts through an edge in which
all outputs act at once.

### `NetworksProofs`, second part: the way there and back, for every mesh

`RoutesExist` compares three things that are written in three places: the decoder, ten tables of
turns, and the layout of the links. It does so in whatever state a packet gets into, so the question is
by which ports a packet can be where. `MeshInv` says it (`OnTheWay`): on the first axis a
packet has come by ruche links, and by local ones only over less than the length of a ruche link; it
has come by a port of the second axis only once it is done with the first; and there by
a ruche link only if what is left is a multiple of one. This is all that the decoder needs to
ask for one output:

* `FarMeans` shows that the two guards against under- and overflow do what they are there for: in
  arithmetic modulo `2^CordWidth`, `FarLt` and `FarGt` compare the true distance with the ruche factor.
  `MeshAssumption` is all it needs: the coordinates are wide enough for the mesh and for a ruche factor.
* `FirstAsks` and `SecondAsks` say what each axis asks for; on the second it depends on
  the port the packet came by, and `MeshInv` excludes the ports for which the code asks for nothing.
  `Decided` puts them together: one output, never two and never none.
* `AsksForTurns` lists the turns that are asked for (`MayTurn`), once for all networks;
  `TurnsAreThere` compares that list with each of the ten matrices.
* `HopIs` and `Lands` follow the packet over the link: it is still in the mesh, and `MeshInv` still holds.

`Retraces` needs to know more than where the packet is and whence it came. The response decides in the other
order, at places where it has other distances before it; that it decides for the link by which the request came
is a matter of remainders. `Returns(c, m)` says where a response goes from `c`, which depends on nothing but
`c` and the ends; the trail is then a chain of `Returns` (`TrailInv`), which grows with each hop of
the request and is followed by each hop of the response. What makes it grow is the pace (`PaceInv`), where
`e` is the way behind and `d` the way before, on each axis:

    first:   IF d > slack THEN e % R = 0 ELSE (e % R) + d <= slack
    second:  d % R # 0 => e + (d % R) <= slack

with a slack of `R - 1`, and of `R` in a depopulated network, where a ruche link neither begins nor ends
at a turn. `FirstPace` and `SecondPace` are the arithmetic of it: a step keeps the pace, and the sum `e + k`
that the response will see tells of which kind the step was. The package makes the claim for half ruche
networks; it is proved here for all.

### `CacheProofs`: the pipeline, its miss handler and its DMA engine

For any number of sets, ways and words in a block, any tags and requests, with word tracking and
without, and any memory that serves one packet at a time:

    CacheInv == TypeInv /\ SweepInv /\ TvInv /\ MissInv /\ TagsInv
                /\ OneHit /\ BufInv /\ BurstInv

None of the checked properties is inductive. `OneHit` says nothing of why a block that the handler
is about to put into a way is in no other: it is because TV still has the tags that are in the RAM
(`TagsInv`), because these showed no hit (`TvInv`), and because the state of the handler tells what
brought it there (`MissInv`), so that a way is written only after a miss for that block or for the way that
already has it. TL's copy may be stale only while TV misses, after which it is read again. Before the
client has cleared the tags, at most the ways it has been to are known to be invalid (`SweepInv`, with the
arithmetic of set and way). `BurstInv` counts the words of a block on both sides of the queues
to memory. `NoCircularWait` then says no more than that an engine that waits has its peer in the middle of
the same block.

`BuffersFit` is the one where the code looks wrong at first: nothing keeps the track buffer from
being written when it is full. `BufInv` counts, beside its entries, the stores of whole words on
their way to it in TL and TV. Such a store does not read the track RAM in the cycle in which it enters TL,
so the buffer's oldest entry drains in that cycle.

`NextActs` splits a step into what enters TL, what the handler does, what the engine does and what
memory does; `TagPort` says what is written to the tags, from which each conjunct is taken through
in a lemma of its own; `CacheStays` puts them together.

`LocksHold` states that a locked block stays in its way until it is unlocked, flushed out by name, or
has missing words fetched (see section 8 for the last). It takes

    WayInv == the stat RAM's row that the handler chose a victim with is still the RAM's row,
              and a victim that is locked means that all ways are

The handler reads the row once and writes the tags states later; nobody else writes that row
in between, since the pipeline stands. Two assumptions are in its statement. `NamesEnabledWay`
is what the handler expects of the victim tree: the way that the bits lead to, after the backup finder
went over them, is not a disabled one as long as there is one. The tree is defined with
recursion and powers of two, which is out of the prover's reach; TLC evaluates it for two and four ways
(`VictimsFound` in `MCCache`). The other is that no set has all ways locked, which the
code asserts of its clients (`bsg_cache.sv:1195`).

`LoadsAreRight` states that a load and an atomic operation answer with what was stored last. It takes

    DataInv == WordInv /\ CleanIsWhole /\ EarlyInv /\ RowInv /\ TlData /\ TvData
               /\ CopyInv /\ FillData /\ EvictData /\ OverInv

`WordInv` says where the byte stored last is: in the newest entry of the store buffer that
writes it; if there is none, in the data RAM, provided that a way holds the block and the
word is tracked (in the track RAM, or on its way there in the track buffer); in memory if the way is clean or the word not
tracked, or if no way holds the block. `Holds` is not the valid bit alone: a way being flushed out
holds its block until the last word is gone although its tag may say otherwise, and a way being filled holds
nothing until the last word is in. What the pipeline knows is compared with
that: `TlData` (the outputs of the RAMs are the rows TL asked for), `TvData` (what TV would
answer, from its copies and the bypass, is what was stored last, and it goes on to be so while an older store drains under it),
`CopyInv` and `OverInv` (the handler's copies, and the word it caught as it came in). `FillData` and
`EvictData` follow a block through the queues to memory word by word. `CleanIsWhole` is the reason that the
masked dirty bit of the finding in section 8 does no harm to other clients.

A step is taken apart once more: while the handler rests (`START`, or a miss just being answered) the buffers and TV act; while it
works the pipeline stands and the buffers are empty (`HandledEdge`), so that each state of the handler
touches one row. `WholeStays`, `WordStays`, `TvKnows`, `CopyStays`, `FillDataStays`, `EvictDataStays` and
`OverStays` take one part each through the step; `DataStays` joins them. Before the proof, TLC
evaluated `DataInv` in all the states of the run `cache`.

Two hypotheses are in the statement: `NamesEnabledWay`, as above, and `Matched`: with word tracking,
a client either never flushes a block that it keeps (`AFL`, `TAGFL`), or never reads the track bits to
write (stores to a part of a word, atomic operations). A client that does both meets the finding
`cache_flush_partial_store`, so the theorem is false without it. The clients of the passing run satisfy it, and that of
the finding's run does not.

`MissesEndInTime` states that a miss is answered within the cycles that the words of an eviction and of a
fill take, and nine more, for blocks of any length. It takes

    OtherInv  == memory reads the block that TV asked for, and the block evicted is another
    PromptInv == without stalls at most one word waits to go to memory, none once the eviction
                 is over, and the next word of a fill is there when the engine wants it
    TimeInv   == how long a request has waited at most in each state of the handler and the engine

By the first two a packet is taken in the cycle it is offered (`PacketsTaken`), so the handler never
waits for a write of the same block, and a word passes in every cycle (`WordsPass`). What is left is the
wait for the buffers (`DrainsOn`): in each cycle both of them drain, or a request enters TL, which
it can do only once. So it takes three cycles (`ToDrain`), and six are the handler's own. The
prover would not have the bound of eight that the run alone had been content with, and the client
that exceeds it is now in the run. `NamesEnabledWay` is needed for the way evicted to be one.

### `GeneratedProofs`, third part: the channel switchbox, for every number of channels

`SboxInv` says that the selects are the lines of the tables for the channels that were active an edge
ago. The rest is counting (`PlaceOfEach`): the number of active channels below a channel differs
from channel to channel, being the size of a proper subset, and is less than their number; so it takes every value from 0
on, which is why the `CHOOSE` of the forward table, the script's search, finds a channel.
The places behind have the index of an idle channel (`SpareIsIdle`), and an idle channel the last
place, which is nobody's as long as it is idle itself (`SelectsNameEachOther`).

### `GeneratedProofs`, fourth part: the ring, for every size of mesh

The largest size that the script makes meshes for, `topX` and `topY`, is a constant, eight by eight in
the runs as in the script. The theorem is for any.

1. `FlattenSeq`, which stands for the script's nested loops, is a recursive function, and nothing
   unfolds it for a length that is not given. So there is such a function for every length
   (`FlattensExists`) and it holds the pieces one after another (`FlattenPieces`): by `Least`, a least length
   for which that failed would follow one for which it holds.
2. Hence where each tile is in the order, in closed form (`Along`): line `a` begins at `a * n` and every second one is
   read backwards; the way back is behind all of them (`OrderByColumns`, and `OrderByRows` for an odd
   number of columns).
3. The tile that comes next geometrically (`Onward`) has the next place, and the one after the last place is the
   first (`OnwardAlong`, by seven cases; an even number of lines is needed where the last one ends
   beside the way back). So every place is taken (`EveryPlaceTaken`), the search for a tile in the order finds
   only its own place (`PlaceFound`), and the wires are as they should be (`EveryTileWired`).
4. `RingInv`: the bit's place is that of the tile it set out from and the steps since, round the
   number of tiles.

### `GeneratedProofs`, fifth part: what is written as cells, for every size

The run has some arrays of two and three bits. The theorems are for any set of
arrays that the scripts write (`Written`): a positive number of bits, the processes that
have the script, and the numbers of words for which it has gates.

1. What a gate computes is settled once by its kind, NAND, NOR, AND-OR-invert or inverter (`NandGate` and
   those after it, in `HardenedMultiplierProofs`). After that no proof looks at the name of a cell,
   only at the kind of the cell a process uses (`RfCells`, `MuxCells`, `EveryReduceCell`).
2. A register file reads through a tree of gates. `Leaf`, `Low` and `High` say which bit of the chosen word,
   upright or inverted, a gate of each level shows; `TreeShows` goes up the tree. The flattened
   index of a port's bit is taken apart again by `PortAndBit`.
3. `StoredWell` is the invariant: the flops hold `stored(held)`, which is the word, or its inverse
   in register files of eight words and more, whose tree inverts it back. `WriteRecords`,
   `ShiftRecords` and `ClockRecords` carry it through a step of each kind of storage. `StorageOfCells` then
   reads the flops as `FileReads` does, with no regard to how they came to hold it.
4. `EveryCellHasASlot`: the rows of a column's cells lie inside it (`RowsInside`), no two are the same
   (`RowsApart`), and there are as many (`AsManyRows`).
5. `MuxesSelect`: two to four inputs of any width. `ReductionsReduce`: each width the
   scripts have, whatever the inputs, while the run tries vectors with at most two zeros.
   `CellsCompute` puts them and `AddersWithAnd`, the adders with any number of rows, together for the run.

### `CordicPipeProofs`: the printed pipelines

* `OneDriver`: for four to eleven positive stages and any number of negative ones each register
  is driven by exactly one of the printed `generate` blocks, and by the register before
  it. `TwelveStagesCollide`: with twelve, which the makefiles ask for, two
  blocks drive one register.
* `ResultsInOrder`, for every number of stages and every receiver: the operands in
  the pipeline are consecutive numbers, from the output backwards, with or
  without gaps; a stall keeps all of them and an edge moves all of them.
* `EveryIterationMade`: the operand in a stage has been through the iterations of the
  stages before it, in order, including those repeated.

### `HardenedMultiplierProofs`: compressor rows of any length

A row of compressors takes five bits a column and passes carries on to its left. Rather than
adding up a whole row, the proof says that
*every column* keeps its sum: what enters a column, with the carry from its right,
equals what leaves it, with the carry to its left counted twice. `HardCompressorAdds` and
`RepCompressorAdds` say so of the two orders of addition, `HardRowsAdd` of the hand-drawn
blocks that the wrapper puts in the middle, at the low end and at the high end of a Booth row,
assuming that no carry enters at the low end, where the multiplier connects zero; `AndAddersAdd` of the
rows of adders that take an AND, and `AddersWithAnd` of all of them together, for any number. That the
rows together are the product stays with TLC.

### What is only model-checked

Liveness is out of the prover's reach and stays with TLC: that neither side of the queue
stalls, that credits come back, that packets move. With TLC stays also what is
computed bit by bit over whole words, which the numerical properties of the
CORDIC units (`Converges`, `FitsWidths`, `RoundTrips`, `NoneOvertakes`), the whole product (`Product`) and
the victim tree of the cache (`NamesEnabledWay`) come to.

## 7. The plan

Done: the queues, the crossings, the credit loop of the link, the arbiters, the
wormhole router, mesh routing, the blocking cache, the CORDIC units, the generated cells,
register files and multiplier, the switchbox and the ring; the proofs of section 6. What
could follow, most important first:

1. *Mesh router under contention*: the two-word queues and arbiters of
   `bsg_mesh_router_buffered` composed over a small mesh, for freedom from deadlock.
2. *Wormhole concentrator and adapters*, which reuse the router's controls; the
   ready/credit converters; the channel tunnel with several credit loops in one
   channel.
3. *Barrier*: the sense-reversing tree against an abstract barrier.
4. *Non-blocking cache*: miss handlers sharing tags and DMA.
5. *DRAM controller*: command sequencing against the timing counters, refresh
   against a stream of requests.
6. *Tag chain, id pools, serialisers, CAM, banked crossbar, divider*: each a
   small module with an abstract specification.
7. *The link's reset procedure* in its four steps, and the sender's core side.

Of the proofs nothing is left that the prover can be expected to find. The numerical properties
of the CORDIC units and the product of the whole multiplier are sums over the bits of a word
and stay with TLC.

## 8. Where the code and what is said of it differ

*`round_robin_hold_on_sr_claim`.* With `hold_on_sr_p` the pointer is to stay
when the only request is the one of highest priority
(`bsg_misc/bsg_round_robin_arb.py:8-10`). The generator prints the comparison with
its bits reversed, so it stays for a different input. Waiting remains bounded
(`WaitIsBounded`): the bug costs efficiency and no progress.

*`cache_flush_partial_store`.* With `word_tracking_p`, a store to part of a word
that finds its block clean and the word not fetched leaves the block clean: the fill
masks the dirty bit (`bsg_cache_miss.sv:477`), and the answer that follows does
not write it either, since `miss_v` is still up (`bsg_cache.sv:1117`). The block comes to be
clean with words missing when a store of a whole word has allocated it
and a flush has written it back. When it is replaced the store is gone, although the
cache is "write-back" (`bsg_cache.sv:7`).

*`cordic_sine_whole_circle`.* The sine unit turns angles beyond a right angle back by half a
circle. For negative ones the script compares the upper bits with the constant of -179
degrees (`bsg_sine_cosine_script.py:72`), so that angles from -180 to -179 degrees are taken for
others. Its Readme and its test name -179.95.

*`cordic_polar_quadrants`.* When the first stage takes a vector from the input registers it takes
the signs from the input ports, where the next operand already is (`bsg_hypotenuse_script.py:99`),
and at the end the signs are read one register earlier than the angle. So a result
is put into the quadrant of the operand that came two edges after. All samples of the test are in the first
quadrant. `NoneOvertakes` says how far the pipeline can be relied on: if the receiver never stalls
and the quadrant does not change, results come in order, none is lost and each is in its quadrant.
It says nothing of the stall or of `ready_o`, of which see the remarks.

*`ring_ids`.* The table of ids is printed first element first, which a packed array takes for
the last (`bsg_mesh_to_ring_stitch.py:56`): every tile gets the id of the tile opposite. In a mesh
with a side of two the ring is the same turned half around; in others neighbours
on the ring have ids that do not follow each other: 4 of the 12 in a mesh of 4 by 3, 12 of
the 64 in one of 8 by 8. The wires are right (`RingIsClosed`).

*`reduce_any_width`.* A hardened AND fills up to its block with zeros
(`hard/tsmc_40/bsg_misc/bsg_reduce.sv:7`), so for widths 5, 7, 10, 11 and 13 to 15 it
is 0 whatever its input. `bsg_strobe`, for one, reduces a counter of any width.

Remarks that no run is about:

* The header of `bsg_fifo_1r1w_pseudo_large.sv` says that at a duty cycle of one half
  the queue reports data whenever it has some. There is one cycle in which it does
  not: if a dequeue coincides with an enqueue the RAM's port is taken, the next
  word cannot be fetched, and the output queue can run dry with that word on
  its way. A receiver of half rate does not look in that cycle; `NeverStarved` says
  so exactly.
* The credit counter accepts tokens given in advance (`prepaid_tokens`) and counts
  them; its assertion on excess credits does not allow for them.
* A polar unit that is stalled loses the result it was showing and delivers the next
  one twice: the register behind the scaling is outside the stall. The
  model has the stall, and `NoneOvertakes` says what holds while nobody stalls.
* The polar unit is ready only while a result is out (`ready_o = ~stall_pipe & val_out`,
  `bsg_hypotenuse_script.py:186`), but its registers take what is on the bus at every edge that does not
  stall. A sender that keeps its operand until the unit is ready has it taken again at every edge until a result
  comes out, and gets the result as often; one that waits for `ready_o` before it shows a valid operand
  never starts a unit whose valid bits are clear. The testbench takes no notice of `ready_o`.
  `PolarPipe` has the first kind and the testbench's kind of sender (`waits`).
* The arctangent unit computes with one operand for ever. `bsg_atan_script.py:65-66` prints
  `logic in_sign_op = ...` and `logic signed [...] in_quant = ...`, variables whose initialisers are evaluated
  once, at time zero, where `wire` was meant: `y[0]` and `sign_op[0]` get what was made of `quant_i`
  at time zero, whatever comes later, although the Readme says that the module returns `atan(quant_i)`. In
  the model this is `zero`, and what `RoundTrips` says of this unit is that
  its result is the arctangent of that operand.
* The hyperbolic scripts print two drivers for one register with twelve positive
  stages (`TwelveStagesCollide`), which the makefiles use; the help script of the exponential allows "a maximum of 12-13
  stages" (`bsg_exponential_help.py:20`). The start constant of the
  logarithm is negative when it is asked for no negative iterations.
* With `word_tracking_p`, `ALOCK` on a block some words of which are missing loses the lock: the fill that
  follows writes the lock bit as `alock_op` of the request that missed, which is 0 for the load behind it
  (`bsg_cache_miss.sv:484-491`). `LockedStays` has that exception.
* A `TAGST` offered in the cycle in which the answer to a miss is taken makes `tl_ready` false while TV takes
  TL's request, so TL keeps `v_tl_r` (`bsg_cache.sv:147-170`) and the request is carried out twice.
  In the model clients use `TAGST` only to clear the tags first, as the tests do.
* Text that does not elaborate as printed is modelled as it is meant: the gf_14 registers misname a
  wire and lack commas, which the script's own FIXME says; the 250 nm register file and register
  connect `clock_i` for `clk_i`, as `bsg_mul.sv` does.
* The shift arrays of cells have a fourth setting of the select in which they differ from
  the queue datapath, which a comment excludes, and no default word other than zero.

## 9. What is not modelled, and why

* *Time within a cycle*: PHYs, delay lines, oscillators, glitch-free clock
  multiplexers, mesochronous calibration. Their correctness is a matter of
  phases and delays, which a model made of edges does not have.
* *Combinational datapaths*: encoders, sorting networks, floating
  point. They have no state; tools that work on bits compare them with a reference
  better than state exploration does. The pure functions that decide something
  (arbitration, routing) are modelled, and the adders of the generated multiplier.
* *The memory generator, netlists of delay lines and oscillators, the profiler's charts, the random
  test bench of the superseded configuration network*: large scripts that join
  strings. What the first two print are instances of vendor macros and chains of delays;
  what the others do is outside the circuits.
* *The 16-bit multiplier*: its script names a block (`bsg_mul_green_block`) that the
  library does not have. The scripts of the other two processes for the 32-bit one have the
  same text but for the names of cells.
* *Asynchronous resets* of the gf_14 registers, which the script's FIXME calls
  unfinished; the optional queues in `bsg_sbox`, which are `bsg_two_fifo`s.
* *Widths and wording*: data is a handful of model values, parameters that change
  only the shape of a port are not constants of the model.
* *Test benches, superseded modules, other technology-specific replacements,
  imported projects*: they are not the library's own logic.
* *Everything in section 7*, so far. `PROJECT.json` lists every component with its
  status.

## 10. Running

    tlc -workers 2 -config MCQueues.cfg MCQueues
    tlapm QueuesProofs.tla

The pair of module and configuration of each run is in `PROJECT.json`. A
run whose `expect` is `violation` ends with a counterexample, which is what it
shows.
