------------------------------- MODULE Cache -------------------------------
(***************************************************************************)
(* The blocking cache bsg_cache: a pipeline of two stages, TL (tag lookup) *)
(* and TV (tag verify), with a store buffer and a track buffer behind TV,  *)
(* a miss handler and a DMA engine.  Every cycle is one step.              *)
(*                                                                         *)
(* Of every word one byte is modelled.  The bytes of a word have data and  *)
(* write masks of their own and meet only in the question whether a store  *)
(* writes all of them; a request says both: `lane', whether it reads or    *)
(* writes the byte, and `full', whether it writes the whole word.          *)
(***************************************************************************)
EXTENDS CacheLru, FiniteSets, FiniteSetsExt, Sequences

CONSTANTS
  sets_p,
  block_size_in_words_p,
  Tags,
  tag0,           \* the tag of the addresses and data of the client's TAGST
  Unknown,        \* what a RAM holds before it is written
  InitialMemory,  \* block and word -> the byte in memory
  Settings        \* word_tracking_p and a set of requests, for each client

Sets == 0..(sets_p - 1)
Words == 0..(block_size_in_words_p - 1)
Places == Tags \X Sets \X Words

ASSUME CacheAssumption ==
  /\ sets_p \in Nat \ {0} /\ ways_p \in Nat \ {0}
  /\ block_size_in_words_p \in Nat \ {0}
  /\ tag0 \in Tags
  /\ DOMAIN InitialMemory = Places

VARIABLES
  setting,          \* word_tracking_p and the requests in use, fixed throughout
  swept,            \* how many ways the client has cleared with TAGST
  tl,               \* v_tl_r and the request in the TL stage
  tv,               \* v_v_r, the request in the TV stage, and what it read
  tag_mem, data_mem, track_mem, stat_mem,
  tag_mem_data_lo, data_mem_data_lo, track_mem_data_lo, stat_mem_data_lo,
  sbuf, tbuf,       \* the two-element queues, oldest entry first
  miss,             \* the registers of the miss handler
  dma,              \* the registers of the DMA engine
  in_fifo, out_fifo,
  memory,           \* behind the DMA ports: contents, burst read, burst written
  stored,           \* for the properties: the last byte stored, per word
  waited            \* for the properties: edges the request in TV has waited

pipeline == <<tl, tv>>
rams == <<tag_mem, data_mem, track_mem, stat_mem>>
outputs == <<tag_mem_data_lo, data_mem_data_lo, track_mem_data_lo, stat_mem_data_lo>>
vars == <<setting, swept, pipeline, rams, outputs, sbuf, tbuf, miss, dma,
          in_fifo, out_fifo, memory, stored, waited>>

word_tracking_p == setting.word_tracking_p

(* What clients ask for once they have cleared the tags. *)
Addressed == {"LD", "ST", "AMO", "AFL", "AFLINV", "AINV", "ALOCK", "AUNLOCK", "TAGLA"}
Operations == Addressed \cup {"TAGFL", "TAGLV"}

ASSUME SettingsAssumption ==
  \A s \in Settings : s.word_tracking_p \in BOOLEAN /\
    \A r \in s.requests :
      /\ r.op \in Operations /\ r.set \in Sets
      /\ r.op \in Addressed => r.tag \in Tags
      /\ r.op \in {"LD", "ST", "AMO"} => r.word \in Words
      /\ r.op \in {"ST", "AMO"} => r.lane \in BOOLEAN
      /\ r.op = "ST" => r.full \in BOOLEAN /\ (r.full => r.lane)
      /\ r.op = "TAGFL" => r.way \in Ways

-----------------------------------------------------------------------------
(* Requests.  ST is any store and LD any load.                              *)

NoReq == [op |-> "none"]
Reads(r) == r.op \in {"LD", "AMO"}                 \* ld_op | atomic_op
Writes(r) == r.op \in {"ST", "AMO"}                \* st_op | atomic_op
partial_st(r) == r.op = "ST" /\ ~r.full
ReadsTrack(r) == Reads(r) \/ partial_st(r)
Place(r) == <<r.tag, r.set, r.word>>

Bubble == [req |-> NoReq, miss |-> FALSE]

(* What an atomic operation leaves behind: `alu' is atomic_alu_result with  *)
(* the operand of the request in place.                                     *)
written(r, old) == IF r.op = "AMO" THEN r.alu[old] ELSE r.data

-----------------------------------------------------------------------------
(* What the TV stage finds out about its request.  All of it follows from    *)
(* the registers that are loaded when the request enters the stage, so it is *)
(* computed then, and stays in tv.hits, tv.track_miss and tv.miss.           *)

tag_hits(r, tags) ==
  IF r.op \in {"TAGST", "TAGFL", "TAGLV", "TAGLA"} THEN {}
  ELSE {w \in Ways : tags[w].valid /\ tags[w].tag = r.tag}

untracked(r, hits, track, bypass_track) ==
  ReadsTrack(r) /\ hits # {} /\ r.word \notin track[Min(hits)] /\ ~bypass_track

misses(r, tags, hits, no_word) ==
  CASE r.op \in {"LD", "ST", "AMO"}       -> hits = {} \/ no_word
    [] r.op = "TAGFL"                     -> tags[r.way].valid
    [] r.op \in {"AFL", "AFLINV", "AINV"} -> hits # {}
    [] r.op = "ALOCK"                     -> hits # {} => ~tags[Min(hits)].lock
    [] r.op = "AUNLOCK"                   -> hits # {} /\ tags[Min(hits)].lock
    [] OTHER                              -> FALSE

tag_hit_found == tv.hits # {}
tag_hit_way_id == Min(tv.hits)
miss_v == tv.miss

v_o == tv.req # NoReq /\ (miss_v => miss.state = "DONE")

(* snoop_or_ld_data: a word that was just filled, the newest store to it     *)
(* that was still buffered when it was looked up, or what the RAM held.      *)
ld_data ==
  IF miss.select_snoop_data THEN dma.snoop_word
  ELSE IF tv.bypass_mask THEN tv.bypass_data
  ELSE tv.data[tag_hit_way_id]

-----------------------------------------------------------------------------
(* The miss handler.  None of its outputs depends on the client.            *)

goto_flush_op == tv.req.op \in {"TAGFL", "AINV", "AFL", "AFLINV"}
goto_lock_op == tv.req.op = "AUNLOCK" \/ (tv.req.op = "ALOCK" /\ tag_hit_found)
st_tag_miss_op ==
  word_tracking_p /\ tv.req.op = "ST" /\ tv.req.full /\ ~tag_hit_found

start == miss.state = "START" /\ miss_v /\ sbuf = <<>> /\ tbuf = <<>>

(* Seeded fault: LRU alone names the way, locked or not. *)
MutVictim ==
  LET invalid == {w \in Ways : ~tv.tags[w].valid /\ ~tv.tags[w].lock}
  IN  IF invalid # {} THEN Min(invalid) ELSE lru_way_id(stat_mem_data_lo.lru_bits)

(* The way to fill: an invalid one that is not locked, or the one LRU names. *)
victim ==
  LET locked  == {w \in Ways : tv.tags[w].lock}
      invalid == {w \in Ways \ locked : ~tv.tags[w].valid}
  IN  IF invalid # {} THEN Min(invalid)
      ELSE lru_way_id(Backed(stat_mem_data_lo.lru_bits, locked))

chosen_way_n ==
  CASE miss.state = "SEND_FILL_ADDR" -> IF tv.track_miss THEN tag_hit_way_id ELSE victim
    [] miss.state = "STORE_TAG_MISS" -> victim
    [] OTHER                         -> miss.chosen_way

flush_way_n ==
  IF miss.state # "FLUSH_OP" THEN miss.flush_way
  ELSE IF tv.req.op = "TAGFL" THEN tv.req.way ELSE tag_hit_way_id

dirty_and_valid(way) == way \in stat_mem_data_lo.dirty /\ tv.tags[way].valid

dma_way == IF goto_flush_op THEN miss.flush_way ELSE miss.chosen_way
fill_block == <<tv.req.tag, tv.req.set>>
evict_block == <<tv.tags[dma_way].tag, tv.req.set>>

-----------------------------------------------------------------------------
(* The DMA engine. *)

dma_pkt_v_o ==
  dma.state = "IDLE" /\ miss.state \in {"SEND_FILL_ADDR", "SEND_EVICT_ADDR"}
out_fifo_ready == Len(out_fifo) < 2

fill_word == dma.state = "GET_FILL_DATA" /\ in_fifo # <<>>
fill_done == fill_word /\ dma.counter = block_size_in_words_p - 1
evict_word == dma.state = "SEND_EVICT_DATA" /\ out_fifo_ready
(* Seeded fault: the last word of the block is forgotten. *)
MutEvictDone == evict_word /\ dma.counter = block_size_in_words_p - 1

evict_done == evict_word /\ dma.counter = block_size_in_words_p

(* A word of the evicted block is read unless it was never written; the     *)
(* first is read as the eviction begins.                                    *)
evict_read ==
  /\ \/ dma.state = "IDLE" /\ miss.state = "SEND_EVICT_DATA"
     \/ evict_word /\ ~evict_done
  /\ word_tracking_p => dma.counter \in dma.track[dma_way]

dma_data_mem_v == fill_word \/ evict_read
dma_evict_o == dma.state = "SEND_EVICT_DATA"

(* After a track miss only the words that are not there yet are written.    *)
fill_mask == (word_tracking_p /\ tv.track_miss) => dma.counter \notin dma.track[dma_way]

-----------------------------------------------------------------------------
(* Who may move.  `r' is the request the client offers (NoReq if none) and   *)
(* `ack' is v_o & yumi_i.                                                    *)

st_allocate ==
  \/ miss.state = "STORE_TAG_MISS_ALLOCATE"
  \/ miss.state = "SEND_EVICT_DATA" /\ evict_done /\ st_tag_miss_op
fill_allocate == miss.state = "GET_FILL_DATA" /\ fill_done
(* Seeded fault: TL does not read the RAMs again after a miss. *)
MutRecover == FALSE

recover == miss.state = "RECOVER"

miss_tag_mem_v ==
  miss.state \in {"FLUSH_OP", "LOCK_OP"} \/ st_allocate \/ fill_allocate
miss_track_mem_v ==
  word_tracking_p /\ (start \/ st_allocate \/ fill_allocate)

v_we(ack) == tv.req # NoReq => ack
sbuf_v(ack) == ack /\ Writes(tv.req)
tbuf_v(ack) == word_tracking_p /\ ack /\ tv.req.op = "ST" /\ tv.req.full

(* Seeded fault: a load keeps the data RAM from a full buffer. *)
MutHazard(r, ack) == FALSE

sbuf_hazard(r, ack) == Len(sbuf) = 2 /\ sbuf_v(ack) /\ Reads(r)

(* During a miss the TL stage waits for TAGST to be its turn, and for the    *)
(* RAMs it reads to be free.                                                 *)
tl_ready(r, ack) ==
  /\ miss_v => /\ r.op # "TAGST"
               /\ ~miss_tag_mem_v
               /\ ~miss_track_mem_v
               /\ ~dma_data_mem_v
               /\ ~recover
               /\ ~dma_evict_o
  /\ ~sbuf_hazard(r, ack)

tl_we(r, ack) == tl_ready(r, ack) /\ (tl # NoReq => v_we(ack))

(* A buffered store is written when the data RAM is free, unless a load in   *)
(* TL has read the RAM and counts on finding the store in the buffer.        *)
(* `in' is the request that enters TL, if any.                               *)
(* Seeded faults: the load in TL is forgotten; the buffer waits for the miss *)
(* to end that waits for it.                                                 *)
MutSbufYumi(in, ack) == ~Reads(in) /\ ~dma_data_mem_v
MutPatientYumi(in, ack) ==
  ~Reads(in) /\ ~dma_data_mem_v /\ ~(Reads(tl) /\ ~v_we(ack))

sbuf_yumi(in, ack) ==
  ~Reads(in) /\ ~dma_data_mem_v /\ ~(Reads(tl) /\ ~v_we(ack) /\ ~miss_v)
tbuf_yumi(in, ack) ==
  /\ ~ReadsTrack(in)
  /\ ~miss_track_mem_v
  /\ ~(ReadsTrack(tl) /\ ~v_we(ack) /\ ~miss_v)

-----------------------------------------------------------------------------
(* The buffers behind TV, and what TV takes over from TL.                    *)

tv_way == IF miss_v THEN miss.chosen_way ELSE tag_hit_way_id
sbuf_entry ==
  [place |-> Place(tv.req), way |-> tv_way, lane |-> tv.req.lane,
   data |-> written(tv.req, ld_data)]
tbuf_entry == [place |-> Place(tv.req), way |-> tv_way]

Drained(queue, yumi) == IF queue # <<>> /\ yumi THEN Tail(queue) ELSE queue

(* What a request that does not read a RAM copies from its output is not     *)
(* kept.                                                                     *)
Lookup(stores, tracks) ==
  LET buffered == {i \in DOMAIN stores : stores[i].place = Place(tl) /\ stores[i].lane}
      bypass   == Reads(tl) /\ buffered # {}
      tracked  == ReadsTrack(tl) /\ \E i \in DOMAIN tracks : tracks[i].place = Place(tl)
      hits     == tag_hits(tl, tag_mem_data_lo)
      no_word  == untracked(tl, hits, track_mem_data_lo, tracked)
  IN  [req         |-> tl,
       tags        |-> tag_mem_data_lo,
       hits        |-> hits,
       track_miss  |-> no_word,
       miss        |-> misses(tl, tag_mem_data_lo, hits, no_word),
       data        |-> IF Reads(tl) THEN data_mem_data_lo ELSE <<>>,
       bypass_mask |-> bypass,
       bypass_data |-> IF bypass THEN stores[Max(buffered)].data ELSE Unknown]

Pipeline(r, in, ack, stores, tracks) ==
  /\ tl' = IF tl_we(r, ack) THEN in
           ELSE IF sbuf_hazard(r, ack) THEN NoReq ELSE tl
  /\ tv' = IF ~v_we(ack) THEN tv
           ELSE IF tl = NoReq THEN Bubble ELSE Lookup(stores, tracks)
  /\ sbuf' = Drained(stores, sbuf_yumi(in, ack))
  /\ tbuf' = Drained(tracks, tbuf_yumi(in, ack))

-----------------------------------------------------------------------------
(* The RAMs have one port each: a cycle reads one row or writes one.  The    *)
(* output holds the last row that was read.                                  *)

TagMem(in) ==
  LET set == IF miss_v THEN tv.req.set ELSE in.set
      row == tag_mem[set]
      ReadsTags(r) == r.op \notin {"none", "TAGST"}
      new(w) ==
        CASE ~miss_v -> IF w = in.way THEN in.info ELSE row[w]
          [] miss.state = "FLUSH_OP" ->
               IF w \in tv.hits /\ tv.req.op \in {"AINV", "AFLINV"}
               THEN [row[w] EXCEPT !.valid = FALSE, !.lock = FALSE] ELSE row[w]
          [] miss.state = "LOCK_OP" ->
               IF w \in tv.hits THEN [row[w] EXCEPT !.lock = (tv.req.op = "ALOCK")]
               ELSE row[w]
          [] OTHER ->
               IF w = miss.chosen_way
               THEN [valid |-> TRUE, lock |-> tv.req.op = "ALOCK", tag |-> tv.req.tag]
               ELSE row[w]
  IN  IF miss_tag_mem_v \/ in.op = "TAGST"
      THEN /\ tag_mem' = [tag_mem EXCEPT ![set] = [w \in Ways |-> new(w)]]
           /\ UNCHANGED tag_mem_data_lo
      ELSE /\ UNCHANGED tag_mem
           /\ tag_mem_data_lo' = IF recover /\ ReadsTags(tl) THEN tag_mem[tl.set]
                                 ELSE IF ReadsTags(in) THEN tag_mem[in.set]
                                 ELSE tag_mem_data_lo

DataMem(in, ack, stores) ==
  LET again == recover /\ Reads(tl)
      store == Head(stores)
      drain == stores # <<>> /\ sbuf_yumi(in, ack)
      fill  == [set |-> tv.req.set, word |-> dma.counter]
      at    == IF again THEN [set |-> tl.set, word |-> tl.word]
               ELSE IF dma_data_mem_v THEN fill
               ELSE IF Reads(in) THEN [set |-> in.set, word |-> in.word]
               ELSE [set |-> store.place[2], word |-> store.place[3]]
      row   == data_mem[at.set][at.word]
      new   == IF fill_word
               THEN [w \in Ways |-> IF w = dma_way /\ fill_mask THEN Head(in_fifo)
                                    ELSE row[w]]
               ELSE [w \in Ways |-> IF w = store.way /\ store.lane THEN store.data
                                    ELSE row[w]]
  IN  IF fill_word \/ drain
      THEN /\ data_mem' = [data_mem EXCEPT ![at.set][at.word] = new]
           /\ UNCHANGED data_mem_data_lo
      ELSE /\ UNCHANGED data_mem
           /\ data_mem_data_lo' = IF again \/ evict_read \/ Reads(in) THEN row
                                  ELSE data_mem_data_lo

TrackMem(in, ack, tracks) ==
  LET again == recover /\ ReadsTrack(tl)
      entry == Head(tracks)
      drain == tracks # <<>> /\ tbuf_yumi(in, ack)
      set   == IF again THEN tl.set
               ELSE IF miss_track_mem_v THEN tv.req.set
               ELSE IF ReadsTrack(in) THEN in.set ELSE entry.place[2]
      row   == track_mem[set]
      new(w) ==
        CASE miss_track_mem_v /\ w = miss.chosen_way ->
               IF fill_allocate THEN Words ELSE {}
          [] ~miss_track_mem_v /\ w = entry.way -> row[w] \cup {entry.place[3]}
          [] OTHER -> row[w]
  IN  IF word_tracking_p /\ (IF miss_track_mem_v THEN ~start ELSE drain)
      THEN /\ track_mem' = [track_mem EXCEPT ![set] = [w \in Ways |-> new(w)]]
           /\ UNCHANGED track_mem_data_lo
      ELSE /\ UNCHANGED track_mem
           /\ track_mem_data_lo' = IF /\ word_tracking_p
                                      /\ again \/ start \/ ReadsTrack(in)
                                   THEN row ELSE track_mem_data_lo

(* FLUSH_OP cleans, a fill or an allocation makes dirty or clean, a hit      *)
(* makes dirty.  A fill after a track miss leaves the dirty bits alone.      *)
StatMem(ack) ==
  LET row  == stat_mem[tv.req.set]
      way  == miss.chosen_way
      Stat(dirty, bits) == [dirty |-> dirty, lru_bits |-> bits]
      flushed == IF tv.req.op = "TAGFL" THEN {tv.req.way} ELSE tv.hits
      filled == IF tv.track_miss THEN row.dirty
                ELSE IF Writes(tv.req) THEN row.dirty \cup {way}
                ELSE row.dirty \ {way}
      used == IF Writes(tv.req) THEN row.dirty \cup tv.hits ELSE row.dirty
      new  ==
        CASE miss.state = "FLUSH_OP" -> Stat(row.dirty \ flushed, row.lru_bits)
          [] st_allocate -> Stat(row.dirty \cup {way}, Touched(row.lru_bits, way))
          [] fill_allocate -> Stat(filled, Touched(row.lru_bits, way))
          [] ~miss_v /\ ack /\ tv.req.op = "TAGST" -> Stat({}, {})
          [] ~miss_v /\ ack /\ tv.req.op \in {"LD", "ST", "AMO"} ->
               Stat(used, Touched(row.lru_bits, tag_hit_way_id))
          [] OTHER -> row
  IN  /\ stat_mem' = IF tv.req = NoReq THEN stat_mem
                     ELSE [stat_mem EXCEPT ![tv.req.set] = new]
      /\ stat_mem_data_lo' = IF start THEN row ELSE stat_mem_data_lo

-----------------------------------------------------------------------------
(* The state machines of the miss handler and of the DMA engine.             *)

miss_state_n(pkt_yumi, ack) ==
  CASE miss.state = "START" ->
         IF ~start THEN "START"
         ELSE IF goto_flush_op THEN "FLUSH_OP"
         ELSE IF goto_lock_op THEN "LOCK_OP"
         ELSE IF st_tag_miss_op THEN "STORE_TAG_MISS" ELSE "SEND_FILL_ADDR"
    [] miss.state = "SEND_FILL_ADDR" ->
         IF ~pkt_yumi THEN "SEND_FILL_ADDR"
         ELSE IF ~tv.track_miss /\ dirty_and_valid(chosen_way_n)
         THEN "SEND_EVICT_ADDR" ELSE "GET_FILL_DATA"
    [] miss.state = "FLUSH_OP" ->
         IF tv.req.op # "AINV" /\ dirty_and_valid(flush_way_n)
         THEN "SEND_EVICT_ADDR" ELSE "RECOVER"
    [] miss.state = "SEND_EVICT_ADDR" ->
         IF pkt_yumi THEN "SEND_EVICT_DATA" ELSE "SEND_EVICT_ADDR"
    [] miss.state = "SEND_EVICT_DATA" ->
         IF ~evict_done THEN "SEND_EVICT_DATA"
         ELSE IF goto_flush_op \/ st_tag_miss_op THEN "RECOVER" ELSE "GET_FILL_DATA"
    [] miss.state = "GET_FILL_DATA" ->
         IF fill_done THEN "RECOVER" ELSE "GET_FILL_DATA"
    [] miss.state = "STORE_TAG_MISS" ->
         IF dirty_and_valid(chosen_way_n)
         THEN "SEND_EVICT_ADDR" ELSE "STORE_TAG_MISS_ALLOCATE"
    [] miss.state \in {"LOCK_OP", "STORE_TAG_MISS_ALLOCATE"} -> "RECOVER"
    [] miss.state = "RECOVER" -> "DONE"
    [] miss.state = "DONE" -> IF ack THEN "START" ELSE "DONE"

MissHandler(pkt_yumi, ack) ==
  miss' = [state             |-> miss_state_n(pkt_yumi, ack),
           chosen_way        |-> chosen_way_n,
           flush_way         |-> flush_way_n,
           select_snoop_data |-> \/ fill_allocate
                                 \/ miss.select_snoop_data
                                    /\ ~(miss.state = "DONE" /\ ack),
           track_data_we     |-> word_tracking_p /\ start]

dma_state_n ==
  CASE dma.state = "IDLE" /\ miss.state \in {"GET_FILL_DATA", "SEND_EVICT_DATA"}
         -> miss.state
    [] fill_done \/ evict_done -> "IDLE"
    [] OTHER -> dma.state

dma_counter_n ==
  CASE dma.state = "IDLE" -> IF miss.state = "SEND_EVICT_DATA" THEN 1 ELSE 0
    [] fill_done \/ evict_done -> 0
    [] dma.state # "IDLE" /\ ~fill_done /\ ~evict_done ->
         IF fill_word \/ evict_word THEN dma.counter + 1 ELSE dma.counter

DmaEngine ==
  dma' = [state      |-> dma_state_n,
          counter    |-> dma_counter_n,
          snoop_word |-> IF fill_word /\ dma.counter = tv.req.word
                         THEN Head(in_fifo) ELSE dma.snoop_word,
          track      |-> IF miss.track_data_we THEN track_mem_data_lo ELSE dma.track]

-----------------------------------------------------------------------------
(* External: what the DMA ports are connected to.  It reads and writes a    *)
(* burst at a time in each direction, at its own pace, and does not begin   *)
(* to read a block while the same block is being written.                   *)

Idle == [block |-> <<>>]
Bursting(burst) == burst # Idle

TakesPacket ==
  /\ dma_pkt_v_o
  /\ IF miss.state = "SEND_FILL_ADDR"
     THEN memory.reading = Idle /\ memory.writing.block # fill_block
     ELSE memory.writing = Idle /\ memory.reading.block # evict_block
dma_data_ready == Len(in_fifo) < Max({2, block_size_in_words_p})
GivesWord == Bursting(memory.reading) /\ dma_data_ready
TakesWord == Bursting(memory.writing) /\ out_fifo # <<>>

Advanced(burst) ==
  IF burst.word = block_size_in_words_p - 1 THEN Idle
  ELSE [burst EXCEPT !.word = @ + 1]
At(burst) == <<burst.block[1], burst.block[2], burst.word>>

Memory(takes, gives, gets) ==
  LET reading == memory.reading
      writing == memory.writing
  IN  /\ memory' =
           [data |-> IF gets /\ writing.word \in writing.mask
                     THEN [memory.data EXCEPT ![At(writing)] = Head(out_fifo)]
                     ELSE memory.data,
            reading |-> IF takes /\ miss.state = "SEND_FILL_ADDR"
                        THEN [block |-> fill_block, word |-> 0]
                        ELSE IF gives THEN Advanced(reading) ELSE reading,
            writing |-> IF takes /\ miss.state = "SEND_EVICT_ADDR"
                        THEN [block |-> evict_block, word |-> 0,
                              mask |-> IF word_tracking_p THEN dma.track[dma_way]
                                       ELSE Words]
                        ELSE IF gets THEN Advanced(writing) ELSE writing]
      /\ in_fifo' = (IF fill_word THEN Tail(in_fifo) ELSE in_fifo)
                      \o (IF gives THEN <<memory.data[At(reading)]>> ELSE <<>>)
      /\ out_fifo' = (IF gets THEN Tail(out_fifo) ELSE out_fifo)
                      \o (IF evict_word THEN <<data_mem_data_lo[dma_way]>> ELSE <<>>)

(* What memory holds once the burst that is under way has been written.      *)
InMemory(place) ==
  LET burst == memory.writing
      nth == place[3] - burst.word + 1
  IN  IF /\ burst.block = <<place[1], place[2]>>
         /\ place[3] \in burst.mask
         /\ nth \in 1..Len(out_fifo)
      THEN out_fifo[nth]
      ELSE memory.data[place]

(* The byte a load must see: what was stored last, and after an AINV of a    *)
(* block that was there what is in memory.                                   *)
Stored(ack) ==
  stored' =
    CASE ack /\ Writes(tv.req) /\ tv.req.lane ->
           [stored EXCEPT ![Place(tv.req)] = written(tv.req, ld_data)]
      [] ack /\ tv.req.op = "AINV" /\ miss_v ->
           [p \in Places |-> IF <<p[1], p[2]>> = fill_block THEN InMemory(p)
                             ELSE stored[p]]
      [] OTHER -> stored

(* How long a request has stood in TV without an answer, and without memory  *)
(* having stalled.                                                           *)
prompt_memory == setting.stalls \subseteq {"client", "offers"}
Waited ==
  waited' = IF tv.req = NoReq \/ v_o \/ ~prompt_memory THEN 0 ELSE waited + 1

-----------------------------------------------------------------------------
(* Before anything else the client invalidates every way with TAGST.         *)

Clearing ==
  [op |-> "TAGST", set |-> swept \div ways_p, way |-> swept % ways_p,
   info |-> [valid |-> FALSE, lock |-> FALSE, tag |-> tag0]]
Offers ==
  {NoReq} \cup (IF swept < sets_p * ways_p THEN {Clearing} ELSE setting.requests)

Edge(r, in, ack, takes, gives, gets) ==
  LET stores == IF sbuf_v(ack) THEN Append(sbuf, sbuf_entry) ELSE sbuf
      tracks == IF tbuf_v(ack) THEN Append(tbuf, tbuf_entry) ELSE tbuf
  IN  /\ UNCHANGED setting
      /\ swept' = IF in.op = "TAGST" THEN swept + 1 ELSE swept
      /\ Pipeline(r, in, ack, stores, tracks)
      /\ TagMem(in)
      /\ DataMem(in, ack, stores)
      /\ TrackMem(in, ack, tracks)
      /\ StatMem(ack)
      /\ MissHandler(takes, ack)
      /\ DmaEngine
      /\ Memory(takes, gives, gets)
      /\ Stored(ack)
      /\ Waited

TagInfo == [valid : BOOLEAN, lock : BOOLEAN, tag : Tags]

Init ==
  /\ setting \in Settings
  /\ swept = 0
  /\ tl = NoReq
  /\ tv = Bubble
  /\ \E info \in {i \in TagInfo : i.valid = i.lock} :
       tag_mem = [s \in Sets |-> [w \in Ways |-> info]]
  /\ data_mem = [s \in Sets |-> [x \in Words |-> [w \in Ways |-> Unknown]]]
  /\ track_mem = [s \in Sets |-> [w \in Ways |-> Words]]
  /\ stat_mem = [s \in Sets |-> [dirty |-> Ways, lru_bits |-> Nodes]]
  /\ tag_mem_data_lo = tag_mem[0]
  /\ data_mem_data_lo = data_mem[0][0]
  /\ track_mem_data_lo = [w \in Ways |-> Words]
  /\ stat_mem_data_lo = stat_mem[0]
  /\ sbuf = <<>>
  /\ tbuf = <<>>
  /\ miss = [state |-> "START", chosen_way |-> 0, flush_way |-> 0,
             select_snoop_data |-> FALSE, track_data_we |-> FALSE]
  /\ dma = [state |-> "IDLE", counter |-> 0, snoop_word |-> Unknown,
            track |-> [w \in Ways |-> Words]]
  /\ in_fifo = <<>>
  /\ out_fifo = <<>>
  /\ memory = [data |-> InitialMemory, reading |-> Idle, writing |-> Idle]
  /\ stored = InitialMemory
  /\ waited = 0

(* A handshake that can take place does, unless the other side may stall.    *)
May(side, can) ==
  IF ~can THEN {FALSE} ELSE IF side \in setting.stalls THEN BOOLEAN ELSE {TRUE}

(* An offer that is not taken changes nothing, unless it holds up TL.        *)
Matters(r, taken, ack) == r = NoReq \/ taken \/ sbuf_hazard(r, ack)

(* A client that is never idle always offers something. *)
Idles(r, taken) == r = NoReq => "offers" \in setting.stalls \/ ~taken

Next ==
  \E ack \in May("client", v_o), takes \in May("packets", TakesPacket),
     gives \in May("fills", GivesWord), gets \in May("evictions", TakesWord) :
    \E r \in Offers, taken \in BOOLEAN :
      /\ taken = tl_we(r, ack)
      /\ Matters(r, taken, ack) /\ Idles(r, taken)
      /\ Edge(r, IF taken THEN r ELSE NoReq, ack, takes, gives, gets)

Spec == Init /\ [][Next]_vars

-----------------------------------------------------------------------------
(* A load, and the load half of an atomic operation, answers with what was   *)
(* stored last at its place.                                                 *)
LoadsSeeLastStore ==
  v_o /\ Reads(tv.req) => ld_data = stored[Place(tv.req)]

(* No block is in two ways of its set. *)
OneHit ==
  swept = sets_p * ways_p =>
    \A s \in Sets : \A w, x \in Ways :
      tag_mem[s][w].valid /\ tag_mem[s][x].valid /\ w # x
        => tag_mem[s][w].tag # tag_mem[s][x].tag

(* Neither buffer takes a third entry.  For the track buffer nothing tests   *)
(* whether it is full.                                                       *)
BuffersFit == Len(sbuf) <= 2 /\ Len(tbuf) <= 2

(* There is room for all of a burst that memory has begun to read, and when  *)
(* the next packet is due all of the last write is on its way: a memory that *)
(* serves one packet at a time can always go on.                             *)
NoCircularWait ==
  /\ Bursting(memory.reading) =>
       Len(in_fifo) + block_size_in_words_p - memory.reading.word
         <= Max({2, block_size_in_words_p})
  /\ dma_pkt_v_o /\ Bursting(memory.writing) =>
       Len(out_fifo) >= block_size_in_words_p - memory.writing.word

(* A miss that memory does not hold up is answered in the time that a fill   *)
(* and an eviction take at a word a cycle, and nine cycles more: the         *)
(* handler's wait for the two buffers to drain, while the requests behind    *)
(* use the RAMs they drain into, comes to an end.                            *)
AnsweredInTime == waited <= 2 * block_size_in_words_p + 9

(* A locked block stays in its way until it is unlocked or flushed out.  Its  *)
(* lock is also lost when a word of it that was missing is fetched.           *)
LockedStays ==
  [][\A s \in Sets, w \in Ways :
       swept = sets_p * ways_p /\ tag_mem[s][w].valid /\ tag_mem[s][w].lock
       /\ tag_mem[s][w] # tag_mem'[s][w] =>
            /\ tv.req.op \in {"AUNLOCK", "AINV", "AFLINV"} \/ tv.track_miss
            /\ tv.req.tag = tag_mem[s][w].tag]_vars
=============================================================================
