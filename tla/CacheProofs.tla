----------------------------- MODULE CacheProofs -----------------------------
(***************************************************************************)
(* The blocking cache for any number of sets, ways and words in a block,   *)
(* any tags, and clients that ask for anything but TAGST once they have    *)
(* cleared the tags.                                                       *)
(***************************************************************************)
EXTENDS Cache, SequenceTheorems, FiniteSetTheorems, WellFoundedInduction, TLAPS

-----------------------------------------------------------------------------
(* The sweep has reached the last way of the last set.                     *)
Cleared == swept = sets_p * ways_p

ReadsTags(r) == r.op \notin {"none", "TAGST"}

IsRequest(r) ==
  \/ r = NoReq
  \/ r.op = "TAGST"
  \/ /\ r \in setting.requests
     /\ r.op \in Operations /\ r.set \in Sets
     /\ r.op \in Addressed => r.tag \in Tags
     /\ r.op \in {"LD", "ST", "AMO"} => r.word \in Words
     /\ r.op \in {"ST", "AMO"} => r.lane \in BOOLEAN
     /\ r.op = "ST" => r.full \in BOOLEAN /\ (r.full => r.lane)
     /\ r.op = "TAGFL" => r.way \in Ways

TypeInv ==
  /\ setting \in Settings
  /\ swept \in 0 .. sets_p * ways_p
  /\ IsRequest(tl) /\ IsRequest(tv.req)
  /\ tag_mem \in [Sets -> [Ways -> TagInfo]]

(* Until the client has cleared all ways it does nothing else, and those   *)
(* it has been to are invalid.                                             *)
SweepInv ==
  ~Cleared =>
    /\ ~ReadsTags(tl) /\ ~ReadsTags(tv.req)
    /\ \A s \in Sets, w \in Ways :
         s < swept \div ways_p \/ (s = swept \div ways_p /\ w < swept % ways_p)
           => ~tag_mem[s][w].valid

(* What the TV stage knows of its request. *)
TvInv ==
  /\ ReadsTags(tv.req) =>
       /\ tv.hits = tag_hits(tv.req, tv.tags)
       /\ tv.track_miss \in BOOLEAN
       /\ tv.track_miss => tv.hits # {} /\ tv.req.op \in {"LD", "ST", "AMO"}
       /\ tv.miss = misses(tv.req, tv.tags, tv.hits, tv.track_miss)
  /\ ~ReadsTags(tv.req) => ~tv.miss

EvictStates == {"SEND_EVICT_ADDR", "SEND_EVICT_DATA"}
MissStates ==
  {"START", "SEND_FILL_ADDR", "FLUSH_OP", "LOCK_OP", "STORE_TAG_MISS",
   "STORE_TAG_MISS_ALLOCATE", "GET_FILL_DATA", "RECOVER", "DONE"} \cup EvictStates

(* What brought the miss handler where it is, and the DMA engine with it.  *)
MissInv ==
  /\ miss.state \in MissStates
  /\ miss.state # "START" => tv.miss
  /\ miss.state = "FLUSH_OP" => goto_flush_op
  /\ miss.state = "LOCK_OP" => goto_lock_op
  /\ miss.state \in {"STORE_TAG_MISS", "STORE_TAG_MISS_ALLOCATE"} => st_tag_miss_op
  /\ miss.state \in {"SEND_FILL_ADDR", "GET_FILL_DATA"} =>
       ~goto_flush_op /\ ~goto_lock_op /\ ~st_tag_miss_op
  /\ miss.state \in EvictStates => ~goto_lock_op /\ ~tv.track_miss
  /\ miss.state = "GET_FILL_DATA" /\ tv.track_miss => miss.chosen_way = tag_hit_way_id
  /\ dma.state \in {"IDLE", "GET_FILL_DATA", "SEND_EVICT_DATA"}
  /\ dma.state # "IDLE" => dma.state = miss.state

(* The handler has not written the tags yet. *)
Unwritten ==
  \/ miss.state \in MissStates \ ({"RECOVER", "DONE"} \cup EvictStates)
  \/ miss.state \in EvictStates /\ ~goto_flush_op

(* The tags in the pipeline are those in the RAM: in TV until the handler  *)
(* writes them, in TL unless TV misses, in which case they are read again. *)
TagsInv ==
  /\ ReadsTags(tv.req) /\ Unwritten => tv.tags = tag_mem[tv.req.set]
  /\ ReadsTags(tl) /\ (miss_v => miss.state = "DONE") => tag_mem_data_lo = tag_mem[tl.set]

(* A sequence, of whatever. *)
IsSeq(s) == \E S : s \in Seq(S)

(* Whoever enters TL without reading the track RAM lets the track buffer   *)
(* drain, so it has room for the stores that are on their way to it.       *)
FullStore(r) == IF r.op = "ST" /\ r.full THEN 1 ELSE 0
BufInv ==
  /\ IsSeq(sbuf) /\ IsSeq(tbuf)
  /\ Len(sbuf) <= 2
  /\ Len(tbuf) + FullStore(tl) + FullStore(tv.req) <= 2

(* A block is being read from memory; the words of it that have been       *)
(* written; the words of an eviction that have left.                       *)
Filling ==
  \/ miss.state = "GET_FILL_DATA"
  \/ miss.state \in EvictStates /\ ~goto_flush_op /\ ~st_tag_miss_op
Filled == IF dma.state = "GET_FILL_DATA" THEN dma.counter ELSE 0
Sent == IF dma.state = "SEND_EVICT_DATA" THEN dma.counter - 1 ELSE 0

IsBurst(b) ==
  Bursting(b) => "word" \in DOMAIN b /\ b.word \in 0 .. block_size_in_words_p - 1

(* No word of a burst is forgotten on either side of the queues.           *)
BurstInv ==
  /\ IsSeq(in_fifo) /\ IsSeq(out_fifo)
  /\ IsBurst(memory.reading) /\ IsBurst(memory.writing)
  /\ dma.state = "GET_FILL_DATA" => dma.counter \in 0 .. block_size_in_words_p - 1
  /\ dma.state = "SEND_EVICT_DATA" => dma.counter \in 1 .. block_size_in_words_p
  /\ Bursting(memory.reading) => Filling /\ memory.reading.word = Filled + Len(in_fifo)
  /\ ~Bursting(memory.reading) =>
       Len(in_fifo) = IF Filling THEN block_size_in_words_p - Filled ELSE 0
  /\ IF miss.state = "SEND_EVICT_DATA"
     THEN Bursting(memory.writing) /\ memory.writing.word + Len(out_fifo) = Sent
     ELSE Len(out_fifo) = IF Bursting(memory.writing)
                          THEN block_size_in_words_p - memory.writing.word ELSE 0

CacheInv ==
  TypeInv /\ SweepInv /\ TvInv /\ MissInv /\ TagsInv /\ OneHit /\ BufInv /\ BurstInv

-----------------------------------------------------------------------------
(* Sequences of whatever: one element more, one less.                      *)
LEMMA SeqMore ==
  ASSUME NEW s, IsSeq(s), NEW e
  PROVE  /\ Len(s) \in Nat /\ IsSeq(Append(s, e)) /\ Len(Append(s, e)) = Len(s) + 1
         /\ IsSeq(s \o <<e>>) /\ Len(s \o <<e>>) = Len(s) + 1
         /\ IsSeq(s \o <<>>) /\ Len(s \o <<>>) = Len(s)
<1>1. PICK S : s \in Seq(S)
  BY DEF IsSeq
<1> DEFINE T == S \cup {e}
<1>2. s \in Seq(T) /\ e \in T
  BY <1>1, SeqMonotonic
<1> HIDE DEF T
<1>3. Append(s, e) \in Seq(T) /\ Len(Append(s, e)) = Len(s) + 1 /\ Len(s) \in Nat
  BY <1>2, AppendProperties, LenProperties
<1>4. <<e>> \in Seq(T) /\ Len(<<e>>) = 1 /\ <<>> \in Seq(T) /\ Len(<<>>) = 0
  BY <1>2
<1>5. s \o <<e>> \in Seq(T) /\ Len(s \o <<e>>) = Len(s) + 1
  BY <1>2, <1>4, ConcatProperties
<1>6. s \o <<>> \in Seq(T) /\ Len(s \o <<>>) = Len(s)
  BY <1>2, <1>3, <1>4, ConcatProperties
<1>7. QED
  BY <1>3, <1>5, <1>6 DEF IsSeq

(* One less. *)
LEMMA SeqLess ==
  ASSUME NEW s, IsSeq(s), s # <<>>
  PROVE  IsSeq(Tail(s)) /\ Len(Tail(s)) = Len(s) - 1 /\ Len(s) \in Nat \ {0}
<1>1. PICK S : s \in Seq(S)
  BY DEF IsSeq
<1>2. Tail(s) \in Seq(S) /\ Len(Tail(s)) = Len(s) - 1 /\ Len(s) \in Nat /\ Len(s) # 0
  BY <1>1, HeadTailProperties, LenProperties, EmptySeq
<1>3. QED
  BY <1>2 DEF IsSeq

(* None. *)
LEMMA SeqNone == IsSeq(<<>>) /\ \A s : IsSeq(s) => (s = <<>> <=> Len(s) = 0)
<1>1. IsSeq(<<>>)
  BY EmptySeq DEF IsSeq
<1>2. QED
  BY <1>1, EmptySeq DEF IsSeq

(* What follows of the constants. *)
LEMMA NoRequest == NoReq.op = "none" /\ ~ReadsTags(NoReq) /\ Bubble.req = NoReq /\ ~Bubble.miss
BY DEF NoReq, ReadsTags, Bubble

(* A request that misses is in TV. *)
LEMMA MissIsRequest ==
  ASSUME TvInv
  PROVE  miss_v => ReadsTags(tv.req) /\ tv.req # NoReq
BY NoRequest DEF TvInv, miss_v

(* The handler and the DMA engine let everybody else use the RAMs while no *)
(* miss is pending and in the cycle in which one is over.                  *)
LEMMA AtRest ==
  ASSUME MissInv, (miss.state = "START" /\ ~miss_v) \/ miss.state = "DONE"
  PROVE  /\ ~start /\ ~miss_tag_mem_v /\ ~miss_track_mem_v /\ ~dma_data_mem_v
         /\ ~recover /\ ~dma_evict_o /\ dma.state = "IDLE"
<1>1. miss.state \in {"START", "DONE"} /\ dma.state = "IDLE"
  BY DEF MissInv
<1>2. ~start
  BY DEF start
<1>3. ~fill_word /\ ~evict_word /\ ~st_allocate /\ ~fill_allocate /\ ~evict_read
  BY <1>1 DEF fill_word, evict_word, st_allocate, fill_allocate, evict_read
<1>4. QED
  BY <1>1, <1>2, <1>3 DEF miss_tag_mem_v, miss_track_mem_v, dma_data_mem_v, recover, dma_evict_o

(* TV takes over what TL has only when nothing is wrong with its own.      *)
LEMMA TvMoves ==
  ASSUME TvInv, MissInv, NEW ack \in BOOLEAN, ack => v_o, v_we(ack)
  PROVE  (miss.state = "START" /\ ~miss_v) \/ miss.state = "DONE"
<1>1. CASE miss_v
  <2>1. tv.req # NoReq
    BY <1>1, MissIsRequest
  <2>2. v_o
    BY <2>1 DEF v_we
  <2>3. QED
    BY <1>1, <2>2 DEF v_o
<1>2. CASE ~miss_v
  BY <1>2 DEF MissInv, miss_v
<1>3. QED
  BY <1>1, <1>2

(* Who may offer what. *)
LEMMA WhatIsOffered ==
  ASSUME TypeInv, NEW r \in Offers
  PROVE  \/ r = NoReq
         \/ ~Cleared /\ r = Clearing
         \/ Cleared /\ r # NoReq /\ IsRequest(r) /\ ReadsTags(r)
<1>1. swept \in Int /\ swept <= sets_p * ways_p /\ sets_p * ways_p \in Int
  BY CacheAssumption DEF TypeInv
<1>2. CASE swept < sets_p * ways_p
  BY <1>1, <1>2 DEF Offers, Cleared
<1>3. CASE ~(swept < sets_p * ways_p)
  <2>1. Cleared
    BY <1>1, <1>3 DEF Cleared
  <2>2. r = NoReq \/ r \in setting.requests
    BY <1>3 DEF Offers
  <2>3. ASSUME r \in setting.requests
        PROVE  r # NoReq /\ IsRequest(r) /\ ReadsTags(r)
    <3>1. IsRequest(r) /\ r.op \in Operations
      BY <2>3, SettingsAssumption DEF TypeInv, IsRequest
    <3>2. r.op # "none" /\ r.op # "TAGST"
      BY <3>1 DEF Operations, Addressed
    <3>3. QED
      BY <3>1, <3>2, NoRequest DEF ReadsTags
  <2>4. QED
    BY <2>1, <2>2, <2>3
<1>4. QED
  BY <1>2, <1>3

-----------------------------------------------------------------------------
(* An edge: `in' enters TL, if anything does; the pending answer is taken; *)
(* packets and words pass at the DMA ports.                                *)
Stores(ack) == IF sbuf_v(ack) THEN Append(sbuf, sbuf_entry) ELSE sbuf
Tracks(ack) == IF tbuf_v(ack) THEN Append(tbuf, tbuf_entry) ELSE tbuf

(* What may enter, and into what. *)
Entering(in, ack) ==
  /\ \/ in = NoReq
     \/ ~Cleared /\ in = Clearing
     \/ Cleared /\ in # NoReq /\ IsRequest(in) /\ ReadsTags(in)
  /\ in # NoReq =>
       /\ tl' = in /\ (tl = NoReq \/ v_we(ack))
       /\ miss_v => /\ in.op # "TAGST" /\ ~miss_tag_mem_v /\ ~miss_track_mem_v
                    /\ ~dma_data_mem_v /\ ~recover /\ ~dma_evict_o
       /\ ~(Len(sbuf) = 2 /\ sbuf_v(ack) /\ Reads(in))
  /\ in = NoReq => tl' = NoReq \/ (tl' = tl /\ ~v_we(ack))

Acts(in, ack, takes, gives, gets) ==
  /\ ack \in BOOLEAN /\ takes \in BOOLEAN /\ gives \in BOOLEAN /\ gets \in BOOLEAN
  /\ ack => v_o
  /\ takes => TakesPacket
  /\ gives => GivesWord
  /\ gets => TakesWord
  /\ Entering(in, ack)
  /\ tv' = IF ~v_we(ack) THEN tv
           ELSE IF tl = NoReq THEN Bubble ELSE Lookup(Stores(ack), Tracks(ack))
  /\ sbuf' = Drained(Stores(ack), sbuf_yumi(in, ack))
  /\ tbuf' = Drained(Tracks(ack), tbuf_yumi(in, ack))
  /\ setting' = setting
  /\ swept' = IF in.op = "TAGST" THEN swept + 1 ELSE swept
  /\ TagMem(in) /\ MissHandler(takes, ack) /\ DmaEngine /\ Memory(takes, gives, gets)

(* What it does to the other RAMs, and what counts as stored. *)
ActsOnData(in, ack) ==
  /\ DataMem(in, ack, Stores(ack)) /\ TrackMem(in, ack, Tracks(ack))
  /\ StatMem(ack) /\ Stored(ack)

(* When it does so: memory at once if nothing of it stalls; TL waits with   *)
(* TV for an answer.                                                       *)
ActsInTime(in, ack, takes, gives, gets) ==
  /\ prompt_memory => /\ takes <=> TakesPacket
                      /\ gives <=> GivesWord
                      /\ gets <=> TakesWord
  /\ in = NoReq /\ ~ack /\ ~v_we(ack) => tl' = tl
  /\ Waited

(* A handshake takes place only if it can.                                 *)
LEMMA MayIs ==
  ASSUME NEW side, NEW can, NEW x \in May(side, can)
  PROVE  x \in BOOLEAN /\ (x => can) /\ (side \notin setting.stalls => (x <=> can))
BY DEF May

(* Every step is such an edge. *)
LEMMA NextActs ==
  ASSUME TypeInv, SweepInv, TvInv, MissInv, Next
  PROVE  \E in, ack, takes, gives, gets :
           /\ Acts(in, ack, takes, gives, gets) /\ ActsOnData(in, ack)
           /\ ActsInTime(in, ack, takes, gives, gets)
<1>1. PICK ack \in May("client", v_o), takes \in May("packets", TakesPacket),
           gives \in May("fills", GivesWord), gets \in May("evictions", TakesWord),
           r \in Offers, taken \in BOOLEAN :
             /\ taken = tl_we(r, ack)
             /\ Edge(r, IF taken THEN r ELSE NoReq, ack, takes, gives, gets)
  BY Zenon DEF Next
<1>2. /\ ack \in BOOLEAN /\ (ack => v_o) /\ takes \in BOOLEAN /\ (takes => TakesPacket)
      /\ gives \in BOOLEAN /\ (gives => GivesWord) /\ gets \in BOOLEAN /\ (gets => TakesWord)
  BY MayIs
<1> DEFINE in == IF taken THEN r ELSE NoReq
<1>3. /\ Pipeline(r, in, ack, Stores(ack), Tracks(ack))
      /\ setting' = setting
      /\ swept' = IF in.op = "TAGST" THEN swept + 1 ELSE swept
      /\ TagMem(in) /\ MissHandler(takes, ack) /\ DmaEngine /\ Memory(takes, gives, gets)
      /\ DataMem(in, ack, Stores(ack)) /\ TrackMem(in, ack, Tracks(ack))
      /\ StatMem(ack) /\ Stored(ack)
  BY <1>1 DEF Edge, Stores, Tracks
<1>4. /\ tl' = IF taken THEN in ELSE IF sbuf_hazard(r, ack) THEN NoReq ELSE tl
      /\ tv' = IF ~v_we(ack) THEN tv
               ELSE IF tl = NoReq THEN Bubble ELSE Lookup(Stores(ack), Tracks(ack))
      /\ sbuf' = Drained(Stores(ack), sbuf_yumi(in, ack))
      /\ tbuf' = Drained(Tracks(ack), tbuf_yumi(in, ack))
  BY <1>1, <1>3 DEF Pipeline
<1>5. \/ r = NoReq
      \/ ~Cleared /\ r = Clearing
      \/ Cleared /\ r # NoReq /\ IsRequest(r) /\ ReadsTags(r)
  BY WhatIsOffered
<1>6. ASSUME ~taken, ~sbuf_hazard(r, ack), v_we(ack)
      PROVE  FALSE
  <2>1. ~tl_ready(r, ack)
    BY <1>1, <1>6 DEF tl_we
  <2>2. (miss.state = "START" /\ ~miss_v) \/ miss.state = "DONE"
    BY <1>2, <1>6, TvMoves
  <2>3. /\ ~miss_tag_mem_v /\ ~miss_track_mem_v /\ ~dma_data_mem_v /\ ~recover /\ ~dma_evict_o
    BY <2>2, AtRest
  <2>4. miss_v /\ r.op = "TAGST"
    BY <1>6, <2>1, <2>3 DEF tl_ready
  <2>5. Cleared
    BY <2>4, MissIsRequest DEF SweepInv
  <2>6. QED
    BY <1>5, <2>4, <2>5, NoRequest DEF ReadsTags
<1>7. ASSUME taken
      PROVE  /\ tl = NoReq \/ v_we(ack)
             /\ miss_v => /\ in.op # "TAGST" /\ ~miss_tag_mem_v /\ ~miss_track_mem_v
                          /\ ~dma_data_mem_v /\ ~recover /\ ~dma_evict_o
             /\ ~(Len(sbuf) = 2 /\ sbuf_v(ack) /\ Reads(in))
  BY <1>1, <1>7 DEF tl_we, tl_ready, sbuf_hazard
<1>8. Entering(in, ack)
  <2>1. CASE taken
    BY <1>4, <1>5, <1>7, <2>1 DEF Entering
  <2>2. CASE ~taken
    BY <1>4, <1>6, <2>2 DEF Entering
  <2>3. QED
    BY <2>1, <2>2
<1> HIDE DEF in
<1>9. Acts(in, ack, takes, gives, gets)
  BY <1>2, <1>3, <1>4, <1>8 DEF Acts
<1>10. ActsOnData(in, ack)
  BY <1>3 DEF ActsOnData
<1>11. ActsInTime(in, ack, takes, gives, gets)
  <2>1. prompt_memory => {"packets", "fills", "evictions"} \cap setting.stalls = {}
    BY DEF prompt_memory
  <2>2. prompt_memory => /\ takes <=> TakesPacket
                         /\ gives <=> GivesWord
                         /\ gets <=> TakesWord
    BY <1>2, <2>1, MayIs
  <2>3. ASSUME in = NoReq, ~ack, ~v_we(ack) PROVE tl' = tl
    <3>1. ~sbuf_hazard(r, ack)
      BY <2>3 DEF sbuf_hazard, sbuf_v
    <3>2. taken => tl = NoReq
      BY <1>1, <2>3 DEF tl_we
    <3>3. QED
      BY <1>4, <2>3, <3>1, <3>2, Zenon DEF in
  <2>4. QED
    BY <1>1, <2>2, <2>3 DEF ActsInTime, Edge
<1>12. QED
  BY <1>9, <1>10, <1>11

-----------------------------------------------------------------------------
(* What the handler makes of way w when it writes the tags.                *)
HandlersTag(w) ==
  LET old == tag_mem[tv.req.set][w]
  IN  CASE miss.state = "FLUSH_OP" ->
             IF w \in tv.hits /\ tv.req.op \in {"AINV", "AFLINV"}
             THEN [old EXCEPT !.valid = FALSE, !.lock = FALSE] ELSE old
        [] miss.state = "LOCK_OP" ->
             IF w \in tv.hits THEN [old EXCEPT !.lock = (tv.req.op = "ALOCK")] ELSE old
        [] OTHER ->
             IF w = miss.chosen_way
             THEN [valid |-> TRUE, lock |-> tv.req.op = "ALOCK", tag |-> tv.req.tag]
             ELSE old

TagsRead(in) ==
  /\ ~miss_tag_mem_v /\ in.op # "TAGST"
  /\ tag_mem' = tag_mem
  /\ tag_mem_data_lo' = IF recover /\ ReadsTags(tl) THEN tag_mem[tl.set]
                        ELSE IF ReadsTags(in) THEN tag_mem[in.set] ELSE tag_mem_data_lo
TagsCleared(in) ==
  /\ in = Clearing /\ ~Cleared /\ ~miss_v /\ ~miss_tag_mem_v
  /\ tag_mem' = [tag_mem EXCEPT ![Clearing.set] =
                   [w \in Ways |-> IF w = Clearing.way THEN Clearing.info
                                   ELSE tag_mem[Clearing.set][w]]]
TagsWritten(in) ==
  /\ miss_tag_mem_v /\ miss_v /\ in = NoReq
  /\ tag_mem' = [tag_mem EXCEPT ![tv.req.set] = [w \in Ways |-> HandlersTag(w)]]

(* The handler writes while a miss is pending.                             *)
LEMMA WritesInMiss ==
  ASSUME MissInv, miss_tag_mem_v
  PROVE  miss_v /\ miss.state \in MissStates \ {"START", "RECOVER", "DONE"}
<1>1. miss.state \notin {"START", "RECOVER", "DONE"}
  BY DEF miss_tag_mem_v, st_allocate, fill_allocate
<1>2. QED
  BY <1>1 DEF MissInv, miss_v, MissStates

(* The port of the tag RAM does one of three things. *)
LEMMA TagPort ==
  ASSUME MissInv, NEW in, NEW ack, Entering(in, ack), TagMem(in)
  PROVE  TagsRead(in) \/ TagsCleared(in) \/ TagsWritten(in)
<1>1. CASE ~miss_tag_mem_v /\ in.op # "TAGST"
  <2>1. TagsRead(in)
    BY <1>1 DEF TagMem, TagsRead, ReadsTags
  <2>2. QED
    BY <2>1
<1>2. CASE ~miss_tag_mem_v /\ in.op = "TAGST"
  <2>1. in = Clearing /\ in # NoReq /\ ~Cleared /\ ~miss_v
    BY <1>2, NoRequest DEF Entering, ReadsTags
  <2>2. miss.state = "START"
    BY <2>1 DEF MissInv, miss_v
  <2>3. tag_mem' = [tag_mem EXCEPT ![in.set] =
                      [w \in Ways |-> IF w = in.way THEN in.info ELSE tag_mem[in.set][w]]]
    BY <1>2, <2>1, <2>2 DEF TagMem
  <2>4. TagsCleared(in)
    BY <1>2, <2>1, <2>3 DEF TagsCleared
  <2>5. QED
    BY <2>4
<1>3. CASE miss_tag_mem_v
  <2>1. miss_v
    BY <1>3, WritesInMiss
  <2>2. in = NoReq
    BY <1>3, <2>1 DEF Entering
  <2>3. tag_mem' = [tag_mem EXCEPT ![tv.req.set] = [w \in Ways |-> HandlersTag(w)]]
    BY <1>3, <2>1 DEF TagMem, HandlersTag
  <2>4. QED
    BY <1>3, <2>1, <2>2, <2>3 DEF TagsWritten
<1>4. QED
  BY <1>1, <1>2, <1>3

-----------------------------------------------------------------------------
(* The sweep goes way by way and set by set.                               *)
LEMMA DivMod ==
  ASSUME NEW n \in Nat, NEW W \in Nat \ {0}
  PROVE  n \div W \in Nat /\ n % W \in 0 .. W - 1 /\ n = W * (n \div W) + (n % W)
OBVIOUS

(* Multiplication keeps the order. *)
LEMMA Times ==
  ASSUME NEW a \in Int, NEW b \in Int, NEW W \in Nat, a <= b
  PROVE  W * a <= W * b
OBVIOUS

(* Of two numbers the one with the smaller quotient is the smaller. *)
LEMMA SmallerQuotient ==
  ASSUME NEW W \in Nat \ {0}, NEW p \in Int, NEW q \in Int,
         NEW r \in 0 .. W - 1, NEW t \in 0 .. W - 1, p < q
  PROVE  W * p + r < W * q + t
<1>1. W * (p + 1) <= W * q
  BY Times
<1>2. W * (p + 1) = W * p + W /\ W * p \in Int /\ W * q \in Int
  OBVIOUS
<1>3. QED
  BY <1>1, <1>2

(* Quotient and remainder are unique. *)
LEMMA Quotient ==
  ASSUME NEW W \in Nat \ {0}, NEW q \in Nat, NEW r \in 0 .. W - 1
  PROVE  LET n == W * q + r IN n \div W = q /\ n % W = r
<1> DEFINE n == W * q + r
           p == n \div W
           t == n % W
<1>1. n \in Nat
  OBVIOUS
<1>2. p \in Nat /\ t \in 0 .. W - 1 /\ n = W * p + t
  BY <1>1, DivMod
<1> HIDE DEF p, t
<1>3. W * p + t = W * q + r
  BY <1>2
<1>4. W * p \in Int /\ W * q \in Int
  BY <1>2
<1> HIDE DEF n
<1>5. ~(p < q)
  <2>1. p < q => W * p + t < W * q + r
    BY <1>2, SmallerQuotient
  <2>2. QED
    BY <1>2, <1>3, <1>4, <2>1
<1>6. ~(q < p)
  <2>1. q < p => W * q + r < W * p + t
    BY <1>2, SmallerQuotient
  <2>2. QED
    BY <1>2, <1>3, <1>4, <2>1
<1>7. p = q /\ t = r
  BY <1>2, <1>3, <1>4, <1>5, <1>6
<1>8. QED
  BY <1>7 DEF n, p, t

(* One more: the next way, or the first of the next set.                   *)
LEMMA NextInSweep ==
  ASSUME NEW n \in Nat, NEW W \in Nat \ {0}
  PROVE  IF n % W = W - 1 THEN (n + 1) \div W = (n \div W) + 1 /\ (n + 1) % W = 0
                          ELSE (n + 1) \div W = n \div W /\ (n + 1) % W = (n % W) + 1
<1> DEFINE p == n \div W
           t == n % W
<1>1. p \in Nat /\ t \in 0 .. W - 1 /\ n = W * p + t
  BY DivMod
<1> HIDE DEF p, t
<1>2. CASE t = W - 1
  <2>1. n + 1 = W * (p + 1) + 0
    BY <1>1, <1>2
  <2>2. (n + 1) \div W = p + 1 /\ (n + 1) % W = 0
    BY <1>1, <2>1, Quotient
  <2>3. QED
    BY <1>2, <2>2 DEF p, t
<1>3. CASE t # W - 1
  <2>1. n + 1 = W * p + (t + 1) /\ t + 1 \in 0 .. W - 1
    BY <1>1, <1>3
  <2>2. (n + 1) \div W = p /\ (n + 1) % W = t + 1
    BY <1>1, <2>1, Quotient
  <2>3. QED
    BY <1>3, <2>2 DEF p, t
<1>4. QED
  BY <1>2, <1>3

(* Where it ends, and where it is before.                                  *)
LEMMA SweepEnds ==
  ASSUME NEW S \in Nat \ {0}, NEW W \in Nat \ {0}
  PROVE  /\ (S * W) \div W = S /\ (S * W) % W = 0 /\ S * W \in Nat
         /\ \A n \in 0 .. (S * W) - 1 : n \div W \in 0 .. S - 1
<1>1. S * W = W * S + 0 /\ S * W \in Nat
  OBVIOUS
<1>2. (S * W) \div W = S /\ (S * W) % W = 0
  BY <1>1, Quotient
<1>3. ASSUME NEW n \in 0 .. (S * W) - 1
      PROVE  n \div W \in 0 .. S - 1
  <2> DEFINE p == n \div W
             t == n % W
  <2>1. n \in Nat
    BY <1>1
  <2>2. p \in Nat /\ t \in 0 .. W - 1 /\ n = W * p + t
    BY <2>1, DivMod
  <2> HIDE DEF p, t
  <2>3. S <= p => W * S <= W * p
    BY <2>2, Times
  <2>4. n < W * S /\ W * p \in Int /\ W * S \in Int
    BY <1>1, <2>2
  <2>5. p < S
    BY <2>2, <2>3, <2>4
  <2>6. QED
    BY <2>2, <2>5 DEF p
<1>4. QED
  BY <1>1, <1>2, <1>3

-----------------------------------------------------------------------------
(* One row of the tag RAM. *)
Distinct(row) ==
  \A w, x \in Ways : row[w].valid /\ row[x].valid /\ w # x => row[w].tag # row[x].tag

(* The hits are the ways whose valid tag is that of the request.           *)
LEMMA HitsAre ==
  ASSUME NEW r, NEW row \in [Ways -> TagInfo], ReadsTags(r)
  PROVE  /\ tag_hits(r, row) \subseteq Ways
         /\ r.op \in {"TAGFL", "TAGLV", "TAGLA"} => tag_hits(r, row) = {}
         /\ r.op \notin {"TAGFL", "TAGLV", "TAGLA"} =>
              \A w \in Ways : w \in tag_hits(r, row) <=> row[w].valid /\ row[w].tag = r.tag
BY DEF tag_hits, ReadsTags, TagInfo

(* There is at most one. *)
LEMMA OneHitAtMost ==
  ASSUME NEW r, NEW row \in [Ways -> TagInfo], ReadsTags(r), Distinct(row),
         NEW h \in tag_hits(r, row)
  PROVE  tag_hits(r, row) = {h} /\ Min(tag_hits(r, row)) = h /\ h \in Ways
<1>1. \A w \in tag_hits(r, row) : w = h
  BY HitsAre DEF Distinct
<1>2. tag_hits(r, row) = {h} /\ h \in Ways /\ h \in Int
  BY <1>1, HitsAre DEF Ways
<1>3. Min({h}) = h
  BY <1>2 DEF Min
<1>4. QED
  BY <1>2, <1>3

(* A miss of the kinds that fetch or allocate a block: its tag is in none  *)
(* of the ways, or in the one from which a word is missing.                *)
LEMMA Allocating ==
  ASSUME TypeInv, TvInv, MissInv, st_allocate \/ fill_allocate
  PROVE  /\ ReadsTags(tv.req) /\ Unwritten /\ tv.req.op \in Addressed
         /\ miss.state \notin {"FLUSH_OP", "LOCK_OP"}
         /\ \/ tv.hits = {}
            \/ tv.hits # {} /\ miss.chosen_way = tag_hit_way_id
<1>1. miss_v /\ ReadsTags(tv.req)
  <2>1. miss.state # "START"
    BY DEF st_allocate, fill_allocate
  <2>2. QED
    BY <2>1, MissIsRequest DEF MissInv, miss_v
<1>2. CASE st_allocate
  <2>1. st_tag_miss_op /\ miss.state \in {"STORE_TAG_MISS_ALLOCATE", "SEND_EVICT_DATA"}
    BY <1>2 DEF st_allocate, MissInv
  <2>2. tv.req.op = "ST" /\ tv.hits = {}
    BY <2>1 DEF st_tag_miss_op, tag_hit_found
  <2>3. QED
    BY <1>1, <2>1, <2>2 DEF Unwritten, MissStates, EvictStates, goto_flush_op, Addressed
<1>3. CASE fill_allocate
  <2>1. miss.state = "GET_FILL_DATA"
    BY <1>3 DEF fill_allocate
  <2>2. ~goto_flush_op /\ ~goto_lock_op
    BY <2>1 DEF MissInv
  <2>3. tv.miss = misses(tv.req, tv.tags, tv.hits, tv.track_miss) /\ tv.miss
    BY <1>1 DEF TvInv, miss_v
  <2>4. IsRequest(tv.req) /\ tv.req # NoReq
    BY <1>1, NoRequest DEF TypeInv
  <2>5. tv.req.op \in Operations
    BY <1>1, <2>4 DEF IsRequest, ReadsTags
  <2>6. tv.req.op \in {"LD", "ST", "AMO", "ALOCK"}
    BY <2>2, <2>3, <2>5 DEF misses, goto_flush_op, goto_lock_op, Operations, Addressed
  <2>7. CASE tv.req.op = "ALOCK"
    <3>1. tv.hits = {}
      BY <2>2, <2>7 DEF goto_lock_op, tag_hit_found
    <3>2. QED
      BY <1>1, <2>1, <2>6, <3>1 DEF Unwritten, MissStates, EvictStates, Addressed
  <2>8. CASE tv.req.op \in {"LD", "ST", "AMO"}
    <3>1. tv.hits = {} \/ tv.track_miss
      BY <2>3, <2>8 DEF misses
    <3>2. tv.track_miss => tv.hits # {} /\ miss.chosen_way = tag_hit_way_id
      BY <1>1, <2>1 DEF TvInv, MissInv
    <3>3. QED
      BY <1>1, <2>1, <2>6, <3>1, <3>2 DEF Unwritten, MissStates, EvictStates, Addressed
  <2>9. QED
    BY <2>6, <2>7, <2>8
<1>4. QED
  BY <1>2, <1>3

-----------------------------------------------------------------------------
(* Taking away valid bits and changing locks leaves distinct tags distinct. *)
LEMMA FewerValid ==
  ASSUME NEW old, Distinct(old), NEW new,
         \A w \in Ways : new[w].tag = old[w].tag /\ (new[w].valid => old[w].valid)
  PROVE  Distinct(new)
BY DEF Distinct

(* What the miss handler writes keeps the tags of the set distinct.        *)
LEMMA RowWritten ==
  ASSUME TypeInv, SweepInv, TvInv, MissInv, TagsInv, OneHit, miss_tag_mem_v
  PROVE  /\ Cleared /\ tv.req.set \in Sets
         /\ [w \in Ways |-> HandlersTag(w)] \in [Ways -> TagInfo]
         /\ Distinct([w \in Ways |-> HandlersTag(w)])
<1> DEFINE old == tag_mem[tv.req.set]
           new == [w \in Ways |-> HandlersTag(w)]
<1>1. miss_v /\ ReadsTags(tv.req) /\ tv.req # NoReq /\ Cleared
  BY WritesInMiss, MissIsRequest DEF SweepInv
<1>2. tv.req.op \in Operations /\ tv.req.set \in Sets
      /\ (tv.req.op \in Addressed => tv.req.tag \in Tags)
  BY <1>1 DEF TypeInv, IsRequest, ReadsTags
<1>3. old \in [Ways -> TagInfo] /\ Distinct(old)
  BY <1>1, <1>2 DEF TypeInv, OneHit, Distinct, Cleared
<1>4. \A w \in Ways : old[w] \in TagInfo /\ new[w] = HandlersTag(w)
  BY <1>3
<1>5. CASE miss.state = "FLUSH_OP"
  <2>1. \A w \in Ways : HandlersTag(w) = IF w \in tv.hits /\ tv.req.op \in {"AINV", "AFLINV"}
                                        THEN [old[w] EXCEPT !.valid = FALSE, !.lock = FALSE]
                                        ELSE old[w]
    BY <1>5 DEF HandlersTag
  <2>2. \A w \in Ways : /\ HandlersTag(w) \in TagInfo /\ HandlersTag(w).tag = old[w].tag
                        /\ HandlersTag(w).valid => old[w].valid
    BY <1>4, <2>1 DEF TagInfo
  <2> HIDE DEF old
  <2>3. new \in [Ways -> TagInfo] /\ Distinct(new)
    BY <1>3, <1>4, <2>2, FewerValid
  <2>4. QED
    BY <1>1, <1>2, <2>3
<1>6. CASE miss.state = "LOCK_OP"
  <2>1. \A w \in Ways : HandlersTag(w) = IF w \in tv.hits
                                        THEN [old[w] EXCEPT !.lock = (tv.req.op = "ALOCK")]
                                        ELSE old[w]
    BY <1>6 DEF HandlersTag
  <2>2. \A w \in Ways : /\ HandlersTag(w) \in TagInfo /\ HandlersTag(w).tag = old[w].tag
                        /\ HandlersTag(w).valid => old[w].valid
    BY <1>4, <2>1 DEF TagInfo
  <2> HIDE DEF old
  <2>3. new \in [Ways -> TagInfo] /\ Distinct(new)
    BY <1>3, <1>4, <2>2, FewerValid
  <2>4. QED
    BY <1>1, <1>2, <2>3
<1>7. CASE miss.state \notin {"FLUSH_OP", "LOCK_OP"}
  <2> DEFINE c == miss.chosen_way
  <2>1. st_allocate \/ fill_allocate
    BY <1>7 DEF miss_tag_mem_v
  <2>2. /\ tv.req.op \in Addressed /\ Unwritten
        /\ tv.hits = {} \/ (tv.hits # {} /\ c = tag_hit_way_id)
    BY <2>1, Allocating
  <2>3. tv.tags = old /\ tv.hits = tag_hits(tv.req, old)
    BY <1>1, <2>2 DEF TagsInv, TvInv
  <2>4. \A w \in Ways : HandlersTag(w) =
          IF w = c THEN [valid |-> TRUE, lock |-> tv.req.op = "ALOCK", tag |-> tv.req.tag]
          ELSE old[w]
    BY <1>7 DEF HandlersTag
  <2>5. \A w \in Ways : HandlersTag(w) \in TagInfo
    <3>1. [valid |-> TRUE, lock |-> tv.req.op = "ALOCK", tag |-> tv.req.tag] \in TagInfo
      BY <1>2, <2>2, Zenon DEF TagInfo
    <3>2. QED
      BY <1>4, <2>4, <3>1, Zenon
  <2>6. tv.req.op \notin {"TAGFL", "TAGLV", "TAGLA"} \/ tv.req.op = "TAGLA"
    BY <2>2 DEF Addressed
  <2>7. tv.req.op # "TAGLA"
    <3>1. tv.miss = misses(tv.req, tv.tags, tv.hits, tv.track_miss) /\ tv.miss
      BY <1>1 DEF TvInv, miss_v
    <3>2. QED
      BY <3>1 DEF misses
  <2>8. \A w \in Ways : w \in tv.hits <=> old[w].valid /\ old[w].tag = tv.req.tag
    BY <1>1, <1>3, <2>3, <2>6, <2>7, HitsAre
  <2>9. \A w \in tv.hits : w = c
    <3>1. CASE tv.hits = {}
      BY <3>1
    <3>2. CASE tv.hits # {} /\ c = tag_hit_way_id
      <4>1. PICK h : h \in tv.hits
        BY <3>2
      <4>2. tv.hits = {h} /\ Min(tv.hits) = h
        BY <1>1, <1>3, <2>3, <4>1, OneHitAtMost
      <4>3. QED
        BY <3>2, <4>2 DEF tag_hit_way_id
    <3>3. QED
      BY <2>2, <3>1, <3>2
  <2> HIDE DEF old, c
  <2>10. /\ \A w \in Ways : w # c => new[w] = old[w] /\ ~(old[w].valid /\ old[w].tag = tv.req.tag)
         /\ c \in Ways => new[c].tag = tv.req.tag
    BY <1>4, <2>4, <2>8, <2>9
  <2>11. new \in [Ways -> TagInfo]
    BY <2>5
  <2> DEFINE t == tv.req.tag
  <2>12. /\ Distinct(old)
         /\ \A w \in Ways : w # c => new[w] = old[w] /\ ~(old[w].valid /\ old[w].tag = t)
         /\ c \in Ways => new[c].tag = t
    BY <1>3, <2>10
  <2> HIDE DEF new, t
  <2>13. Distinct(new)
    BY ONLY <2>12 DEF Distinct
  <2>14. QED
    BY <1>1, <1>2, <2>11, <2>13 DEF new
<1>8. QED
  BY <1>5, <1>6, <1>7

(* The rows of the tag RAM stay what they must be.                         *)
LEMMA TagsStay ==
  ASSUME TypeInv, SweepInv, TvInv, MissInv, TagsInv, OneHit,
         NEW in, NEW ack, Entering(in, ack), TagMem(in), in # Clearing,
         swept' = swept
  PROVE  tag_mem' \in [Sets -> [Ways -> TagInfo]] /\ OneHit'
<1>1. CASE tag_mem' = tag_mem
  BY <1>1 DEF TypeInv, OneHit
<1>2. CASE miss_tag_mem_v
           /\ tag_mem' = [tag_mem EXCEPT ![tv.req.set] = [w \in Ways |-> HandlersTag(w)]]
  <2> DEFINE new == [w \in Ways |-> HandlersTag(w)]
  <2>1. Cleared /\ tv.req.set \in Sets /\ new \in [Ways -> TagInfo] /\ Distinct(new)
    BY <1>2, RowWritten
  <2> HIDE DEF new
  <2>2. tag_mem' = [tag_mem EXCEPT ![tv.req.set] = new]
    BY <1>2 DEF new
  <2>3. tag_mem' \in [Sets -> [Ways -> TagInfo]]
    BY <2>1, <2>2 DEF TypeInv
  <2>4. \A s \in Sets : Distinct(tag_mem[s])
    BY <2>1 DEF OneHit, Distinct, Cleared
  <2>5. \A s \in Sets : Distinct(tag_mem'[s])
    BY <2>1, <2>2, <2>4 DEF TypeInv
  <2>6. QED
    BY <2>3, <2>5 DEF OneHit, Distinct
<1>3. QED
  BY <1>1, <1>2, TagPort DEF TagsRead, TagsCleared, TagsWritten

-----------------------------------------------------------------------------
(* What the sweep has been to, and what it comes to next.                  *)
Before(s, w, n) == s < n \div ways_p \/ (s = n \div ways_p /\ w < n % ways_p)

(* One step of the sweep adds the way it was at, and no other.             *)
LEMMA OneFurther ==
  ASSUME NEW n \in Nat, NEW s \in Sets, NEW w \in Ways, Before(s, w, n + 1)
  PROVE  Before(s, w, n) \/ (s = n \div ways_p /\ w = n % ways_p)
<1>1. ways_p \in Nat \ {0} /\ s \in Int /\ w \in 0 .. ways_p - 1
  BY CacheAssumption DEF Sets, Ways
<1> DEFINE p == n \div ways_p
           t == n % ways_p
           q == (n + 1) \div ways_p
           u == (n + 1) % ways_p
<1>2. p \in Nat /\ t \in 0 .. ways_p - 1
  BY <1>1, DivMod
<1>3. IF t = ways_p - 1 THEN q = p + 1 /\ u = 0 ELSE q = p /\ u = t + 1
  BY <1>1, NextInSweep
<1>4. s < q \/ (s = q /\ w < u)
  BY DEF Before
<1> HIDE DEF p, t, q, u
<1>5. s < p \/ (s = p /\ w < t) \/ (s = p /\ w = t)
  BY <1>1, <1>2, <1>3, <1>4
<1>6. QED
  BY <1>5 DEF Before, p, t

(* One edge of the sweep. *)
LEMMA Sweeping ==
  ASSUME TypeInv, SweepInv, NEW in, TagsCleared(in)
  PROVE  /\ swept + 1 \in 0 .. sets_p * ways_p
         /\ tag_mem' \in [Sets -> [Ways -> TagInfo]]
         /\ \A s \in Sets, w \in Ways : Before(s, w, swept + 1) => ~tag_mem'[s][w].valid
<1>1. ~Cleared /\ swept \in 0 .. (sets_p * ways_p) - 1 /\ swept \in Nat
  <2>1. sets_p * ways_p \in Nat
    BY CacheAssumption
  <2>2. QED
    BY <2>1 DEF TypeInv, TagsCleared, Cleared
<1>2. swept + 1 \in 0 .. sets_p * ways_p
  <2> DEFINE all == sets_p * ways_p
  <2>1. all \in Nat /\ swept \in 0 .. all - 1
    BY <1>1, CacheAssumption
  <2> HIDE DEF all
  <2>2. swept + 1 \in 0 .. all
    BY <2>1
  <2>3. QED
    BY <2>2 DEF all
<1> DEFINE set == swept \div ways_p
           way == swept % ways_p
           info == [valid |-> FALSE, lock |-> FALSE, tag |-> tag0]
<1>3. set \in Sets /\ way \in Ways
  <2>1. set \in 0 .. sets_p - 1 /\ way \in 0 .. ways_p - 1
    BY <1>1, CacheAssumption, SweepEnds, DivMod
  <2>2. QED
    BY <2>1 DEF Sets, Ways
<1>4. Clearing.set = set /\ Clearing.way = way /\ Clearing.info = info
  BY DEF Clearing
<1>5. info \in TagInfo /\ ~info.valid
  BY CacheAssumption, Zenon DEF TagInfo
<1> HIDE DEF set, way, info
<1> DEFINE new == [w \in Ways |-> IF w = way THEN info ELSE tag_mem[set][w]]
<1>6. tag_mem' = [tag_mem EXCEPT ![set] = new]
  BY <1>4 DEF TagsCleared
<1>7. new \in [Ways -> TagInfo]
  BY <1>3, <1>5 DEF TypeInv
<1>8. \A w \in Ways : new[w] = IF w = way THEN info ELSE tag_mem[set][w]
  OBVIOUS
<1> HIDE DEF new
<1>9. tag_mem' \in [Sets -> [Ways -> TagInfo]] /\ tag_mem'[set] = new
      /\ \A s \in Sets : s # set => tag_mem'[s] = tag_mem[s]
  BY <1>3, <1>6, <1>7 DEF TypeInv
<1>10. ASSUME NEW s \in Sets, NEW w \in Ways, Before(s, w, swept + 1)
       PROVE  ~tag_mem'[s][w].valid
  <2>1. CASE Before(s, w, swept)
    <3>1. ~tag_mem[s][w].valid
      BY <1>1, <2>1 DEF SweepInv, Before
    <3>2. QED
      BY <1>5, <1>8, <1>9, <3>1
  <2>2. CASE s = set /\ w = way
    BY <1>5, <1>8, <1>9, <2>2
  <2>3. QED
    BY <1>1, <1>10, <2>1, <2>2, OneFurther DEF set, way
<1>11. QED
  BY <1>2, <1>9, <1>10

(* Everyone passes on what was offered.                                    *)
LEMMA WhoIsWhere ==
  ASSUME NEW in, NEW ack, NEW takes, NEW gives, NEW gets, Acts(in, ack, takes, gives, gets)
  PROVE  /\ tl' = in \/ tl' = NoReq \/ tl' = tl
         /\ tv'.req = tv.req \/ tv'.req = NoReq \/ tv'.req = tl
<1>1. Bubble.req = NoReq /\ \A stores, tracks : Lookup(stores, tracks).req = tl
  BY DEF Bubble, Lookup
<1>2. QED
  BY <1>1 DEF Acts, Entering

(* The invariant's first parts, and the claim about the tags.              *)
LEMMA TypeStays ==
  ASSUME CacheInv,
         NEW in, NEW ack, NEW takes, NEW gives, NEW gets, Acts(in, ack, takes, gives, gets)
  PROVE  TypeInv' /\ SweepInv' /\ OneHit'
<1> USE DEF CacheInv
<1>1. IsRequest(Clearing) /\ IsRequest(NoReq) /\ ~ReadsTags(Clearing) /\ ~ReadsTags(NoReq)
      /\ Clearing.op = "TAGST" /\ Clearing # NoReq
  BY NoRequest DEF IsRequest, Clearing, ReadsTags
<1>2. /\ in = NoReq \/ (~Cleared /\ in = Clearing)
         \/ (Cleared /\ in # NoReq /\ IsRequest(in) /\ ReadsTags(in))
      /\ setting' = setting /\ swept' = IF in.op = "TAGST" THEN swept + 1 ELSE swept
      /\ Entering(in, ack) /\ TagMem(in)
  BY DEF Acts, Entering
<1>3. IsRequest(tl)' /\ IsRequest(tv.req)'
  <2>1. IsRequest(tl') /\ IsRequest(tv'.req)
    BY <1>1, <1>2, WhoIsWhere DEF TypeInv
  <2>2. QED
    BY <1>2, <2>1 DEF IsRequest
<1>4. ~Cleared => ~ReadsTags(tl') /\ ~ReadsTags(tv.req')
  BY <1>1, <1>2, WhoIsWhere DEF SweepInv
<1>5. CASE in = Clearing
  <2>1. ~Cleared /\ swept' = swept + 1
    BY <1>1, <1>2, <1>5
  <2>2. TagsCleared(in)
    <3>1. TagsRead(in) \/ TagsCleared(in) \/ TagsWritten(in)
      BY <1>2, TagPort
    <3>2. QED
      BY <1>1, <1>5, <3>1 DEF TagsRead, TagsWritten
  <2>3. /\ swept' \in 0 .. sets_p * ways_p
        /\ tag_mem' \in [Sets -> [Ways -> TagInfo]]
        /\ \A s \in Sets, w \in Ways : Before(s, w, swept') => ~tag_mem'[s][w].valid
    BY <2>1, <2>2, Sweeping
  <2>4. TypeInv'
    BY <1>2, <1>3, <2>3 DEF TypeInv
  <2>5. SweepInv'
    BY <1>4, <2>1, <2>3 DEF SweepInv, Before
  <2>6. ASSUME Cleared', NEW s \in Sets, NEW w \in Ways
        PROVE  ~tag_mem'[s][w].valid
    <3>1. swept' \div ways_p = sets_p
      BY <2>6, CacheAssumption, SweepEnds DEF Cleared
    <3>2. Before(s, w, swept')
      BY <3>1, CacheAssumption DEF Before, Sets
    <3>3. QED
      BY <2>3, <3>2
  <2>7. OneHit'
    BY <2>6 DEF OneHit, Cleared
  <2>8. QED
    BY <2>4, <2>5, <2>7
<1>6. CASE in # Clearing
  <2>1. swept' = swept
    BY <1>1, <1>2, <1>6, NoRequest DEF ReadsTags
  <2>2. tag_mem' \in [Sets -> [Ways -> TagInfo]] /\ OneHit'
    BY <1>2, <1>6, <2>1, TagsStay
  <2>3. TypeInv'
    BY <1>2, <1>3, <2>1, <2>2 DEF TypeInv
  <2>4. ASSUME ~Cleared
        PROVE  tag_mem' = tag_mem
    <3>1. ~TagsWritten(in) /\ ~TagsCleared(in)
      BY <1>6, <2>4, MissIsRequest DEF SweepInv, TagsWritten, TagsCleared
    <3>2. QED
      BY <1>2, <3>1, TagPort DEF TagsRead
  <2>5. SweepInv'
    BY <1>4, <2>1, <2>4 DEF SweepInv, Cleared
  <2>6. QED
    BY <2>2, <2>3, <2>5
<1>7. QED
  BY <1>5, <1>6

-----------------------------------------------------------------------------
(* What a request that enters TV learns there.                             *)
LEMMA TvStays ==
  ASSUME CacheInv,
         NEW in, NEW ack, NEW takes, NEW gives, NEW gets, Acts(in, ack, takes, gives, gets)
  PROVE  TvInv'
<1>1. CASE ~v_we(ack)
  <2>1. tv' = tv
    BY <1>1 DEF Acts
  <2>2. QED
    BY <2>1 DEF CacheInv, TvInv, ReadsTags
<1>2. CASE v_we(ack) /\ tl = NoReq
  <2>1. tv' = Bubble
    BY <1>2 DEF Acts
  <2>2. QED
    BY <2>1, NoRequest DEF TvInv
<1>3. CASE v_we(ack) /\ tl # NoReq
  <2>1. tv' = Lookup(Stores(ack), Tracks(ack))
    BY <1>3 DEF Acts
  <2> DEFINE hits == tag_hits(tl, tag_mem_data_lo)
             known ==
               ReadsTrack(tl) /\ \E i \in DOMAIN Tracks(ack) : Tracks(ack)[i].place = Place(tl)
             missing == untracked(tl, hits, track_mem_data_lo, known)
  <2>2. /\ tv'.req = tl /\ tv'.tags = tag_mem_data_lo /\ tv'.hits = hits
        /\ tv'.track_miss = missing /\ tv'.miss = misses(tl, tag_mem_data_lo, hits, missing)
    BY <2>1 DEF Lookup
  <2>3. missing \in BOOLEAN /\ (missing => hits # {} /\ tl.op \in {"LD", "ST", "AMO"})
    BY DEF untracked, ReadsTrack, Reads, partial_st
  <2> HIDE DEF missing, hits, known
  <2>4. ~ReadsTags(tl) => ~misses(tl, tag_mem_data_lo, hits, missing)
    BY DEF ReadsTags, misses
  <2>5. QED
    BY <2>2, <2>3, <2>4 DEF TvInv, ReadsTags, hits
<1>4. QED
  BY <1>1, <1>2, <1>3

(* The handler starts over in the very edge in which TV moves on.          *)
LEMMA StartsOver ==
  ASSUME CacheInv,
         NEW in, NEW ack, NEW takes, NEW gives, NEW gets, Acts(in, ack, takes, gives, gets)
  PROVE  IF v_we(ack)
         THEN /\ miss.state \in {"START", "DONE"} /\ miss'.state = "START"
              /\ dma.state = "IDLE" /\ dma'.state = "IDLE"
              /\ (miss.state = "START" /\ ~miss_v) \/ miss.state = "DONE"
         ELSE tv' = tv
<1>1. CASE v_we(ack)
  <2>1. (miss.state = "START" /\ ~miss_v) \/ miss.state = "DONE"
    BY <1>1, TvMoves DEF Acts, CacheInv
  <2>2. dma.state = "IDLE" /\ ~start
    BY <2>1, AtRest DEF CacheInv
  <2>3. dma'.state = "IDLE"
    BY <2>1, <2>2 DEF Acts, DmaEngine, dma_state_n
  <2>4. miss'.state = "START"
    <3>1. miss.state = "DONE" => ack
      BY <1>1, MissIsRequest DEF CacheInv, MissInv, miss_v, v_we
    <3>2. QED
      BY <2>1, <2>2, <3>1 DEF Acts, MissHandler, miss_state_n
  <2>5. QED
    BY <1>1, <2>1, <2>2, <2>3, <2>4
<1>2. CASE ~v_we(ack)
  BY <1>2 DEF Acts
<1>3. QED
  BY <1>1, <1>2

(* The states of the handler, one by one.                                  *)
LEMMA HandlerMoves ==
  ASSUME NEW takes, NEW ack, MissHandler(takes, ack), miss.state \in MissStates
  PROVE  /\ miss.state = "START" =>
              IF ~start THEN miss'.state = "START"
              ELSE IF goto_flush_op THEN miss'.state = "FLUSH_OP"
              ELSE IF goto_lock_op THEN miss'.state = "LOCK_OP"
              ELSE IF st_tag_miss_op THEN miss'.state = "STORE_TAG_MISS"
              ELSE miss'.state = "SEND_FILL_ADDR"
         /\ miss.state = "SEND_FILL_ADDR" =>
              \/ miss'.state = "SEND_FILL_ADDR" /\ ~takes
              \/ miss'.state = "SEND_EVICT_ADDR" /\ ~tv.track_miss /\ takes
              \/ /\ miss'.state = "GET_FILL_DATA" /\ takes
                 /\ tv.track_miss => miss'.chosen_way = tag_hit_way_id
         /\ miss.state = "FLUSH_OP" => miss'.state \in {"SEND_EVICT_ADDR", "RECOVER"}
         /\ miss.state = "SEND_EVICT_ADDR" =>
              IF takes THEN miss'.state = "SEND_EVICT_DATA" ELSE miss'.state = "SEND_EVICT_ADDR"
         /\ miss.state = "SEND_EVICT_DATA" =>
              IF ~evict_done THEN miss'.state = "SEND_EVICT_DATA"
              ELSE IF goto_flush_op \/ st_tag_miss_op THEN miss'.state = "RECOVER"
              ELSE miss'.state = "GET_FILL_DATA"
         /\ miss.state = "GET_FILL_DATA" =>
              /\ IF fill_done THEN miss'.state = "RECOVER" ELSE miss'.state = "GET_FILL_DATA"
              /\ miss'.chosen_way = miss.chosen_way
         /\ miss.state = "STORE_TAG_MISS" =>
              miss'.state \in {"SEND_EVICT_ADDR", "STORE_TAG_MISS_ALLOCATE"}
         /\ miss.state \in {"LOCK_OP", "STORE_TAG_MISS_ALLOCATE"} => miss'.state = "RECOVER"
         /\ miss.state = "RECOVER" => miss'.state = "DONE"
         /\ miss.state = "DONE" => miss'.state = IF ack THEN "START" ELSE "DONE"
<1>1. miss'.state = miss_state_n(takes, ack) /\ miss'.chosen_way = chosen_way_n
  BY DEF MissHandler
<1>2. miss.state = "SEND_FILL_ADDR" /\ tv.track_miss => miss'.chosen_way = tag_hit_way_id
  BY <1>1 DEF chosen_way_n
<1>3. miss.state = "GET_FILL_DATA" => miss'.chosen_way = miss.chosen_way
  BY <1>1 DEF chosen_way_n
<1>4. QED
  BY <1>1, <1>2, <1>3 DEF miss_state_n, MissStates, EvictStates

(* And those of the DMA engine.                                            *)
LEMMA EngineMoves ==
  ASSUME MissInv, DmaEngine
  PROVE  /\ dma.state = "IDLE" =>
              dma'.state = IF miss.state \in {"GET_FILL_DATA", "SEND_EVICT_DATA"}
                           THEN miss.state ELSE "IDLE"
         /\ dma.state = "GET_FILL_DATA" =>
              IF fill_done THEN dma'.state = "IDLE" ELSE dma'.state = "GET_FILL_DATA"
         /\ dma.state = "SEND_EVICT_DATA" =>
              IF evict_done THEN dma'.state = "IDLE" ELSE dma'.state = "SEND_EVICT_DATA"
         /\ fill_done => dma.state = "GET_FILL_DATA"
         /\ evict_done => dma.state = "SEND_EVICT_DATA"
<1>1. fill_done => dma.state = "GET_FILL_DATA"
  BY DEF fill_done, fill_word
<1>2. evict_done => dma.state = "SEND_EVICT_DATA"
  BY DEF evict_done, evict_word
<1>3. dma'.state = dma_state_n
  BY DEF DmaEngine
<1>4. QED
  BY <1>1, <1>2, <1>3 DEF dma_state_n, MissInv

(* What a miss of one kind is not. *)
LEMMA Kinds ==
  ASSUME TvInv, miss_v
  PROVE  /\ goto_flush_op => ~goto_lock_op /\ ~tv.track_miss
         /\ st_tag_miss_op => ~goto_flush_op /\ ~goto_lock_op /\ ~tv.track_miss
<1>1. tv.track_miss => tv.hits # {} /\ tv.req.op \in {"LD", "ST", "AMO"}
  BY MissIsRequest DEF TvInv
<1>2. QED
  BY <1>1 DEF goto_flush_op, goto_lock_op, st_tag_miss_op, tag_hit_found

(* Where the handler is and why. *)
LEMMA MissStays ==
  ASSUME CacheInv,
         NEW in, NEW ack, NEW takes, NEW gives, NEW gets, Acts(in, ack, takes, gives, gets)
  PROVE  MissInv'
<1> USE DEF CacheInv
<1>1. CASE v_we(ack)
  <2>1. miss'.state = "START" /\ dma'.state = "IDLE"
    BY <1>1, StartsOver
  <2>2. QED
    BY <2>1 DEF MissInv, MissStates, EvictStates
<1>2. CASE ~v_we(ack)
  <2>1. tv' = tv /\ setting' = setting
    BY <1>2 DEF Acts
  <2>2. /\ goto_flush_op' = goto_flush_op /\ goto_lock_op' = goto_lock_op
        /\ st_tag_miss_op' = st_tag_miss_op /\ tag_hit_way_id' = tag_hit_way_id
        /\ tv'.track_miss = tv.track_miss /\ tv'.miss = tv.miss
    BY <2>1 DEF goto_flush_op, goto_lock_op, st_tag_miss_op, tag_hit_way_id, tag_hit_found,
                word_tracking_p
  <2>3. MissHandler(takes, ack) /\ DmaEngine /\ MissInv
    BY DEF Acts
  <2>4. start \/ miss.state # "START" => miss_v
    BY <2>3 DEF MissInv, start, miss_v
  <2>5. miss'.state # "START" => tv.miss
    <3>1. miss'.state # "START" => start \/ miss.state # "START"
      BY <2>3, HandlerMoves DEF MissInv
    <3>2. QED
      BY <2>4, <3>1 DEF miss_v
  <2>6. /\ miss'.state \in MissStates
        /\ miss'.state = "FLUSH_OP" => goto_flush_op
        /\ miss'.state = "LOCK_OP" => goto_lock_op
        /\ miss'.state \in {"STORE_TAG_MISS", "STORE_TAG_MISS_ALLOCATE"} => st_tag_miss_op
        /\ miss'.state = "SEND_FILL_ADDR" => ~goto_flush_op /\ ~goto_lock_op /\ ~st_tag_miss_op
    BY <2>3, HandlerMoves DEF MissInv, MissStates, EvictStates
  <2>7. miss'.state = "GET_FILL_DATA" => ~goto_flush_op /\ ~goto_lock_op /\ ~st_tag_miss_op
    BY <2>3, HandlerMoves DEF MissInv, MissStates, EvictStates
  <2>8. miss'.state \in EvictStates => ~goto_lock_op /\ ~tv.track_miss
    <3>1. miss'.state \in EvictStates =>
            miss.state \in EvictStates \cup {"FLUSH_OP", "STORE_TAG_MISS", "SEND_FILL_ADDR"}
      BY <2>3, HandlerMoves DEF MissInv, MissStates, EvictStates
    <3>2. miss.state = "SEND_FILL_ADDR" /\ miss'.state \in EvictStates => ~tv.track_miss
      BY <2>3, HandlerMoves DEF MissInv, EvictStates
    <3>3. QED
      BY <2>3, <2>4, <3>1, <3>2, Kinds DEF MissInv, EvictStates
  <2>9. miss'.state = "GET_FILL_DATA" /\ tv.track_miss => miss'.chosen_way = tag_hit_way_id
    BY <2>3, HandlerMoves DEF MissInv, MissStates, EvictStates
  <2>10. /\ dma'.state \in {"IDLE", "GET_FILL_DATA", "SEND_EVICT_DATA"}
         /\ dma'.state # "IDLE" => dma'.state = miss'.state
    BY <2>3, HandlerMoves, EngineMoves DEF MissInv
  <2>11. QED
    BY <2>2, <2>5, <2>6, <2>7, <2>8, <2>9, <2>10 DEF MissInv
<1>3. QED
  BY <1>1, <1>2

-----------------------------------------------------------------------------
(* When the handler writes the tags it is done with them.                  *)
LEMMA WritesOnce ==
  ASSUME MissInv, TvInv, NEW takes, NEW ack, MissHandler(takes, ack), miss_v,
         miss.state = "DONE" => ~ack
  PROVE  /\ miss'.state \in MissStates \ ({"RECOVER", "DONE"} \cup EvictStates)
              => Unwritten /\ ~miss_tag_mem_v
         /\ miss'.state \in EvictStates /\ ~goto_flush_op => Unwritten /\ ~miss_tag_mem_v
<1>1. miss.state \in {"RECOVER", "DONE"} => miss'.state = "DONE"
  BY HandlerMoves DEF MissInv
<1>2. CASE miss_tag_mem_v
  <2>1. \/ miss'.state = "RECOVER"
        \/ miss'.state = "SEND_EVICT_ADDR" /\ goto_flush_op
    <3>1. CASE miss.state = "FLUSH_OP"
      BY <3>1, HandlerMoves DEF MissInv
    <3>2. CASE miss.state = "LOCK_OP"
      BY <3>2, HandlerMoves DEF MissInv
    <3>3. CASE st_allocate
      BY <3>3, HandlerMoves DEF MissInv, st_allocate
    <3>4. CASE fill_allocate
      BY <3>4, HandlerMoves DEF MissInv, fill_allocate
    <3>5. QED
      BY <1>2, <3>1, <3>2, <3>3, <3>4 DEF miss_tag_mem_v
  <2>2. QED
    BY <2>1 DEF EvictStates
<1>3. CASE miss.state \in EvictStates /\ goto_flush_op
  <2>1. miss'.state \in EvictStates \cup {"RECOVER"}
    BY <1>3, HandlerMoves DEF MissInv, EvictStates
  <2>2. QED
    BY <1>3, <2>1
<1>4. CASE Unwritten /\ ~miss_tag_mem_v
  BY <1>4
<1>5. QED
  BY <1>1, <1>2, <1>3, <1>4 DEF Unwritten, MissInv, EvictStates

(* The tags that TV holds. *)
LEMMA TvTagsStay ==
  ASSUME CacheInv,
         NEW in, NEW ack, NEW takes, NEW gives, NEW gets, Acts(in, ack, takes, gives, gets)
  PROVE  ReadsTags(tv'.req) /\ Unwritten' => tv'.tags = tag_mem'[tv'.req.set]
<1> USE DEF CacheInv
<1>1. Entering(in, ack) /\ TagMem(in) /\ MissHandler(takes, ack)
  BY DEF Acts
<1>2. TagsRead(in) \/ TagsCleared(in) \/ TagsWritten(in)
  BY <1>1, TagPort
<1>3. ReadsTags(tl) \/ ReadsTags(tv.req) => ~TagsCleared(in)
  BY DEF SweepInv, TagsCleared
<1>4. CASE v_we(ack)
  <2>1. (miss.state = "START" /\ ~miss_v) \/ miss.state = "DONE"
    BY <1>4, StartsOver
  <2>2. ~miss_tag_mem_v
    BY <2>1, AtRest
  <2>3. CASE ReadsTags(tl)
    <3>1. tag_mem' = tag_mem
      BY <1>2, <1>3, <2>2, <2>3 DEF TagsRead, TagsWritten
    <3>2. tag_mem_data_lo = tag_mem[tl.set]
      BY <2>1, <2>3 DEF TagsInv
    <3>3. tv' = Lookup(Stores(ack), Tracks(ack))
      BY <1>4, <2>3, NoRequest DEF Acts
    <3>4. tv'.req = tl /\ tv'.tags = tag_mem_data_lo
      BY <3>3 DEF Lookup
    <3>5. QED
      BY <3>1, <3>2, <3>4
  <2>4. CASE ~ReadsTags(tl)
    <3>1. tv'.req = NoReq \/ tv'.req = tl
      <4>1. Bubble.req = NoReq /\ \A stores, tracks : Lookup(stores, tracks).req = tl
        BY DEF Bubble, Lookup
      <4>2. QED
        BY <1>4, <4>1 DEF Acts
    <3>2. QED
      BY <2>4, <3>1, NoRequest
  <2>5. QED
    BY <2>3, <2>4
<1>5. CASE ~v_we(ack)
  <2>1. tv' = tv /\ ~ack /\ goto_flush_op' = goto_flush_op
    BY <1>5 DEF Acts, v_we, goto_flush_op
  <2>2. ASSUME ReadsTags(tv.req), Unwritten'
        PROVE  tv.tags = tag_mem'[tv.req.set]
    <3>1. Unwritten /\ ~miss_tag_mem_v
      <4>1. CASE miss_v
        BY <1>1, <2>1, <2>2, <4>1, WritesOnce DEF Unwritten
      <4>2. CASE ~miss_v
        BY <4>2, AtRest DEF MissInv, Unwritten, miss_v, MissStates, EvictStates
      <4>3. QED
        BY <4>1, <4>2
    <3>2. tag_mem' = tag_mem
      BY <1>2, <1>3, <2>2, <3>1 DEF TagsRead, TagsWritten
    <3>3. QED
      BY <2>2, <3>1, <3>2 DEF TagsInv
  <2>3. QED
    BY <2>1, <2>2
<1>6. QED
  BY <1>4, <1>5

(* The tags that wait at the output of the RAM.                            *)
LEMMA TlTagsStay ==
  ASSUME CacheInv,
         NEW in, NEW ack, NEW takes, NEW gives, NEW gets, Acts(in, ack, takes, gives, gets)
  PROVE  ReadsTags(tl') /\ (miss_v' => miss'.state = "DONE")
           => tag_mem_data_lo' = tag_mem'[tl'.set]
<1> USE DEF CacheInv
<1>1. Entering(in, ack) /\ TagMem(in) /\ MissHandler(takes, ack)
  BY DEF Acts
<1>2. TagsRead(in) \/ TagsCleared(in) \/ TagsWritten(in)
  BY <1>1, TagPort
<1>3. recover => miss_v
  BY DEF recover, MissInv, miss_v
<1>4. CASE in # NoReq
  <2>1. tl' = in /\ ~recover /\ ~TagsWritten(in)
    BY <1>1, <1>3, <1>4 DEF Entering, TagsWritten
  <2>2. CASE ReadsTags(in)
    <3>1. TagsRead(in)
      BY <1>2, <2>1, <2>2 DEF TagsCleared, Clearing, ReadsTags
    <3>2. QED
      BY <2>1, <2>2, <3>1 DEF TagsRead
  <2>3. QED
    BY <2>1, <2>2
<1>5. CASE in = NoReq /\ tl' = NoReq
  BY <1>5, NoRequest
<1>6. CASE in = NoReq /\ tl' = tl /\ ~v_we(ack)
  <2>1. tv' = tv /\ miss_v' = miss_v
    BY <1>6 DEF Acts, miss_v
  <2>2. ASSUME ReadsTags(tl), miss_v => miss'.state = "DONE"
        PROVE  tag_mem_data_lo' = tag_mem'[tl.set]
    <3>1. ~miss_v \/ miss.state \in {"RECOVER", "DONE"}
      BY <1>1, <2>2, HandlerMoves DEF MissInv, MissStates, EvictStates
    <3>2. ~miss_tag_mem_v
      BY <3>1, WritesInMiss
    <3>3. TagsRead(in)
      BY <1>2, <1>6, <3>2, NoRequest DEF TagsCleared, TagsWritten, Clearing, ReadsTags
    <3>4. CASE recover
      BY <2>2, <3>3, <3>4 DEF TagsRead
    <3>5. CASE ~recover
      <4>1. tag_mem_data_lo = tag_mem[tl.set]
        BY <2>2, <3>1, <3>5 DEF TagsInv, recover
      <4>2. QED
        BY <1>6, <3>3, <3>5, <4>1, NoRequest DEF TagsRead
    <3>6. QED
      BY <3>4, <3>5
  <2>3. QED
    BY <1>6, <2>1, <2>2
<1>7. QED
  BY <1>1, <1>4, <1>5, <1>6 DEF Entering

-----------------------------------------------------------------------------
(* What one edge leaves in a buffer. *)
LEMMA DrainedLength ==
  ASSUME NEW s, IsSeq(s)
  PROVE  /\ IsSeq(Drained(s, TRUE)) /\ Len(s) \in Nat
         /\ Len(Drained(s, TRUE)) = IF s = <<>> THEN 0 ELSE Len(s) - 1
         /\ Drained(s, FALSE) = s /\ (s = <<>> <=> Len(s) = 0)
<1>1. CASE s = <<>>
  BY <1>1, SeqNone DEF Drained
<1>2. CASE s # <<>>
  BY <1>2, SeqLess, SeqNone DEF Drained
<1>3. QED
  BY <1>1, <1>2

(* Nothing is put into either unless the answer is taken.                  *)
LEMMA OnlyWithAnAnswer ==
  ASSUME NEW ack
  PROVE  ~ack => Stores(ack) = sbuf /\ Tracks(ack) = tbuf
BY DEF Stores, Tracks, sbuf_v, tbuf_v

(* The store buffer. *)
LEMMA StoresFit ==
  ASSUME CacheInv,
         NEW in, NEW ack, NEW takes, NEW gives, NEW gets, Acts(in, ack, takes, gives, gets)
  PROVE  IsSeq(sbuf') /\ Len(sbuf') <= 2
<1>1. /\ ack \in BOOLEAN /\ (ack => v_o) /\ Entering(in, ack)
      /\ sbuf' = Drained(Stores(ack), sbuf_yumi(in, ack))
  BY DEF Acts
<1>2. IsSeq(sbuf) /\ Len(sbuf) <= 2 /\ Len(sbuf) \in Nat
  BY DrainedLength DEF CacheInv, BufInv
<1> DEFINE s == Stores(ack)
<1>3. IsSeq(s) /\ Len(s) \in Nat /\ (Len(s) <= 2 \/ (sbuf_v(ack) /\ Len(sbuf) = 2 /\ Len(s) = 3))
  <2>1. CASE sbuf_v(ack)
    <3>1. s = Append(sbuf, sbuf_entry)
      BY <2>1 DEF Stores
    <3>2. IsSeq(s) /\ Len(s) = Len(sbuf) + 1
      BY <1>2, <3>1, SeqMore
    <3>3. QED
      BY <1>2, <2>1, <3>2
  <2>2. CASE ~sbuf_v(ack)
    BY <1>2, <2>2 DEF Stores
  <2>3. QED
    BY <2>1, <2>2
<1> HIDE DEF s
<1> DEFINE d == Drained(s, TRUE)
<1>4. IsSeq(d) /\ Len(d) \in Nat /\ Len(d) <= Len(s) /\ (Len(s) # 0 => Len(d) = Len(s) - 1)
  <2>1. IsSeq(d) /\ (s = <<>> <=> Len(s) = 0) /\ Len(d) = IF s = <<>> THEN 0 ELSE Len(s) - 1
    BY <1>3, DrainedLength
  <2> HIDE DEF d
  <2>2. QED
    BY <1>3, <2>1
<1> HIDE DEF d
<1>5. CASE sbuf_v(ack) /\ Len(sbuf) = 2 /\ Len(s) = 3
  <2>1. ack /\ ~Reads(in)
    <3>1. ack
      BY <1>5 DEF sbuf_v
    <3>2. in # NoReq => ~Reads(in)
      BY <1>1, <1>5 DEF Entering
    <3>3. QED
      BY <3>1, <3>2 DEF NoReq, Reads
  <2>2. v_we(ack)
    BY <2>1 DEF v_we
  <2>3. ~dma_data_mem_v
    BY <1>1, <2>2, TvMoves, AtRest DEF CacheInv
  <2>4. sbuf_yumi(in, ack)
    BY <2>1, <2>2, <2>3 DEF sbuf_yumi
  <2>5. sbuf' = d
    BY <1>1, <2>4 DEF Drained, s, d
  <2>6. QED
    BY <1>4, <1>5, <2>5
<1>6. CASE Len(s) <= 2
  <2>1. sbuf' = d \/ sbuf' = s
    BY <1>1 DEF Drained, s, d
  <2>2. QED
    BY <1>3, <1>4, <1>6, <2>1
<1>7. QED
  BY <1>3, <1>5, <1>6

(* The track buffer, and the stores on their way to it.                    *)
LEMMA TracksFit ==
  ASSUME CacheInv,
         NEW in, NEW ack, NEW takes, NEW gives, NEW gets, Acts(in, ack, takes, gives, gets)
  PROVE  IsSeq(tbuf') /\ Len(tbuf') + FullStore(tl') + FullStore(tv'.req) <= 2
<1> USE DEF CacheInv
<1>1. /\ ack \in BOOLEAN /\ (ack => v_o) /\ Entering(in, ack)
      /\ tbuf' = Drained(Tracks(ack), tbuf_yumi(in, ack))
  BY DEF Acts
<1>2. IsSeq(tbuf) /\ Len(tbuf) \in Nat /\ Len(tbuf) + FullStore(tl) + FullStore(tv.req) <= 2
  BY DrainedLength DEF BufInv
<1>3. \A r : FullStore(r) \in {0, 1}
  BY DEF FullStore
<1>4. FullStore(NoReq) = 0
  BY NoRequest DEF FullStore
<1> DEFINE t == Tracks(ack)
           left == IF v_we(ack) THEN 0 ELSE FullStore(tv.req)
<1>5. IsSeq(t) /\ Len(t) \in Nat /\ Len(t) + FullStore(tl) + left <= 2
  <2>1. CASE tbuf_v(ack)
    <3>1. t = Append(tbuf, tbuf_entry)
      BY <2>1 DEF Tracks
    <3>2. IsSeq(t) /\ Len(t) = Len(tbuf) + 1
      BY <1>2, <3>1, SeqMore
    <3>3. FullStore(tv.req) = 1 /\ left = 0
      BY <2>1 DEF tbuf_v, FullStore, v_we
    <3>4. QED
      BY <1>2, <1>3, <3>2, <3>3
  <2>2. CASE ~tbuf_v(ack)
    <3>1. t = tbuf
      BY <2>2 DEF Tracks
    <3>2. left \in {0, 1} /\ left <= FullStore(tv.req) /\ FullStore(tv.req) \in {0, 1}
      BY <1>3
    <3>3. QED
      BY <1>2, <1>3, <3>1, <3>2
  <2>3. QED
    BY <2>1, <2>2
<1> HIDE DEF t
<1> DEFINE d == Drained(t, TRUE)
<1>6. IsSeq(d) /\ Len(d) \in Nat /\ Len(d) <= Len(t)
      /\ (Len(d) = 0 \/ Len(d) = Len(t) - 1)
  <2>1. IsSeq(d) /\ (t = <<>> <=> Len(t) = 0) /\ Len(d) = IF t = <<>> THEN 0 ELSE Len(t) - 1
    BY <1>5, DrainedLength
  <2> HIDE DEF d
  <2>2. QED
    BY <1>5, <2>1
<1> HIDE DEF d
<1>7. FullStore(tv'.req) = IF v_we(ack) THEN FullStore(tl) ELSE left
  <2>1. Bubble.req = NoReq /\ \A stores, tracks : Lookup(stores, tracks).req = tl
    BY DEF Bubble, Lookup
  <2>2. IF v_we(ack) THEN tv'.req = tl ELSE tv'.req = tv.req
    BY <2>1 DEF Acts
  <2>3. QED
    BY <2>2
<1>8. /\ tbuf' = d \/ tbuf' = t
      /\ tbuf_yumi(in, ack) => tbuf' = d
  BY <1>1 DEF Drained, t, d
<1> HIDE DEF left
<1>9. IsSeq(tbuf') /\ Len(tbuf') \in Nat /\ Len(tbuf') <= Len(t)
  BY <1>6, <1>5, <1>8
<1>10. CASE in = NoReq
  <2>1. CASE v_we(ack)
    <3>1. FullStore(tl') = 0
      BY <1>1, <1>4, <1>10, <2>1 DEF Entering
    <3>3. left = 0
      BY <2>1 DEF left
    <3>4. QED
      BY <1>3, <1>5, <1>7, <1>9, <2>1, <3>1, <3>3
  <2>2. CASE ~v_we(ack)
    <3>1. FullStore(tl') = 0 \/ FullStore(tl') = FullStore(tl)
      BY <1>1, <1>4, <1>10, <2>2 DEF Entering
    <3>2. left \in {0, 1} /\ FullStore(tl) \in {0, 1} /\ FullStore(tv'.req) = left
      BY <1>3, <1>7, <2>2 DEF left
    <3>3. QED
      BY <1>5, <1>9, <3>1, <3>2
  <2>3. QED
    BY <2>1, <2>2
<1>11. CASE in # NoReq
  <2>1. tl' = in /\ (tl = NoReq \/ v_we(ack))
    BY <1>1, <1>11 DEF Entering
  <2>2. FullStore(tl) + left = FullStore(tv'.req) /\ FullStore(tv'.req) \in {0, 1}
    BY <1>3, <1>4, <1>7, <2>1 DEF left
  <2>3. Len(t) + FullStore(tv'.req) <= 2
    BY <1>3, <1>5, <2>2 DEF left
  <2>4. CASE FullStore(in) = 0
    BY <1>9, <2>1, <2>2, <2>3, <2>4, <1>5
  <2>5. CASE FullStore(in) = 1
    <3>1. ~ReadsTrack(in)
      BY <2>5 DEF FullStore, ReadsTrack, Reads, partial_st
    <3>2. ~miss_track_mem_v
      <4>1. CASE miss_v
        BY <1>1, <1>11, <4>1 DEF Entering
      <4>2. CASE ~miss_v
        BY <4>2, AtRest DEF MissInv, miss_v
      <4>3. QED
        BY <4>1, <4>2
    <3>3. ~(ReadsTrack(tl) /\ ~v_we(ack))
      BY <2>1 DEF NoReq, ReadsTrack, Reads, partial_st
    <3>4. tbuf_yumi(in, ack)
      BY <3>1, <3>2, <3>3 DEF tbuf_yumi
    <3>5. tbuf' = d
      BY <1>8, <3>4
    <3>6. Len(tbuf') = 0 \/ Len(tbuf') = Len(t) - 1
      BY <1>6, <3>5
    <3>7. QED
      BY <1>5, <1>9, <2>1, <2>2, <2>3, <2>5, <3>6
  <2>6. QED
    BY <1>3, <2>4, <2>5
<1>12. QED
  BY <1>10, <1>11

-----------------------------------------------------------------------------
(* A burst ends after its last word and goes on after any other.           *)
LEMMA BurstAdvances ==
  ASSUME NEW b, IsBurst(b), Bursting(b)
  PROVE  /\ b.word \in 0 .. block_size_in_words_p - 1
         /\ IsBurst(Advanced(b))
         /\ b.word = block_size_in_words_p - 1 => ~Bursting(Advanced(b))
         /\ b.word # block_size_in_words_p - 1 =>
              Bursting(Advanced(b)) /\ Advanced(b).word = b.word + 1
<1>1. "word" \in DOMAIN b /\ b.word \in 0 .. block_size_in_words_p - 1
  BY DEF IsBurst
<1> DEFINE c == [b EXCEPT !.word = @ + 1]
<1>2. c.word = b.word + 1 /\ "word" \in DOMAIN c
  BY <1>1
<1>3. c # Idle
  BY <1>2 DEF Idle
<1> HIDE DEF c
<1>4. b.word # block_size_in_words_p - 1 => c.word \in 0 .. block_size_in_words_p - 1
  BY <1>1, <1>2, CacheAssumption
<1>5. Advanced(b) = IF b.word = block_size_in_words_p - 1 THEN Idle ELSE c
  BY DEF Advanced, c
<1>6. QED
  BY <1>1, <1>2, <1>3, <1>4, <1>5 DEF IsBurst, Bursting

(* A new one begins at word 0.                                             *)
LEMMA NewBursts ==
  ASSUME NEW x, NEW mask
  PROVE  /\ Bursting([block |-> x, word |-> 0]) /\ IsBurst([block |-> x, word |-> 0])
         /\ Bursting([block |-> x, word |-> 0, mask |-> mask])
         /\ IsBurst([block |-> x, word |-> 0, mask |-> mask])
<1>1. 0 \in 0 .. block_size_in_words_p - 1
  BY CacheAssumption
<1> DEFINE b == [block |-> x, word |-> 0]
           c == [block |-> x, word |-> 0, mask |-> mask]
<1>2. "word" \in DOMAIN b /\ b.word = 0 /\ "word" \in DOMAIN c /\ c.word = 0
  OBVIOUS
<1>3. b # Idle /\ c # Idle
  BY <1>2 DEF Idle
<1> HIDE DEF b, c
<1>4. Bursting(b) /\ IsBurst(b) /\ Bursting(c) /\ IsBurst(c)
  BY <1>1, <1>2, <1>3 DEF Bursting, IsBurst
<1>5. QED
  BY <1>4 DEF b, c

(* What one edge leaves in a queue between the DMA engine and memory.      *)
LEMMA QueueMoves ==
  ASSUME NEW s, IsSeq(s), NEW e
  PROVE  /\ IsSeq(s \o <<e>>) /\ Len(s \o <<e>>) = Len(s) + 1
         /\ IsSeq(s \o <<>>) /\ Len(s \o <<>>) = Len(s)
         /\ s # <<>> =>
              /\ Len(s) \in Nat \ {0}
              /\ IsSeq(Tail(s) \o <<e>>) /\ Len(Tail(s) \o <<e>>) = Len(s)
              /\ IsSeq(Tail(s) \o <<>>) /\ Len(Tail(s) \o <<>>) = Len(s) - 1
<1>1. IsSeq(s \o <<e>>) /\ Len(s \o <<e>>) = Len(s) + 1
      /\ IsSeq(s \o <<>>) /\ Len(s \o <<>>) = Len(s)
  BY SeqMore
<1>2. CASE s # <<>>
  <2> DEFINE t == Tail(s)
  <2>1. IsSeq(t) /\ Len(t) = Len(s) - 1 /\ Len(s) \in Nat \ {0}
    BY <1>2, SeqLess
  <2> HIDE DEF t
  <2>2. IsSeq(t \o <<e>>) /\ Len(t \o <<e>>) = Len(t) + 1
        /\ IsSeq(t \o <<>>) /\ Len(t \o <<>>) = Len(t)
    BY <2>1, SeqMore
  <2>3. Len(t) + 1 = Len(s)
    BY <2>1
  <2>4. QED
    BY <1>1, <2>1, <2>2, <2>3 DEF t
<1>3. QED
  BY <1>1, <1>2

(* The queue from memory. *)
LEMMA InFifoMoves ==
  ASSUME IsSeq(in_fifo), NEW takes, NEW gives, NEW gets, Memory(takes, gives, gets)
  PROVE  /\ IsSeq(in_fifo') /\ Len(in_fifo) \in Nat
         /\ fill_word => Len(in_fifo) # 0
         /\ fill_word /\ gives => Len(in_fifo') = Len(in_fifo)
         /\ fill_word /\ ~gives => Len(in_fifo') = Len(in_fifo) - 1
         /\ ~fill_word /\ gives => Len(in_fifo') = Len(in_fifo) + 1
         /\ ~fill_word /\ ~gives => Len(in_fifo') = Len(in_fifo)
<1> DEFINE e == memory.data[At(memory.reading)]
<1>1. in_fifo' = (IF fill_word THEN Tail(in_fifo) ELSE in_fifo)
                   \o (IF gives THEN <<e>> ELSE <<>>)
  BY DEF Memory
<1> HIDE DEF e
<1>2. fill_word => in_fifo # <<>>
  BY DEF fill_word
<1>3. Len(in_fifo) \in Nat
  BY SeqMore
<1>4. CASE fill_word /\ gives
  <2>1. in_fifo' = Tail(in_fifo) \o <<e>>
    BY <1>1, <1>4
  <2>2. QED
    BY <1>2, <1>3, <1>4, <2>1, QueueMoves
<1>5. CASE fill_word /\ ~gives
  <2>1. in_fifo' = Tail(in_fifo) \o <<>>
    BY <1>1, <1>5
  <2>2. QED
    BY <1>2, <1>3, <1>5, <2>1, QueueMoves
<1>6. CASE ~fill_word /\ gives
  <2>1. in_fifo' = in_fifo \o <<e>>
    BY <1>1, <1>6
  <2>2. QED
    BY <1>3, <1>6, <2>1, QueueMoves
<1>7. CASE ~fill_word /\ ~gives
  <2>1. in_fifo' = in_fifo \o <<>>
    BY <1>1, <1>7
  <2>2. QED
    BY <1>3, <1>7, <2>1, QueueMoves
<1>8. QED
  BY <1>4, <1>5, <1>6, <1>7

(* The queue to memory. *)
LEMMA OutFifoMoves ==
  ASSUME IsSeq(out_fifo), NEW takes, NEW gives, NEW gets, Memory(takes, gives, gets),
         gets => TakesWord
  PROVE  /\ IsSeq(out_fifo') /\ Len(out_fifo) \in Nat
         /\ gets => Len(out_fifo) # 0
         /\ gets /\ evict_word => Len(out_fifo') = Len(out_fifo)
         /\ gets /\ ~evict_word => Len(out_fifo') = Len(out_fifo) - 1
         /\ ~gets /\ evict_word => Len(out_fifo') = Len(out_fifo) + 1
         /\ ~gets /\ ~evict_word => Len(out_fifo') = Len(out_fifo)
<1> DEFINE e == data_mem_data_lo[dma_way]
<1>1. out_fifo' = (IF gets THEN Tail(out_fifo) ELSE out_fifo)
                    \o (IF evict_word THEN <<e>> ELSE <<>>)
  BY DEF Memory
<1> HIDE DEF e
<1>2. gets => out_fifo # <<>>
  BY DEF TakesWord
<1>3. Len(out_fifo) \in Nat
  BY SeqMore
<1>4. CASE gets /\ evict_word
  <2>1. out_fifo' = Tail(out_fifo) \o <<e>>
    BY <1>1, <1>4
  <2>2. QED
    BY <1>2, <1>3, <1>4, <2>1, QueueMoves
<1>5. CASE gets /\ ~evict_word
  <2>1. out_fifo' = Tail(out_fifo) \o <<>>
    BY <1>1, <1>5
  <2>2. QED
    BY <1>2, <1>3, <1>5, <2>1, QueueMoves
<1>6. CASE ~gets /\ evict_word
  <2>1. out_fifo' = out_fifo \o <<e>>
    BY <1>1, <1>6
  <2>2. QED
    BY <1>3, <1>6, <2>1, QueueMoves
<1>7. CASE ~gets /\ ~evict_word
  <2>1. out_fifo' = out_fifo \o <<>>
    BY <1>1, <1>7
  <2>2. QED
    BY <1>3, <1>7, <2>1, QueueMoves
<1>8. QED
  BY <1>4, <1>5, <1>6, <1>7

-----------------------------------------------------------------------------
(* How far the DMA engine has come with a block.                           *)
LEMMA CounterMoves ==
  ASSUME CacheInv, DmaEngine
  PROVE  /\ dma'.state = "GET_FILL_DATA" => dma'.counter \in 0 .. block_size_in_words_p - 1
         /\ dma'.state = "SEND_EVICT_DATA" => dma'.counter \in 1 .. block_size_in_words_p
         /\ Filled \in 0 .. block_size_in_words_p - 1 /\ Sent \in 0 .. block_size_in_words_p - 1
         /\ IF fill_word
            THEN IF Filled = block_size_in_words_p - 1 THEN fill_done /\ Filled' = 0
                 ELSE ~fill_done /\ Filled' = Filled + 1
            ELSE ~fill_done /\ Filled' = Filled
         /\ IF evict_word
            THEN IF Sent = block_size_in_words_p - 1 THEN evict_done /\ Sent' = 0
                 ELSE ~evict_done /\ Sent' = Sent + 1
            ELSE ~evict_done /\ Sent' = Sent
<1> DEFINE B == block_size_in_words_p
           c == dma.counter
<1>1. /\ B \in Nat \ {0}
      /\ dma.state \in {"IDLE", "GET_FILL_DATA", "SEND_EVICT_DATA"}
      /\ dma.state = "GET_FILL_DATA" => c \in 0 .. B - 1
      /\ dma.state = "SEND_EVICT_DATA" => c \in 1 .. B
  BY CacheAssumption DEF CacheInv, MissInv, BurstInv
<1>2. dma'.counter = dma_counter_n
  BY DEF DmaEngine
<1>3. /\ fill_done <=> fill_word /\ c = B - 1
      /\ evict_done <=> evict_word /\ c = B
      /\ fill_word => dma.state = "GET_FILL_DATA"
      /\ evict_word => dma.state = "SEND_EVICT_DATA"
  BY DEF fill_done, evict_done, fill_word, evict_word
<1>4. /\ Filled = IF dma.state = "GET_FILL_DATA" THEN c ELSE 0
      /\ Filled' = IF dma'.state = "GET_FILL_DATA" THEN dma'.counter ELSE 0
      /\ Sent = IF dma.state = "SEND_EVICT_DATA" THEN c - 1 ELSE 0
      /\ Sent' = IF dma'.state = "SEND_EVICT_DATA" THEN dma'.counter - 1 ELSE 0
  BY DEF Filled, Sent
<1> HIDE DEF B, c
<1>5. CASE dma.state = "IDLE"
  <2>1. dma'.counter = IF miss.state = "SEND_EVICT_DATA" THEN 1 ELSE 0
    BY <1>2, <1>3, <1>5 DEF dma_counter_n
  <2>2. dma'.state = IF miss.state \in {"GET_FILL_DATA", "SEND_EVICT_DATA"}
                     THEN miss.state ELSE "IDLE"
    BY <1>5, EngineMoves DEF CacheInv
  <2>3. QED
    BY <1>1, <1>3, <1>4, <1>5, <2>1, <2>2 DEF B
<1>6. CASE dma.state = "GET_FILL_DATA"
  <2>1. dma'.counter = IF fill_done THEN 0 ELSE IF fill_word THEN c + 1 ELSE c
    BY <1>2, <1>3, <1>6 DEF dma_counter_n, c
  <2>2. IF fill_done THEN dma'.state = "IDLE" ELSE dma'.state = "GET_FILL_DATA"
    BY <1>6, EngineMoves DEF CacheInv
  <2>3. QED
    BY <1>1, <1>3, <1>4, <1>6, <2>1, <2>2 DEF B
<1>7. CASE dma.state = "SEND_EVICT_DATA"
  <2>1. dma'.counter = IF evict_done THEN 0 ELSE IF evict_word THEN c + 1 ELSE c
    BY <1>2, <1>3, <1>7 DEF dma_counter_n, c
  <2>2. IF evict_done THEN dma'.state = "IDLE" ELSE dma'.state = "SEND_EVICT_DATA"
    BY <1>7, EngineMoves DEF CacheInv
  <2>3. QED
    BY <1>1, <1>3, <1>4, <1>7, <2>1, <2>2 DEF B
<1>8. QED
  BY <1>1, <1>5, <1>6, <1>7

(* When the handler begins to wait for a block, and when it stops.         *)
LEMMA FillingMoves ==
  ASSUME CacheInv,
         NEW in, NEW ack, NEW takes, NEW gives, NEW gets, Acts(in, ack, takes, gives, gets)
  PROVE  IF takes /\ miss.state = "SEND_FILL_ADDR" THEN ~Filling /\ Filling'
         ELSE IF fill_done THEN Filling /\ ~Filling' ELSE (Filling' <=> Filling)
<1> USE DEF CacheInv
<1>1. MissHandler(takes, ack) /\ DmaEngine /\ (takes => TakesPacket)
      /\ takes \in BOOLEAN
  BY DEF Acts
<1>2. fill_done => miss.state = "GET_FILL_DATA"
  BY DEF fill_done, fill_word, MissInv
<1>3. CASE v_we(ack)
  <2>1. miss.state \in {"START", "DONE"} /\ miss'.state = "START"
    BY <1>3, StartsOver
  <2>2. ~Filling /\ ~Filling' /\ miss.state # "SEND_FILL_ADDR" /\ ~fill_done
    BY <1>2, <2>1 DEF Filling, EvictStates
  <2>3. QED
    BY <2>2
<1>4. CASE ~v_we(ack)
  <2>1. tv' = tv /\ setting' = setting
    BY <1>4 DEF Acts
  <2>2. goto_flush_op' = goto_flush_op /\ st_tag_miss_op' = st_tag_miss_op
    BY <2>1 DEF goto_flush_op, st_tag_miss_op, tag_hit_found, word_tracking_p
  <2>3. /\ Filling <=> \/ miss.state = "GET_FILL_DATA"
                       \/ miss.state \in EvictStates /\ ~goto_flush_op /\ ~st_tag_miss_op
        /\ Filling' <=> \/ miss'.state = "GET_FILL_DATA"
                        \/ miss'.state \in EvictStates /\ ~goto_flush_op /\ ~st_tag_miss_op
    BY <2>2 DEF Filling
  <2>4. CASE miss.state = "SEND_FILL_ADDR"
    <3>1. ~goto_flush_op /\ ~st_tag_miss_op
      BY <2>4 DEF MissInv
    <3>2. IF takes THEN miss'.state \in {"SEND_EVICT_ADDR", "GET_FILL_DATA"}
          ELSE miss'.state = "SEND_FILL_ADDR"
      BY <1>1, <2>4, HandlerMoves DEF MissInv
    <3>3. QED
      BY <1>2, <2>3, <2>4, <3>1, <3>2 DEF EvictStates
  <2>5. CASE miss.state = "GET_FILL_DATA"
    <3>1. IF fill_done THEN miss'.state = "RECOVER" ELSE miss'.state = "GET_FILL_DATA"
      BY <1>1, <2>5, HandlerMoves DEF MissInv
    <3>2. QED
      BY <2>3, <2>5, <3>1 DEF EvictStates
  <2>6. CASE miss.state \in EvictStates
    <3>1. \/ miss'.state \in EvictStates
          \/ miss'.state = "RECOVER" /\ (goto_flush_op \/ st_tag_miss_op)
          \/ miss'.state = "GET_FILL_DATA" /\ ~goto_flush_op /\ ~st_tag_miss_op
      BY <1>1, <2>6, HandlerMoves DEF MissInv, EvictStates
    <3>2. QED
      BY <1>2, <2>3, <2>6, <3>1 DEF EvictStates
  <2>7. CASE miss.state \in {"FLUSH_OP", "STORE_TAG_MISS"}
    <3>1. miss'.state \in EvictStates => goto_flush_op \/ st_tag_miss_op
      BY <2>7 DEF MissInv
    <3>2. miss'.state # "GET_FILL_DATA"
      BY <1>1, <2>7, HandlerMoves DEF MissInv
    <3>3. QED
      BY <1>2, <2>3, <2>7, <3>1, <3>2 DEF EvictStates
  <2>8. CASE miss.state \in {"START", "LOCK_OP", "STORE_TAG_MISS_ALLOCATE", "RECOVER", "DONE"}
    <3>1. miss'.state \notin EvictStates \cup {"GET_FILL_DATA"}
      BY <1>1, <2>8, HandlerMoves DEF MissInv, EvictStates
    <3>2. QED
      BY <1>2, <2>3, <2>8, <3>1 DEF EvictStates
  <2>9. QED
    BY <2>4, <2>5, <2>6, <2>7, <2>8 DEF MissInv, MissStates
<1>5. QED
  BY <1>3, <1>4

-----------------------------------------------------------------------------
(* Of a block that is being read no word is lost.                          *)
LEMMA FillStays ==
  ASSUME CacheInv,
         NEW in, NEW ack, NEW takes, NEW gives, NEW gets, Acts(in, ack, takes, gives, gets)
  PROVE  /\ IsSeq(in_fifo') /\ IsBurst(memory'.reading)
         /\ Bursting(memory'.reading) =>
              Filling' /\ memory'.reading.word = Filled' + Len(in_fifo')
         /\ ~Bursting(memory'.reading) =>
              Len(in_fifo') = IF Filling' THEN block_size_in_words_p - Filled' ELSE 0
<1> USE DEF CacheInv
<1> DEFINE B == block_size_in_words_p
           b == memory.reading
           c == memory'.reading
           n == Len(in_fifo)
           m == Len(in_fifo')
           begins == takes /\ miss.state = "SEND_FILL_ADDR"
<1>1. /\ Memory(takes, gives, gets) /\ DmaEngine
      /\ (takes => TakesPacket) /\ (gives => GivesWord)
  BY DEF Acts
<1>2. /\ IsSeq(in_fifo) /\ IsBurst(b)
      /\ Bursting(b) => Filling /\ b.word = Filled + n
      /\ ~Bursting(b) => n = IF Filling THEN B - Filled ELSE 0
  BY DEF BurstInv
<1>3. /\ c = IF begins THEN [block |-> fill_block, word |-> 0]
             ELSE IF gives THEN Advanced(b) ELSE b
  BY <1>1 DEF Memory
<1>4. gives => Bursting(b)
  BY <1>1 DEF GivesWord
<1>5. /\ IsSeq(in_fifo') /\ n \in Nat
      /\ fill_word => n # 0
      /\ fill_word /\ gives => m = n
      /\ fill_word /\ ~gives => m = n - 1
      /\ ~fill_word /\ gives => m = n + 1
      /\ ~fill_word /\ ~gives => m = n
  BY <1>1, <1>2, InFifoMoves
<1>6. /\ B \in Nat \ {0} /\ Filled \in 0 .. B - 1
      /\ IF fill_word
         THEN IF Filled = B - 1 THEN fill_done /\ Filled' = 0
              ELSE ~fill_done /\ Filled' = Filled + 1
         ELSE ~fill_done /\ Filled' = Filled
  BY <1>1, CounterMoves, CacheAssumption
<1>7. IF begins THEN ~Filling /\ Filling'
      ELSE IF fill_done THEN Filling /\ ~Filling' ELSE (Filling' <=> Filling)
  BY FillingMoves
<1>8. fill_word => Filling
  BY DEF fill_word, MissInv, Filling
<1>9. CASE begins
  <2>1. Bursting(c) /\ IsBurst(c) /\ c.word = 0
    <3>1. c = [block |-> fill_block, word |-> 0]
      BY <1>3, <1>9
    <3>2. Bursting(c) /\ IsBurst(c)
      BY ONLY <3>1, NewBursts
    <3>3. QED
      BY <3>1, <3>2
  <2>2. b = Idle
    BY <1>1, <1>9 DEF TakesPacket
  <2>3. ~Bursting(b) /\ ~Filling
    BY <1>7, <1>9, <2>2 DEF Bursting
  <2>4. n = 0 /\ ~gives /\ ~fill_word
    BY <1>2, <1>4, <1>8, <2>3
  <2>5. Filled = 0
    BY <1>9 DEF Filled, MissInv
  <2>6. m = 0 /\ Filled' = 0
    BY <1>5, <1>6, <2>4, <2>5
  <2> HIDE DEF c, m
  <2>7. c.word = Filled' + m
    BY <2>1, <2>6
  <2>8. QED
    BY <1>5, <1>7, <1>9, <2>1, <2>7 DEF c, m
<1> HIDE DEF begins
<1>10. CASE ~begins /\ gives
  <2>1. /\ Bursting(b) /\ Filling /\ b.word = Filled + n
    BY <1>2, <1>4, <1>10
  <2>2. /\ b.word \in 0 .. B - 1 /\ IsBurst(c)
        /\ b.word = B - 1 => ~Bursting(c)
        /\ b.word # B - 1 => Bursting(c) /\ c.word = b.word + 1
    BY <1>2, <1>3, <1>10, <2>1, BurstAdvances
  <2> HIDE DEF B, b, c, n, m
  <2>3. ~fill_done
    BY <1>5, <1>6, <2>1, <2>2
  <2>4. Filling'
    BY <1>7, <1>10, <2>1, <2>3
  <2>5. Filled' + m = Filled + n + 1 /\ Filled' \in Int /\ m \in Int
    BY <1>5, <1>6, <1>10, <2>3
  <2>6. b.word # B - 1 => c.word = Filled' + m
    BY <2>1, <2>2, <2>5
  <2>7. b.word = B - 1 => m = B - Filled'
    <3> DEFINE f == Filled'
    <3>1. /\ B \in Nat \ {0} /\ f \in Int /\ m \in Int /\ f + m = Filled + n + 1
          /\ b.word = Filled + n
      BY <1>6, <2>1, <2>5
    <3> HIDE DEF f
    <3>2. b.word = B - 1 => m = B - f
      BY <3>1
    <3>3. QED
      BY <3>2 DEF f
  <2>8. QED
    BY <1>5, <2>2, <2>4, <2>6, <2>7 DEF B, c, m
<1>11. CASE ~begins /\ ~gives
  <2>1. c = b
    BY <1>3, <1>11
  <2>2. CASE Bursting(b)
    <3>1. Filling /\ b.word = Filled + n /\ b.word \in 0 .. B - 1
      BY <1>2, <2>2, BurstAdvances
    <3> HIDE DEF B, b, c, n, m
    <3>2. ~fill_done
      BY <1>5, <1>6, <3>1
    <3>3. Filled' + m = Filled + n
      BY <1>5, <1>6, <1>11, <3>2
    <3>4. QED
      BY <1>2, <1>5, <1>7, <1>11, <2>1, <2>2, <3>1, <3>2, <3>3 DEF c, m
  <2>3. CASE ~Bursting(b)
    <3>1. n = IF Filling THEN B - Filled ELSE 0
      BY <1>2, <2>3
    <3> HIDE DEF B, b, c, n, m
    <3>2. m = IF Filling' THEN B - Filled' ELSE 0
      BY <1>5, <1>6, <1>7, <1>8, <1>11, <3>1
    <3>3. QED
      BY <1>2, <1>5, <2>1, <2>3, <3>2 DEF B, c, m
  <2>4. QED
    BY <2>2, <2>3
<1>12. QED
  BY <1>9, <1>10, <1>11

(* Nor of one that is being written.                                       *)
LEMMA EvictionStays ==
  ASSUME CacheInv,
         NEW in, NEW ack, NEW takes, NEW gives, NEW gets, Acts(in, ack, takes, gives, gets)
  PROVE  /\ IsSeq(out_fifo') /\ IsBurst(memory'.writing)
         /\ IF miss'.state = "SEND_EVICT_DATA"
            THEN Bursting(memory'.writing) /\ memory'.writing.word + Len(out_fifo') = Sent'
            ELSE Len(out_fifo') = IF Bursting(memory'.writing)
                                  THEN block_size_in_words_p - memory'.writing.word ELSE 0
<1> USE DEF CacheInv
<1> DEFINE B == block_size_in_words_p
           b == memory.writing
           c == memory'.writing
           n == Len(out_fifo)
           m == Len(out_fifo')
           begins == takes /\ miss.state = "SEND_EVICT_ADDR"
<1>1. /\ Memory(takes, gives, gets) /\ DmaEngine /\ MissHandler(takes, ack)
      /\ (takes => TakesPacket) /\ (gets => TakesWord) /\ takes \in BOOLEAN
  BY DEF Acts
<1>2. /\ IsSeq(out_fifo) /\ IsBurst(b)
      /\ IF miss.state = "SEND_EVICT_DATA" THEN Bursting(b) /\ b.word + n = Sent
         ELSE n = IF Bursting(b) THEN B - b.word ELSE 0
  BY DEF BurstInv
<1>3. IF begins
      THEN \E mask : c = [block |-> evict_block, word |-> 0, mask |-> mask]
      ELSE c = IF gets THEN Advanced(b) ELSE b
  BY <1>1 DEF Memory
<1>4. gets => Bursting(b)
  BY <1>1 DEF TakesWord
<1>5. /\ IsSeq(out_fifo') /\ n \in Nat
      /\ gets => n # 0
      /\ gets /\ evict_word => m = n
      /\ gets /\ ~evict_word => m = n - 1
      /\ ~gets /\ evict_word => m = n + 1
      /\ ~gets /\ ~evict_word => m = n
  BY <1>1, <1>2, OutFifoMoves
<1>6. /\ B \in Nat \ {0} /\ Sent \in 0 .. B - 1
      /\ IF evict_word
         THEN IF Sent = B - 1 THEN evict_done /\ Sent' = 0
              ELSE ~evict_done /\ Sent' = Sent + 1
         ELSE ~evict_done /\ Sent' = Sent
  BY <1>1, CounterMoves, CacheAssumption
<1>7. /\ evict_word => miss.state = "SEND_EVICT_DATA"
      /\ miss.state # "SEND_EVICT_DATA" => Sent = 0
  BY DEF evict_word, MissInv, Sent
<1>8. IF miss.state = "SEND_EVICT_DATA"
      THEN (miss'.state = "SEND_EVICT_DATA" <=> ~evict_done)
      ELSE (miss'.state = "SEND_EVICT_DATA" <=> begins)
  BY <1>1, HandlerMoves DEF MissInv, MissStates, EvictStates
<1>9. CASE begins
  <2>1. Bursting(c) /\ IsBurst(c) /\ c.word = 0
    <3>1. PICK mask : c = [block |-> evict_block, word |-> 0, mask |-> mask]
      BY <1>3, <1>9
    <3>2. Bursting(c) /\ IsBurst(c)
      BY ONLY <3>1, NewBursts
    <3>3. QED
      BY <3>1, <3>2
  <2>2. ~Bursting(b) /\ miss.state # "SEND_EVICT_DATA"
    BY <1>1, <1>9 DEF TakesPacket, Bursting
  <2>3. n = 0 /\ ~gets /\ ~evict_word /\ Sent' = 0
    BY <1>2, <1>4, <1>6, <1>7, <2>2
  <2>4. m = 0
    BY <1>5, <2>3
  <2>5. miss'.state = "SEND_EVICT_DATA"
    BY <1>8, <1>9, <2>2
  <2> HIDE DEF c, m
  <2>6. c.word + m = Sent'
    BY <2>1, <2>3, <2>4
  <2>7. QED
    BY <1>5, <2>1, <2>5, <2>6 DEF c, m
<1> HIDE DEF begins
<1>10. CASE ~begins /\ gets
  <2>1. Bursting(b) /\ n # 0
    BY <1>4, <1>5, <1>10
  <2>2. /\ b.word \in 0 .. B - 1 /\ IsBurst(c)
        /\ b.word = B - 1 => ~Bursting(c)
        /\ b.word # B - 1 => Bursting(c) /\ c.word = b.word + 1
    BY <1>2, <1>3, <1>10, <2>1, BurstAdvances
  <2> HIDE DEF B, b, c, n, m
  <2>3. CASE miss.state = "SEND_EVICT_DATA"
    <3>1. b.word + n = Sent /\ b.word # B - 1
      BY <1>2, <1>5, <1>6, <2>1, <2>2, <2>3
    <3>2. Bursting(c) /\ c.word = b.word + 1
      BY <2>2, <3>1
    <3>3. IF evict_word THEN m = n ELSE m = n - 1
      BY <1>5, <1>10
    <3>4. ~evict_done => c.word + m = Sent'
      BY <1>5, <1>6, <2>2, <3>1, <3>2, <3>3
    <3>5. evict_done => m = B - c.word
      BY <1>5, <1>6, <2>2, <3>1, <3>2, <3>3
    <3>6. QED
      BY <1>5, <1>8, <2>2, <2>3, <3>2, <3>4, <3>5 DEF B, c, m
  <2>4. CASE miss.state # "SEND_EVICT_DATA"
    <3>1. n = B - b.word /\ ~evict_word
      BY <1>2, <1>7, <2>1, <2>4
    <3>2. m = n - 1
      BY <1>5, <1>10, <3>1
    <3>3. m = IF Bursting(c) THEN B - c.word ELSE 0
      BY <1>6, <2>2, <3>1, <3>2
    <3>4. QED
      BY <1>5, <1>8, <1>10, <2>2, <2>4, <3>3 DEF B, c, m
  <2>5. QED
    BY <2>3, <2>4
<1>11. CASE ~begins /\ ~gets
  <2>1. c = b
    BY <1>3, <1>11
  <2>2. CASE miss.state = "SEND_EVICT_DATA"
    <3>1. Bursting(b) /\ b.word + n = Sent /\ b.word \in 0 .. B - 1
      BY <1>2, <2>2, BurstAdvances
    <3> HIDE DEF B, b, c, n, m
    <3>2. IF evict_word THEN m = n + 1 ELSE m = n
      BY <1>5, <1>11
    <3>3. ~evict_done => b.word + m = Sent'
      BY <1>5, <1>6, <3>1, <3>2
    <3>4. evict_done => m = B - b.word
      BY <1>5, <1>6, <3>1, <3>2
    <3>5. QED
      BY <1>2, <1>5, <1>8, <2>1, <2>2, <3>1, <3>3, <3>4 DEF B, c, m
  <2>3. CASE miss.state # "SEND_EVICT_DATA"
    <3>1. m = n
      BY <1>5, <1>7, <1>11, <2>3
    <3>2. QED
      BY <1>2, <1>5, <1>8, <1>11, <2>1, <2>3, <3>1
  <2>4. QED
    BY <2>2, <2>3
<1>12. QED
  BY <1>9, <1>10, <1>11

-----------------------------------------------------------------------------
(* The invariant holds when the client begins.                             *)
LEMMA CacheBegins == Init => CacheInv
<1> SUFFICES ASSUME Init PROVE CacheInv
  OBVIOUS
<1>1. sets_p \in Nat \ {0} /\ ways_p \in Nat \ {0} /\ block_size_in_words_p \in Nat \ {0}
  BY CacheAssumption
<1>2. sets_p * ways_p \in Nat \ {0}
  BY <1>1
<1>3. 0 \in 0 .. sets_p * ways_p /\ ~Cleared /\ swept = 0
  BY <1>2 DEF Init, Cleared
<1>4. tl = NoReq /\ tv.req = NoReq /\ ~tv.miss /\ ~ReadsTags(tl) /\ ~ReadsTags(tv.req)
  BY NoRequest DEF Init
<1>5. TypeInv
  <2>1. PICK info \in TagInfo : tag_mem = [s \in Sets |-> [w \in Ways |-> info]]
    BY DEF Init
  <2>2. tag_mem \in [Sets -> [Ways -> TagInfo]]
    BY <2>1
  <2>3. setting \in Settings /\ IsRequest(NoReq)
    BY DEF Init, IsRequest
  <2>4. QED
    BY <1>3, <1>4, <2>2, <2>3 DEF TypeInv
<1>6. SweepInv
  <2>1. 0 \div ways_p = 0 /\ 0 % ways_p = 0
    <3>1. 0 = ways_p * 0 + 0 /\ 0 \in 0 .. ways_p - 1
      BY <1>1
    <3>2. QED
      BY <1>1, <3>1, Quotient
  <2>2. \A s \in Sets, w \in Ways : ~(s < 0) /\ ~(w < 0)
    BY DEF Sets, Ways
  <2>3. QED
    BY <1>3, <1>4, <2>1, <2>2 DEF SweepInv
<1>7. TvInv /\ TagsInv /\ OneHit
  BY <1>3, <1>4 DEF TvInv, TagsInv, OneHit, Cleared
<1>8. miss.state = "START" /\ dma.state = "IDLE"
  BY DEF Init
<1>9. MissInv
  BY <1>8 DEF MissInv, MissStates, EvictStates
<1>10. BufInv
  <2>1. sbuf = <<>> /\ tbuf = <<>> /\ FullStore(tl) = 0 /\ FullStore(tv.req) = 0
    BY <1>4, NoRequest DEF Init, FullStore
  <2>2. QED
    BY <2>1, SeqNone DEF BufInv
<1>11. BurstInv
  <2>1. in_fifo = <<>> /\ out_fifo = <<>> /\ ~Bursting(memory.reading) /\ ~Bursting(memory.writing)
    BY DEF Init, Bursting
  <2>2. ~Filling
    BY <1>8 DEF Filling, EvictStates
  <2>3. QED
    BY <1>8, <2>1, <2>2, SeqNone DEF BurstInv, IsBurst
<1>12. QED
  BY <1>5, <1>6, <1>7, <1>9, <1>10, <1>11 DEF CacheInv

(* It does not depend on anything but the variables.                       *)
LEMMA NothingMoves ==
  ASSUME CacheInv, UNCHANGED vars
  PROVE  CacheInv'
<1>1. /\ setting' = setting /\ swept' = swept /\ tl' = tl /\ tv' = tv /\ tag_mem' = tag_mem
      /\ tag_mem_data_lo' = tag_mem_data_lo /\ sbuf' = sbuf /\ tbuf' = tbuf /\ miss' = miss
      /\ dma' = dma /\ in_fifo' = in_fifo /\ out_fifo' = out_fifo /\ memory' = memory
  BY DEF vars, pipeline, rams, outputs
<1>2. TypeInv' /\ SweepInv' /\ OneHit'
  BY <1>1 DEF CacheInv, TypeInv, IsRequest, SweepInv, OneHit, Cleared
<1>3. TvInv'
  BY <1>1 DEF CacheInv, TvInv
<1>4. MissInv'
  BY <1>1 DEF CacheInv, MissInv, goto_flush_op, goto_lock_op, st_tag_miss_op, tag_hit_way_id,
              tag_hit_found, word_tracking_p
<1>5. TagsInv'
  BY <1>1 DEF CacheInv, TagsInv, Unwritten, miss_v, goto_flush_op
<1>6. BufInv'
  BY <1>1 DEF CacheInv, BufInv
<1>7. Filling' = Filling /\ Filled' = Filled /\ Sent' = Sent
  BY <1>1 DEF Filling, Filled, Sent, goto_flush_op, st_tag_miss_op, tag_hit_found, word_tracking_p
<1>8. BurstInv'
  BY <1>1, <1>7 DEF CacheInv, BurstInv
<1>9. QED
  BY <1>2, <1>3, <1>4, <1>5, <1>6, <1>8 DEF CacheInv

(* Every step keeps it. *)
LEMMA CacheStays ==
  ASSUME CacheInv, Next
  PROVE  CacheInv'
<1>1. PICK in, ack, takes, gives, gets : Acts(in, ack, takes, gives, gets)
  BY NextActs DEF CacheInv
<1>2. TypeInv' /\ SweepInv' /\ OneHit'
  BY <1>1, TypeStays
<1>3. TvInv'
  BY <1>1, TvStays
<1>4. MissInv'
  BY <1>1, MissStays
<1>5. TagsInv'
  BY <1>1, TvTagsStay, TlTagsStay DEF TagsInv
<1>6. BufInv'
  BY <1>1, StoresFit, TracksFit DEF BufInv
<1>7. BurstInv'
  <2>1. /\ dma'.state = "GET_FILL_DATA" => dma'.counter \in 0 .. block_size_in_words_p - 1
        /\ dma'.state = "SEND_EVICT_DATA" => dma'.counter \in 1 .. block_size_in_words_p
    BY <1>1, CounterMoves DEF Acts
  <2>2. QED
    BY <1>1, <2>1, FillStays, EvictionStays DEF BurstInv
<1>8. QED
  BY <1>2, <1>3, <1>4, <1>5, <1>6, <1>7 DEF CacheInv

(* For any number of sets, ways and words in a block, any tags, and any    *)
(* requests, with and without word tracking, the pipeline of bsg_cache,    *)
(* its miss handler and its DMA engine keep the invariant: TL and TV work  *)
(* with the tags that are in the RAM, the handler is where its miss has    *)
(* brought it, and of no block a word is forgotten.                        *)
THEOREM CacheInvariant == Spec => []CacheInv
<1>1. CacheInv /\ [Next]_vars => CacheInv'
  BY CacheStays, NothingMoves
<1>2. QED
  BY CacheBegins, <1>1, PTL DEF Spec

(* No two valid ways of a set hold the same block, once the client has     *)
(* cleared the tags: what the miss handler fetches or allocates is in none *)
(* of the ways, or in the one that it goes to.                             *)
THEOREM OneBlockOneWay == Spec => []OneHit
<1>1. CacheInv => OneHit
  BY DEF CacheInv
<1>2. QED
  BY <1>1, CacheInvariant, PTL

(* The store buffer never gets an entry more than it has room for, nor     *)
(* does the track buffer, which nothing keeps from being written when full *)
(* but the pipeline: a store that does not read the track RAM lets it      *)
(* drain when it enters.                                                   *)
THEOREM NoThirdEntry == Spec => []BuffersFit
<1>1. CacheInv => BuffersFit
  <2> SUFFICES ASSUME CacheInv PROVE BuffersFit
    OBVIOUS
  <2>1. FullStore(tl) \in {0, 1} /\ FullStore(tv.req) \in {0, 1}
    BY DEF FullStore
  <2>2. Len(tbuf) \in Nat /\ Len(tbuf) + FullStore(tl) + FullStore(tv.req) <= 2 /\ Len(sbuf) <= 2
    BY DrainedLength DEF CacheInv, BufInv
  <2>3. QED
    BY <2>1, <2>2 DEF BuffersFit
<1>2. QED
  BY <1>1, CacheInvariant, PTL

(* Neither the DMA engine nor a memory that serves one packet at a time    *)
(* ever has to wait for the other to make room first.                      *)
THEOREM MemoryCanGoOn == Spec => []NoCircularWait
<1>1. CacheInv => NoCircularWait
  <2> SUFFICES ASSUME CacheInv PROVE NoCircularWait
    OBVIOUS
  <2> DEFINE B == block_size_in_words_p
             room == Max({2, B})
  <2>1. B \in Nat /\ room \in Int /\ B <= room
    <3>1. B \in Nat
      BY CacheAssumption
    <3> HIDE DEF B
    <3>2. \E x \in {2, B} : \A y \in {2, B} : x >= y
      BY <3>1
    <3>3. room \in {2, B} /\ \A y \in {2, B} : room >= y
      BY <3>2 DEF Max
    <3> HIDE DEF room
    <3>4. QED
      BY <3>1, <3>3
  <2>2. Len(in_fifo) \in Nat /\ Filled \in Nat
    <3>1. Len(in_fifo) \in Nat
      BY SeqMore DEF CacheInv, BurstInv
    <3>2. Filled \in Nat
      BY CacheAssumption DEF CacheInv, BurstInv, Filled
    <3>3. QED
      BY <3>1, <3>2
  <2>3. Bursting(memory.reading) => memory.reading.word = Filled + Len(in_fifo)
    BY DEF CacheInv, BurstInv
  <2>4. dma_pkt_v_o => miss.state # "SEND_EVICT_DATA"
    BY DEF dma_pkt_v_o
  <2>5. dma_pkt_v_o /\ Bursting(memory.writing) =>
          /\ Len(out_fifo) = B - memory.writing.word
          /\ memory.writing.word \in Int
    BY <2>4, BurstAdvances DEF CacheInv, BurstInv
  <2> HIDE DEF B, room
  <2>6. Bursting(memory.reading) => Len(in_fifo) + B - memory.reading.word <= room
    BY <2>1, <2>2, <2>3
  <2>7. dma_pkt_v_o /\ Bursting(memory.writing) =>
          Len(out_fifo) >= B - memory.writing.word
    BY <2>1, <2>5
  <2>8. QED
    BY <2>6, <2>7 DEF NoCircularWait, B, room
<1>2. QED
  BY <1>1, CacheInvariant, PTL

-----------------------------------------------------------------------------
(* The ways that the handler and its flushes name; that the handler works  *)
(* with the row of the stat RAM as it is; that a way it has chosen to take *)
(* another block is locked only if all ways are.                           *)
Replacing ==
  \/ miss.state = "STORE_TAG_MISS_ALLOCATE"
  \/ miss.state \in EvictStates /\ ~goto_flush_op
  \/ miss.state = "GET_FILL_DATA" /\ ~tv.track_miss

WayInv ==
  /\ stat_mem \in [Sets -> [dirty : SUBSET Ways, lru_bits : SUBSET Nodes]]
  /\ ReadsTags(tv.req) => tv.tags \in [Ways -> TagInfo] /\ Distinct(tv.tags)
  /\ miss.chosen_way \in Ways /\ miss.flush_way \in Ways
  /\ miss.state \in {"FLUSH_OP", "STORE_TAG_MISS", "SEND_FILL_ADDR"}
       => stat_mem_data_lo = stat_mem[tv.req.set]
  /\ Replacing /\ tv.tags[miss.chosen_way].lock => \A w \in Ways : tv.tags[w].lock

(* Every set of ways has a first one. *)
LEMMA FirstWay ==
  ASSUME NEW T, T \subseteq Ways, T # {}
  PROVE  Min(T) \in T
<1>1. T \subseteq Nat
  BY DEF Ways
<1> DEFINE R == {ss \in Nat \X Nat : ss[1] < ss[2]}
<1>2. IsWellFoundedOn(R, Nat)
  BY NatLessThanWellFounded, Zenon DEF OpToRel
<1>3. PICK x \in T : \A y \in T : ~(<<y, x>> \in R)
  <2> HIDE DEF R
  <2> QED
    BY <1>1, <1>2, WFMin
<1>4. \A y \in T : x <= y
  <2> SUFFICES ASSUME NEW y \in T PROVE x <= y
    OBVIOUS
  <2>1. x \in Nat /\ y \in Nat /\ ~(y < x)
    BY <1>1, <1>3
  <2>2. QED
    BY <2>1
<1>5. QED
  BY <1>4 DEF Min

(* The way in which the request of TV hits.                                *)
LEMMA HitWay ==
  ASSUME TvInv, WayInv, ReadsTags(tv.req), tag_hit_found
  PROVE  /\ tv.hits = {tag_hit_way_id} /\ tag_hit_way_id \in Ways
         /\ tv.tags[tag_hit_way_id].valid /\ tv.tags[tag_hit_way_id].tag = tv.req.tag
         /\ tv.req.op \notin {"TAGFL", "TAGLV", "TAGLA"}
<1>1. tv.hits = tag_hits(tv.req, tv.tags) /\ tv.tags \in [Ways -> TagInfo] /\ Distinct(tv.tags)
  BY DEF TvInv, WayInv
<1>2. PICK h \in tag_hits(tv.req, tv.tags) : TRUE
  BY <1>1 DEF tag_hit_found
<1>3. tv.hits = {h} /\ tag_hit_way_id = h /\ h \in Ways
  BY <1>1, <1>2, OneHitAtMost DEF tag_hit_way_id
<1>4. PICK row : row = tv.tags
  OBVIOUS
<1>5. row \in [Ways -> TagInfo] /\ h \in tag_hits(tv.req, row) /\ h \in Ways
  BY <1>1, <1>2, <1>3, <1>4
<1>6. /\ tv.req.op \notin {"TAGFL", "TAGLV", "TAGLA"}
      /\ row[h].valid /\ row[h].tag = tv.req.tag
  BY <1>5, HitsAre
<1>7. QED
  BY <1>3, <1>4, <1>6

(* Whom the handler replaces. *)
LEMMA VictimIs ==
  ASSUME NamesEnabledWay, WayInv, ReadsTags(tv.req), tv.req.set \in Sets,
         stat_mem_data_lo = stat_mem[tv.req.set]
  PROVE  /\ victim \in Ways
         /\ tv.tags[victim].lock => \A w \in Ways : tv.tags[w].lock
<1> DEFINE locked == {w \in Ways : tv.tags[w].lock}
           invalid == {w \in Ways \ locked : ~tv.tags[w].valid}
           bits == stat_mem_data_lo.lru_bits
<1>1. CASE invalid # {}
  <2>1. victim = Min(invalid)
    BY <1>1 DEF victim
  <2>2. Min(invalid) \in invalid
    BY <1>1, FirstWay
  <2>3. QED
    BY <2>1, <2>2
<1>2. CASE invalid = {}
  <2>1. victim = lru_way_id(Backed(bits, locked))
    BY <1>2 DEF victim
  <2>2. bits \in SUBSET Nodes /\ locked \in SUBSET Ways
    BY DEF WayInv
  <2> HIDE DEF bits, locked
  <2>3. lru_way_id(Backed(bits, locked)) \in Ways
        /\ (locked # Ways => lru_way_id(Backed(bits, locked)) \notin locked)
    BY <2>2 DEF NamesEnabledWay
  <2>4. QED
    BY <2>1, <2>3 DEF locked
<1>3. QED
  BY <1>1, <1>2

-----------------------------------------------------------------------------
(* Who enters TL and what is done at an edge; a request in TV that reads   *)
(* the tags is one of the client's.                                        *)
LEMMA TvRequest ==
  ASSUME TypeInv, SweepInv, ReadsTags(tv.req)
  PROVE  /\ Cleared /\ tv.req.set \in Sets /\ tv.req.op \in Operations
         /\ tv.req \in setting.requests
         /\ tv.req.op \in Addressed => tv.req.tag \in Tags
         /\ tv.req.op \in {"LD", "ST", "AMO"} => tv.req.word \in Words
         /\ tv.req.op \in {"ST", "AMO"} => tv.req.lane \in BOOLEAN
         /\ tv.req.op = "ST" => tv.req.full \in BOOLEAN /\ (tv.req.full => tv.req.lane)
         /\ tv.req.op = "TAGFL" => tv.req.way \in Ways
<1>1. IsRequest(tv.req) /\ tv.req # NoReq /\ tv.req.op # "TAGST"
  BY NoRequest DEF TypeInv, ReadsTags
<1>2. QED
  BY <1>1 DEF IsRequest, SweepInv

(* What an edge does to the row of TV in the stat RAM. *)
Flushed == IF tv.req.op = "TAGFL" THEN {tv.req.way} ELSE tv.hits
Marked(dirty) ==
  IF tv.track_miss THEN dirty
  ELSE IF Writes(tv.req) THEN dirty \cup {miss.chosen_way} ELSE dirty \ {miss.chosen_way}
StatRow(dirty, bits) ==
  stat_mem' = [stat_mem EXCEPT ![tv.req.set] = [dirty |-> dirty, lru_bits |-> bits]]
Answering(ack) == ~miss_v /\ ack /\ tv.req.op \in {"LD", "ST", "AMO"}

(* What each user of the statistics RAM leaves in its row.                 *)
LEMMA StatPort ==
  ASSUME TypeInv, MissInv, NEW ack, StatMem(ack), ReadsTags(tv.req)
  PROVE  LET row == stat_mem[tv.req.set]
             way == miss.chosen_way
         IN  /\ miss.state = "FLUSH_OP" => StatRow(row.dirty \ Flushed, row.lru_bits)
             /\ st_allocate =>
                  StatRow(row.dirty \cup {way}, Touched(row.lru_bits, way))
             /\ fill_allocate => StatRow(Marked(row.dirty), Touched(row.lru_bits, way))
             /\ Answering(ack) =>
                  StatRow(IF Writes(tv.req) THEN row.dirty \cup tv.hits ELSE row.dirty,
                          Touched(row.lru_bits, tag_hit_way_id))
             /\ miss.state # "FLUSH_OP" /\ ~st_allocate /\ ~fill_allocate /\ ~Answering(ack)
                  => stat_mem' = [stat_mem EXCEPT ![tv.req.set] = row]
<1>1. tv.req # NoReq /\ tv.req.op # "TAGST"
  BY NoRequest DEF ReadsTags
<1>2. /\ miss.state = "FLUSH_OP" => ~st_allocate /\ ~fill_allocate /\ miss_v
      /\ st_allocate => ~fill_allocate /\ miss_v /\ miss.state # "FLUSH_OP"
      /\ fill_allocate => miss_v /\ miss.state # "FLUSH_OP"
  BY DEF st_allocate, fill_allocate, MissInv, miss_v
<1>3. CASE miss.state = "FLUSH_OP"
  BY <1>1, <1>2, <1>3 DEF StatMem, StatRow, Flushed, Answering
<1>4. CASE st_allocate
  BY <1>1, <1>2, <1>4 DEF StatMem, StatRow, Answering
<1>5. CASE fill_allocate
  BY <1>1, <1>2, <1>5 DEF StatMem, StatRow, Marked, Answering
<1>6. CASE miss.state # "FLUSH_OP" /\ ~st_allocate /\ ~fill_allocate /\ Answering(ack)
  BY <1>1, <1>6 DEF StatMem, StatRow, Answering
<1>7. CASE miss.state # "FLUSH_OP" /\ ~st_allocate /\ ~fill_allocate /\ ~Answering(ack)
  BY <1>1, <1>7 DEF StatMem, Answering
<1>8. QED
  BY <1>3, <1>4, <1>5, <1>6, <1>7

(* It stays one. *)
LEMMA StatStays ==
  ASSUME CacheInv, WayInv, NamesEnabledWay, NEW ack \in BOOLEAN, ack => v_o, StatMem(ack)
  PROVE  stat_mem' \in [Sets -> [dirty : SUBSET Ways, lru_bits : SUBSET Nodes]]
<1> DEFINE Stats == [dirty : SUBSET Ways, lru_bits : SUBSET Nodes]
           s == tv.req.set
           row == stat_mem[s]
<1> USE DEF CacheInv
<1>1. CASE tv.req = NoReq
  BY <1>1 DEF StatMem, WayInv
<1>2. CASE tv.req # NoReq /\ ~ReadsTags(tv.req)
  <2>1. tv.req.op = "TAGST" /\ ~miss_v /\ miss.state = "START"
    <3>1. tv.req.op = "TAGST"
      BY <1>2 DEF TypeInv, IsRequest, ReadsTags, Operations, Addressed
    <3>2. ~miss_v /\ miss.state = "START"
      BY <1>2 DEF TvInv, MissInv, miss_v
    <3>3. QED
      BY <3>1, <3>2
  <2>2. ~st_allocate /\ ~fill_allocate
    BY <2>1 DEF st_allocate, fill_allocate
  <2>3. stat_mem' = [stat_mem EXCEPT ![s] = IF ack THEN [dirty |-> {}, lru_bits |-> {}]
                                            ELSE row]
    BY <1>2, <2>1, <2>2 DEF StatMem
  <2>4. QED
    BY <2>3 DEF WayInv
<1>3. CASE ReadsTags(tv.req)
  <2>1. s \in Sets /\ row \in Stats /\ tv.req.op # "TAGST" /\ tv.req # NoReq
    BY <1>3, TvRequest, NoRequest DEF WayInv, ReadsTags
  <2>2. tv.hits \subseteq Ways
    BY <1>3, HitsAre DEF TvInv, WayInv
  <2>3. ~miss_v /\ tv.req.op \in {"LD", "ST", "AMO"} => tag_hit_way_id \in Ways
    <3>1. ~miss_v /\ tv.req.op \in {"LD", "ST", "AMO"} => tag_hit_found
      BY <1>3 DEF TvInv, miss_v, misses, tag_hit_found
    <3>2. QED
      BY <1>3, <3>1, HitWay
  <2>4. \A way \in Ways : Touched(row.lru_bits, way) \in SUBSET Nodes
    <3>1. row.lru_bits \in SUBSET Nodes
      BY <2>1
    <3>2. QED
      BY <3>1 DEF NamesEnabledWay
  <2>5. miss.chosen_way \in Ways
    BY DEF WayInv
  <2>6. \E new \in Stats : stat_mem' = [stat_mem EXCEPT ![s] = new]
    <3>1. row.dirty \in SUBSET Ways /\ row.lru_bits \in SUBSET Nodes
      BY <2>1
    <3>2. \A dirty \in SUBSET Ways, bits \in SUBSET Nodes :
            StatRow(dirty, bits) => \E new \in Stats : stat_mem' = [stat_mem EXCEPT ![s] = new]
      BY DEF StatRow
    <3>3. /\ row.dirty \ Flushed \in SUBSET Ways
          /\ row.dirty \cup {miss.chosen_way} \in SUBSET Ways
          /\ Marked(row.dirty) \in SUBSET Ways
          /\ (IF Writes(tv.req) THEN row.dirty \cup tv.hits ELSE row.dirty) \in SUBSET Ways
      BY <2>2, <2>5, <3>1 DEF Marked
    <3>4. Answering(ack) => Touched(row.lru_bits, tag_hit_way_id) \in SUBSET Nodes
      BY <2>3, <2>4 DEF Answering
    <3> HIDE DEF Stats
    <3>5. CASE miss.state = "FLUSH_OP"
      BY <1>3, <3>1, <3>2, <3>3, <3>5, StatPort
    <3>6. CASE st_allocate
      BY <1>3, <2>4, <2>5, <3>2, <3>3, <3>6, StatPort
    <3>7. CASE fill_allocate
      BY <1>3, <2>4, <2>5, <3>2, <3>3, <3>7, StatPort
    <3>8. CASE Answering(ack)
      BY <1>3, <3>2, <3>3, <3>4, <3>8, StatPort
    <3>9. CASE miss.state # "FLUSH_OP" /\ ~st_allocate /\ ~fill_allocate /\ ~Answering(ack)
      BY <1>3, <2>1, <3>9, StatPort
    <3>10. QED
      BY <3>5, <3>6, <3>7, <3>8, <3>9
  <2>7. QED
    BY <2>1, <2>6 DEF WayInv
<1>4. QED
  BY <1>1, <1>2, <1>3

(* Nothing changes in the row while the handler looks at it.               *)
LEMMA StatRests ==
  ASSUME WayInv, NEW ack, StatMem(ack), miss_v,
         miss.state \notin {"FLUSH_OP", "STORE_TAG_MISS_ALLOCATE", "SEND_EVICT_DATA",
                            "GET_FILL_DATA"}
  PROVE  stat_mem' = stat_mem
<1>1. ~st_allocate /\ ~fill_allocate /\ miss.state # "FLUSH_OP"
  BY DEF st_allocate, fill_allocate
<1>2. QED
  BY <1>1 DEF StatMem, WayInv

-----------------------------------------------------------------------------
(* The ways that the handler names. *)
LEMMA NamesMove ==
  ASSUME NEW takes, NEW ack, MissHandler(takes, ack)
  PROVE  /\ miss'.chosen_way =
              IF miss.state = "SEND_FILL_ADDR" /\ tv.track_miss THEN tag_hit_way_id
              ELSE IF miss.state \in {"SEND_FILL_ADDR", "STORE_TAG_MISS"} THEN victim
              ELSE miss.chosen_way
         /\ miss'.flush_way =
              IF miss.state # "FLUSH_OP" THEN miss.flush_way
              ELSE IF tv.req.op = "TAGFL" THEN tv.req.way ELSE tag_hit_way_id
BY DEF MissHandler, chosen_way_n, flush_way_n

(* What the handler is doing with the request of TV while it is at it.     *)
LEMMA AtWork ==
  ASSUME CacheInv, WayInv, miss.state # "START"
  PROVE  /\ miss_v /\ ReadsTags(tv.req) /\ Cleared /\ tv.req.set \in Sets
         /\ tv.tags \in [Ways -> TagInfo]
         /\ tv.track_miss => tag_hit_found
         /\ miss.state = "FLUSH_OP" => tv.req.op = "TAGFL" \/ tag_hit_found
<1> USE DEF CacheInv
<1>1. miss_v /\ ReadsTags(tv.req)
  BY MissIsRequest DEF MissInv, miss_v
<1>2. Cleared /\ tv.req.set \in Sets
  BY <1>1, TvRequest
<1>3. tv.track_miss => tag_hit_found
  BY <1>1 DEF TvInv, tag_hit_found
<1>4. miss.state = "FLUSH_OP" => tv.req.op = "TAGFL" \/ tag_hit_found
  BY <1>1 DEF MissInv, TvInv, miss_v, misses, tag_hit_found, goto_flush_op
<1>5. QED
  BY <1>1, <1>2, <1>3, <1>4 DEF WayInv

(* The ways that are named are ways, and are not locked if there are others. *)
LEMMA WayStays ==
  ASSUME CacheInv, WayInv, NamesEnabledWay,
         NEW in, NEW ack, NEW takes, NEW gives, NEW gets, Acts(in, ack, takes, gives, gets),
         ActsOnData(in, ack)
  PROVE  WayInv'
<1>1. /\ ack \in BOOLEAN /\ (ack => v_o) /\ MissHandler(takes, ack) /\ StatMem(ack)
      /\ tv' = IF ~v_we(ack) THEN tv
               ELSE IF tl = NoReq THEN Bubble ELSE Lookup(Stores(ack), Tracks(ack))
      /\ TypeInv /\ SweepInv /\ TvInv /\ MissInv /\ TagsInv /\ OneHit
  BY DEF Acts, ActsOnData, CacheInv
<1>2. stat_mem' \in [Sets -> [dirty : SUBSET Ways, lru_bits : SUBSET Nodes]]
  BY <1>1, StatStays
<1>3. ReadsTags(tv'.req) => tv'.tags \in [Ways -> TagInfo] /\ Distinct(tv'.tags)
  <2>1. CASE ~v_we(ack)
    BY <1>1, <2>1 DEF WayInv
  <2>2. CASE v_we(ack) /\ tl = NoReq
    BY <1>1, <2>2, NoRequest
  <2>3. CASE v_we(ack) /\ tl # NoReq
    <3>1. tv'.req = tl /\ tv'.tags = tag_mem_data_lo
      BY <1>1, <2>3 DEF Lookup
    <3>2. ASSUME ReadsTags(tl)
          PROVE  tag_mem_data_lo \in [Ways -> TagInfo] /\ Distinct(tag_mem_data_lo)
      <4>1. (miss.state = "START" /\ ~miss_v) \/ miss.state = "DONE"
        BY <1>1, <2>3, TvMoves
      <4>2. tag_mem_data_lo = tag_mem[tl.set]
        BY <1>1, <3>2, <4>1 DEF TagsInv
      <4>3. Cleared /\ tl.set \in Sets
        BY <1>1, <2>3, <3>2, NoRequest DEF SweepInv, TypeInv, IsRequest, ReadsTags
      <4>4. QED
        BY <1>1, <4>2, <4>3 DEF TypeInv, OneHit, Cleared, Distinct
    <3>3. QED
      BY <3>1, <3>2
  <2>4. QED
    BY <2>1, <2>2, <2>3
<1>4. miss.state # "START" => (miss.state \in {"SEND_FILL_ADDR", "STORE_TAG_MISS"} =>
        victim \in Ways /\ (tv.tags[victim].lock => \A w \in Ways : tv.tags[w].lock))
  <2> SUFFICES ASSUME miss.state \in {"SEND_FILL_ADDR", "STORE_TAG_MISS"}
               PROVE  victim \in Ways /\ (tv.tags[victim].lock => \A w \in Ways : tv.tags[w].lock)
    OBVIOUS
  <2>1. ReadsTags(tv.req) /\ tv.req.set \in Sets
    BY AtWork
  <2>2. stat_mem_data_lo = stat_mem[tv.req.set]
    BY DEF WayInv
  <2>3. QED
    BY <2>1, <2>2, VictimIs
<1>5. miss'.chosen_way \in Ways /\ miss'.flush_way \in Ways
  <2>1. miss.state \in {"SEND_FILL_ADDR", "FLUSH_OP"} /\ tag_hit_found => tag_hit_way_id \in Ways
    BY <1>1, AtWork, HitWay
  <2>2. miss.state = "FLUSH_OP" /\ tv.req.op = "TAGFL" => tv.req.way \in Ways
    BY <1>1, AtWork, TvRequest
  <2>3. miss.state = "SEND_FILL_ADDR" /\ tv.track_miss => tag_hit_found
    BY AtWork
  <2>4. miss.state = "FLUSH_OP" => tv.req.op = "TAGFL" \/ tag_hit_found
    BY AtWork
  <2>5. miss.chosen_way \in Ways /\ miss.flush_way \in Ways
    BY DEF WayInv
  <2>6. QED
    BY <1>1, <1>4, <2>1, <2>2, <2>3, <2>4, <2>5, NamesMove
<1>6. miss'.state \in {"FLUSH_OP", "STORE_TAG_MISS", "SEND_FILL_ADDR"}
        => stat_mem_data_lo' = stat_mem'[tv'.req.set]
  <2> SUFFICES ASSUME miss'.state \in {"FLUSH_OP", "STORE_TAG_MISS", "SEND_FILL_ADDR"}
               PROVE  stat_mem_data_lo' = stat_mem'[tv'.req.set]
    OBVIOUS
  <2>1. start \/ miss.state = "SEND_FILL_ADDR"
    BY <1>1, HandlerMoves DEF MissInv, MissStates, EvictStates
  <2>2. ~v_we(ack) /\ tv' = tv /\ miss_v
    <3>1. ~((miss.state = "START" /\ ~miss_v) \/ miss.state = "DONE")
      BY <2>1 DEF start
    <3>2. ~v_we(ack)
      BY <1>1, <3>1, TvMoves
    <3>3. QED
      BY <1>1, <2>1, <3>2 DEF start, MissInv, miss_v
  <2>3. stat_mem' = stat_mem
    BY <1>1, <2>1, <2>2, StatRests DEF start
  <2>4. stat_mem_data_lo' = IF start THEN stat_mem[tv.req.set] ELSE stat_mem_data_lo
    BY <1>1 DEF StatMem
  <2>5. QED
    BY <2>1, <2>2, <2>3, <2>4 DEF WayInv
<1>7. Replacing' /\ tv'.tags[miss'.chosen_way].lock => \A w \in Ways : tv'.tags[w].lock
  <2> SUFFICES ASSUME Replacing', tv'.tags[miss'.chosen_way].lock
               PROVE  \A w \in Ways : tv'.tags[w].lock
    OBVIOUS
  <2>1. miss'.state \in {"STORE_TAG_MISS_ALLOCATE", "GET_FILL_DATA"} \cup EvictStates
    BY DEF Replacing
  <2>2. miss.state \in {"STORE_TAG_MISS", "SEND_FILL_ADDR", "GET_FILL_DATA", "FLUSH_OP"}
                         \cup EvictStates
    BY <1>1, <2>1, HandlerMoves DEF MissInv, MissStates, EvictStates
  <2>3. tv' = tv
    <3>1. ~v_we(ack)
      BY <1>1, <2>2, TvMoves DEF EvictStates
    <3>2. QED
      BY <1>1, <3>1
  <2>4. CASE miss.state \in {"STORE_TAG_MISS", "SEND_FILL_ADDR"}
    <3>1. ~(miss.state = "SEND_FILL_ADDR" /\ tv.track_miss)
      <4>1. miss.state = "SEND_FILL_ADDR" /\ tv.track_miss =>
              miss'.state \in {"SEND_FILL_ADDR", "GET_FILL_DATA"}
        BY <1>1, HandlerMoves DEF MissInv
      <4>2. QED
        BY <2>3, <4>1 DEF Replacing, EvictStates
    <3>2. miss'.chosen_way = victim
      BY <1>1, <2>4, <3>1, NamesMove
    <3>3. QED
      BY <1>4, <2>3, <2>4, <3>2
  <2>5. CASE miss.state \in {"GET_FILL_DATA", "FLUSH_OP"} \cup EvictStates
    <3>1. miss'.chosen_way = miss.chosen_way
      BY <1>1, <2>5, NamesMove DEF EvictStates
    <3>2. Replacing
      <4>1. miss.state # "FLUSH_OP"
        <5>1. miss.state = "FLUSH_OP" => goto_flush_op /\ miss'.state \in {"SEND_EVICT_ADDR", "RECOVER"}
          BY <1>1, HandlerMoves DEF MissInv
        <5>2. QED
          BY <2>3, <5>1 DEF Replacing, goto_flush_op, EvictStates
      <4>2. CASE miss.state = "GET_FILL_DATA"
        <5>1. miss'.state \in {"GET_FILL_DATA", "RECOVER"}
          BY <1>1, <4>2, HandlerMoves DEF MissInv
        <5>2. QED
          BY <2>3, <4>2, <5>1 DEF Replacing, EvictStates
      <4>3. CASE miss.state \in EvictStates
        <5>1. goto_flush_op => miss'.state \in EvictStates \cup {"RECOVER"}
          BY <1>1, <4>3, HandlerMoves DEF MissInv, EvictStates
        <5>2. QED
          BY <2>3, <4>3, <5>1 DEF Replacing, goto_flush_op, EvictStates
      <4>4. QED
        BY <2>5, <4>1, <4>2, <4>3
    <3>3. QED
      BY <2>3, <3>1, <3>2 DEF WayInv
  <2>6. QED
    BY <2>2, <2>4, <2>5
<1>8. QED
  BY <1>2, <1>3, <1>5, <1>6, <1>7 DEF WayInv

-----------------------------------------------------------------------------
(* The ways are ways when the client begins.                               *)
LEMMA WaysBegin == Init => WayInv
<1> SUFFICES ASSUME Init PROVE WayInv
  OBVIOUS
<1>1. 0 \in Ways
  BY CacheAssumption DEF Ways
<1>2. stat_mem \in [Sets -> [dirty : SUBSET Ways, lru_bits : SUBSET Nodes]]
  BY DEF Init
<1>3. ~ReadsTags(tv.req) /\ miss.state = "START" /\ miss.chosen_way = 0 /\ miss.flush_way = 0
  BY NoRequest DEF Init
<1>4. ~Replacing
  BY <1>3 DEF Replacing, EvictStates
<1>5. QED
  BY <1>1, <1>2, <1>3, <1>4 DEF WayInv

(* They depend on nothing but the variables. *)
LEMMA WaysRest ==
  ASSUME WayInv, UNCHANGED vars
  PROVE  WayInv'
<1>1. /\ tv' = tv /\ miss' = miss /\ stat_mem' = stat_mem /\ stat_mem_data_lo' = stat_mem_data_lo
  BY DEF vars, pipeline, rams, outputs
<1>2. Replacing' = Replacing
  BY <1>1 DEF Replacing, goto_flush_op
<1>3. QED
  BY <1>1, <1>2 DEF WayInv

(* With a way to replace in every set, only a request for its own block    *)
(* touches the tag of a locked way.                                        *)
LEMMA LockedTag ==
  ASSUME CacheInv, WayInv, Cleared,
         \A s \in Sets : \E w \in Ways : ~tag_mem[s][w].lock,
         NEW in, NEW ack, Entering(in, ack), TagMem(in),
         NEW s \in Sets, NEW w \in Ways,
         tag_mem[s][w].valid, tag_mem[s][w].lock, tag_mem[s][w] # tag_mem'[s][w]
  PROVE  /\ tv.req.op \in {"AUNLOCK", "AINV", "AFLINV"} \/ tv.track_miss
         /\ tv.req.tag = tag_mem[s][w].tag
<1> USE DEF CacheInv
<1>1. TagsWritten(in)
  <2>1. TagsRead(in) \/ TagsCleared(in) \/ TagsWritten(in)
    BY TagPort
  <2>2. QED
    BY <2>1 DEF TagsRead, TagsCleared
<1>2. miss_tag_mem_v /\ miss.state \in MissStates \ {"START", "RECOVER", "DONE"}
  BY <1>1, WritesInMiss DEF TagsWritten
<1>3. ReadsTags(tv.req) /\ tv.req.set \in Sets /\ tv.tags \in [Ways -> TagInfo] /\ tv.miss
  BY <1>2, AtWork DEF miss_v
<1>4. s = tv.req.set /\ tag_mem'[s][w] = HandlersTag(w)
  <2>1. tag_mem' = [tag_mem EXCEPT ![tv.req.set] = [x \in Ways |-> HandlersTag(x)]]
    BY <1>1 DEF TagsWritten
  <2>2. QED
    BY <1>3, <2>1 DEF TypeInv
<1>5. Unwritten
  <2>1. CASE miss.state \in {"FLUSH_OP", "LOCK_OP"}
    BY <2>1 DEF Unwritten, MissStates, EvictStates
  <2>2. CASE st_allocate \/ fill_allocate
    BY <2>2, Allocating
  <2>3. QED
    BY <1>2, <2>1, <2>2 DEF miss_tag_mem_v
<1>6. tv.tags = tag_mem[s] /\ tag_mem[s][w] \in TagInfo
  BY <1>3, <1>4, <1>5 DEF TagsInv, TypeInv
<1>7. w \in tv.hits => tv.req.tag = tag_mem[s][w].tag /\ tv.req.op \notin {"TAGFL", "TAGLV", "TAGLA"}
  <2>1. tv.hits = tag_hits(tv.req, tv.tags)
    BY <1>3 DEF TvInv
  <2>2. QED
    BY <1>3, <1>6, <2>1, HitsAre
<1>8. CASE miss.state = "FLUSH_OP"
  BY <1>4, <1>7, <1>8 DEF HandlersTag
<1>9. CASE miss.state = "LOCK_OP"
  <2>1. w \in tv.hits /\ HandlersTag(w) = [tag_mem[s][w] EXCEPT !.lock = (tv.req.op = "ALOCK")]
    BY <1>4, <1>9 DEF HandlersTag
  <2>2. tv.req.op # "ALOCK"
    <3>1. [tag_mem[s][w] EXCEPT !.lock = TRUE] = tag_mem[s][w]
      BY <1>6 DEF TagInfo
    <3>2. QED
      BY <1>4, <2>1, <3>1
  <2>3. tv.req.op = "AUNLOCK"
    BY <1>9, <2>2 DEF MissInv, goto_lock_op
  <2>4. QED
    BY <1>7, <2>1, <2>3
<1>10. CASE st_allocate \/ fill_allocate
  <2>1. miss.state \notin {"FLUSH_OP", "LOCK_OP"}
    BY <1>10, Allocating
  <2>2. w = miss.chosen_way
    BY <1>4, <2>1 DEF HandlersTag
  <2>3. tv.tags[miss.chosen_way].lock /\ ~(\A x \in Ways : tv.tags[x].lock)
    BY <1>6, <2>2
  <2>4. ~Replacing
    BY <2>3 DEF WayInv
  <2>5. miss.state = "GET_FILL_DATA" /\ tv.track_miss
    <3>1. st_allocate => Replacing
      BY <1>3 DEF st_allocate, Replacing, EvictStates, st_tag_miss_op, goto_flush_op
    <3>2. QED
      BY <1>10, <2>4, <3>1 DEF fill_allocate, Replacing
  <2>6. miss.chosen_way = tag_hit_way_id /\ tag_hit_found
    BY <2>5, AtWork DEF MissInv
  <2>7. w \in tv.hits
    BY <1>3, <2>2, <2>6, HitWay
  <2>8. QED
    BY <1>7, <2>5, <2>7
<1>11. QED
  BY <1>2, <1>8, <1>9, <1>10 DEF miss_tag_mem_v

(* As long as no set has all its ways locked, a locked block stays in its  *)
(* way until it is unlocked or flushed out, or a word of it fetched: the   *)
(* handler, which chooses a way with the LRU bits of a set as they were    *)
(* when it began, never chooses a locked one.                              *)
THEOREM LocksHold ==
  ASSUME NamesEnabledWay
  PROVE  Spec /\ [](\A s \in Sets : \E w \in Ways : ~tag_mem[s][w].lock) => LockedStays
<1> DEFINE Open == \A s \in Sets : \E w \in Ways : ~tag_mem[s][w].lock
           Kept == \A s \in Sets, w \in Ways :
                     swept = sets_p * ways_p /\ tag_mem[s][w].valid /\ tag_mem[s][w].lock
                     /\ tag_mem[s][w] # tag_mem'[s][w] =>
                          /\ tv.req.op \in {"AUNLOCK", "AINV", "AFLINV"} \/ tv.track_miss
                          /\ tv.req.tag = tag_mem[s][w].tag
<1>1. CacheInv /\ WayInv /\ [Next]_vars => WayInv'
  <2>1. ASSUME CacheInv, WayInv, Next PROVE WayInv'
    BY <2>1, NextActs, WayStays DEF CacheInv
  <2>2. QED
    BY <2>1, WaysRest
<1>2. CacheInv /\ WayInv /\ Open /\ [Next]_vars => [Kept]_vars
  <2>1. ASSUME CacheInv, WayInv, Open, Next PROVE Kept
    <3>1. PICK in, ack, takes, gives, gets : Acts(in, ack, takes, gives, gets)
      BY <2>1, NextActs DEF CacheInv
    <3>2. Entering(in, ack) /\ TagMem(in)
      BY <3>1 DEF Acts
    <3>3. QED
      BY <2>1, <3>2, LockedTag DEF Cleared
  <2>2. QED
    BY <2>1
<1> HIDE DEF Open
<1>3. Spec => []WayInv
  BY WaysBegin, CacheInvariant, <1>1, PTL DEF Spec
<1>4. Spec /\ []Open => [][Kept]_vars
  BY CacheInvariant, <1>2, <1>3, PTL DEF Spec
<1>5. QED
  BY <1>4 DEF LockedStays, Open

-----------------------------------------------------------------------------
(* What loads answer.  A client either flushes no block that it keeps, or  *)
(* writes no part of a word: of a block that was flushed and stays, a word *)
(* that is fetched because a part of it is written is not marked dirty.    *)
KeepsNoFlushed(s) == \A r \in s.requests : r.op \notin {"AFL", "TAGFL"}
NoPartial(s) == \A r \in s.requests : ~(Writes(r) /\ ReadsTrack(r))
Matched(s) == s.word_tracking_p => KeepsNoFlushed(s) \/ NoPartial(s)

(* Way w of set s is being flushed out; is being filled with a block that  *)
(* was in no way.                                                          *)
FlushedOut(s, w) ==
  miss.state \in EvictStates /\ goto_flush_op /\ s = tv.req.set /\ w = miss.flush_way
Refilled(s, w) ==
  miss.state = "GET_FILL_DATA" /\ ~tv.track_miss /\ s = tv.req.set /\ w = miss.chosen_way

(* The way has the block of the place; it has the word, or the store that  *)
(* brought it is in the track buffer; a store of the byte is buffered.     *)
Holds(p, w) ==
  /\ Cleared
  /\ IF FlushedOut(p[2], w) THEN tv.tags[w].tag = p[1]
     ELSE /\ tag_mem[p[2]][w].valid /\ tag_mem[p[2]][w].tag = p[1]
          /\ ~Refilled(p[2], w)
Tracked(tq, track, p, w) ==
  word_tracking_p =>
    p[3] \in track[p[2]][w] \/ \E i \in 1 .. Len(tq) : tq[i].place = p
Pending(sq, p) == \E i \in 1 .. Len(sq) : sq[i].place = p /\ sq[i].lane

(* An AINV has thrown the block away and is not answered yet. *)
Void(p) ==
  /\ tv.req.op = "AINV" /\ miss.state \in {"RECOVER", "DONE"}
  /\ p[2] = tv.req.set /\ p[1] = tv.req.tag

(* The newest entry for a place has what was stored there last. *)
Newest(sq, i) ==
  sq[i].lane /\ \A j \in 1 .. Len(sq) : sq[j].place = sq[i].place /\ sq[j].lane => j <= i
Entries(sq, tq, track, stat, st) ==
  \A i \in 1 .. Len(sq) :
    /\ sq[i].place \in Places /\ sq[i].way \in Ways /\ sq[i].lane \in BOOLEAN
    /\ Holds(sq[i].place, sq[i].way) /\ Tracked(tq, track, sq[i].place, sq[i].way)
    /\ sq[i].way \in stat[sq[i].place[2]].dirty
    /\ Newest(sq, i) => sq[i].data = st[sq[i].place]
Arrivals(tq) ==
  \A i \in 1 .. Len(tq) :
    tq[i].place \in Places /\ tq[i].way \in Ways /\ Holds(tq[i].place, tq[i].way)

(* The data RAM has it when no entry has, and memory when the RAM has not  *)
(* or the block is clean.                                                  *)
InRam(sq, tq, data, track, st) ==
  \A p \in Places, w \in Ways :
    Holds(p, w) /\ Tracked(tq, track, p, w) /\ ~Pending(sq, p)
      => data[p[2]][p[3]][w] = st[p]
Clean(stat, p, w) == w \notin stat[p[2]].dirty /\ ~FlushedOut(p[2], w)
BehindRam(tq, track, stat, st) ==
  \A p \in Places, w \in Ways :
    Holds(p, w) /\ (Tracked(tq, track, p, w) => Clean(stat, p, w)) => InMemory(p) = st[p]
Elsewhere(st) ==
  \A p \in Places : (\A w \in Ways : ~Holds(p, w)) /\ ~Void(p) => InMemory(p) = st[p]

(* Where the byte stored last is. *)
Coherent(sq, tq, data, track, stat, st) ==
  /\ Entries(sq, tq, track, stat, st) /\ Arrivals(tq)
  /\ InRam(sq, tq, data, track, st) /\ BehindRam(tq, track, stat, st)
WordInv ==
  /\ Coherent(sbuf, tbuf, data_mem, track_mem, stat_mem, stored) /\ Elsewhere(stored)
  /\ miss.state # "START" => sbuf = <<>> /\ tbuf = <<>>

(* Of a block that is clean all words are there, unless it was flushed.    *)
CleanIsWhole ==
  word_tracking_p /\ KeepsNoFlushed(setting) =>
    \A s \in Sets, w \in Ways :
      Cleared /\ tag_mem[s][w].valid /\ w \notin stat_mem[s].dirty => track_mem[s][w] = Words

(* During the sweep, and until its last TAGST is over, nothing is there.   *)
EarlyInv ==
  tl.op = "TAGST" \/ tv.req.op = "TAGST" \/ ~Cleared =>
    /\ ~ReadsTags(tv.req) /\ sbuf = <<>> /\ tbuf = <<>>
    /\ Cleared => \A s \in Sets, w \in Ways : ~tag_mem[s][w].valid

RowInv ==
  /\ DOMAIN data_mem = Sets /\ \A s \in Sets : DOMAIN data_mem[s] = Words
  /\ track_mem \in [Sets -> [Ways -> SUBSET Words]]
  /\ DOMAIN memory.data = Places /\ DOMAIN stored = Places
  /\ ~word_tracking_p => tbuf = <<>> /\ \A w \in Ways : track_mem_data_lo[w] = Words
  /\ Bursting(memory.writing) =>
       memory.writing \in [block : Tags \X Sets, word : Words, mask : SUBSET Words]
  /\ Bursting(memory.reading) => memory.reading \in [block : Tags \X Sets, word : Words]

(* What TL reads from its outputs, and what TV knows. *)
TlData ==
  (miss_v => miss.state = "DONE") =>
    /\ Reads(tl) => data_mem_data_lo = data_mem[tl.set][tl.word]
    /\ ReadsTrack(tl) /\ word_tracking_p => track_mem_data_lo = track_mem[tl.set]
TvData ==
  /\ Reads(tv.req) /\ ~miss_v =>
       (IF tv.bypass_mask THEN tv.bypass_data ELSE tv.data[tag_hit_way_id])
         = stored[Place(tv.req)]
  /\ ReadsTrack(tv.req) /\ ~miss_v => Tracked(tbuf, track_mem, Place(tv.req), tag_hit_way_id)
  /\ ReadsTags(tv.req) /\ tv.track_miss =>
       /\ ReadsTrack(tv.req)
       /\ miss.state \notin {"RECOVER", "DONE"} =>
            ~Tracked(tbuf, track_mem, Place(tv.req), tag_hit_way_id)

(* The handler's copies of the rows. *)
CopyInv ==
  /\ miss.track_data_we =>
       /\ word_tracking_p /\ track_mem_data_lo = track_mem[tv.req.set]
       /\ miss.state \in {"FLUSH_OP", "LOCK_OP", "STORE_TAG_MISS", "SEND_FILL_ADDR"}
  /\ word_tracking_p /\ ~miss.track_data_we /\ miss.state \notin {"START", "RECOVER", "DONE"}
       => dma.track = track_mem[tv.req.set]
  /\ dma.state = "IDLE" => dma.counter = 0

(* A block on its way in, and one on its way out. *)
Asked(x) == <<tv.req.tag, tv.req.set, x>>
Evicted(x) == <<tv.tags[dma_way].tag, tv.req.set, x>>
FillData ==
  /\ Bursting(memory.reading) =>
       memory.reading.block = fill_block /\ memory.writing.block # fill_block
  /\ Filling => \A i \in 1 .. Len(in_fifo) :
       \/ tv.track_miss /\ Filled + i - 1 \in dma.track[miss.chosen_way]
       \/ in_fifo[i] = stored[Asked(Filled + i - 1)]
  /\ miss.state = "GET_FILL_DATA" =>
       /\ \A x \in Words : x < Filled =>
            data_mem[tv.req.set][x][miss.chosen_way] = stored[Asked(x)]
       /\ Reads(tv.req) /\ tv.req.word < Filled => dma.snoop_word = stored[Place(tv.req)]
EvictData ==
  /\ miss.state \in EvictStates =>
       /\ tag_mem[tv.req.set][dma_way].tag = tv.tags[dma_way].tag
       /\ ~goto_flush_op => tv.tags[miss.chosen_way].valid
       /\ tv.req.op # "AINV"
  /\ miss.state = "STORE_TAG_MISS_ALLOCATE" =>
       ~(tv.tags[miss.chosen_way].valid /\ miss.chosen_way \in stat_mem[tv.req.set].dirty)
  /\ miss.state = "SEND_EVICT_DATA" =>
       /\ memory.writing.block = evict_block
       /\ memory.writing.mask = IF word_tracking_p THEN dma.track[dma_way] ELSE Words
       /\ \A x \in memory.writing.mask : x < Sent => InMemory(Evicted(x)) = stored[Evicted(x)]
  /\ dma.state = "SEND_EVICT_DATA" /\ Sent \in memory.writing.mask =>
       data_mem_data_lo[dma_way] = data_mem[tv.req.set][Sent][dma_way]

(* A miss that is over. *)
OverInv ==
  /\ miss.select_snoop_data => miss.state \in {"RECOVER", "DONE"}
  /\ miss.state \in {"RECOVER", "DONE"} =>
       /\ Reads(tv.req) => miss.select_snoop_data /\ dma.snoop_word = stored[Place(tv.req)]
       /\ tv.req.op \in {"LD", "ST", "AMO"} => Holds(Asked(0), miss.chosen_way)
       /\ ReadsTrack(tv.req) => Tracked(tbuf, track_mem, Place(tv.req), miss.chosen_way)
       /\ Writes(tv.req) => miss.chosen_way \in stat_mem[tv.req.set].dirty
       /\ tv.req.op = "AINV" => \A w \in Ways : ~Holds(Asked(0), w)

DataInv ==
  /\ WordInv /\ CleanIsWhole /\ EarlyInv /\ RowInv /\ TlData /\ TvData
  /\ CopyInv /\ FillData /\ EvictData /\ OverInv

-----------------------------------------------------------------------------
(* The words of a sequence to which one is appended, and without its first. *)
LEMMA AppendIs ==
  ASSUME NEW s, IsSeq(s), NEW e
  PROVE  /\ Len(s) \in Nat /\ Len(Append(s, e)) = Len(s) + 1
         /\ Append(s, e)[Len(s) + 1] = e /\ \A i \in 1 .. Len(s) : Append(s, e)[i] = s[i]
<1>1. PICK S : s \in Seq(S)
  BY DEF IsSeq
<1> DEFINE T == S \cup {e}
<1>2. s \in Seq(T) /\ e \in T
  BY <1>1, SeqMonotonic
<1> HIDE DEF T
<1>3. /\ Len(Append(s, e)) = Len(s) + 1 /\ Append(s, e)[Len(s) + 1] = e
      /\ \A i \in 1 .. Len(s) : Append(s, e)[i] = s[i]
  BY <1>2, AppendProperties
<1>4. QED
  BY <1>2, <1>3, LenProperties

(* Without its first. *)
LEMMA TailIs ==
  ASSUME NEW s, IsSeq(s), s # <<>>
  PROVE  /\ Len(s) \in Nat \ {0} /\ Len(Tail(s)) = Len(s) - 1 /\ Head(s) = s[1]
         /\ IsSeq(Tail(s)) /\ \A i \in 1 .. Len(s) - 1 : Tail(s)[i] = s[i + 1]
<1>1. PICK S : s \in Seq(S)
  BY DEF IsSeq
<1>2. Head(s) = s[1] /\ Len(Tail(s)) = Len(s) - 1
      /\ \A i \in 1 .. Len(Tail(s)) : Tail(s)[i] = s[i + 1]
  BY <1>1, HeadTailProperties
<1>3. Len(s) \in Nat \ {0} /\ IsSeq(Tail(s))
  BY SeqLess
<1>4. QED
  BY <1>2, <1>3

(* A sequence has an index for each of its words. *)
LEMMA DomainIs ==
  ASSUME NEW s, IsSeq(s)
  PROVE  DOMAIN s = 1 .. Len(s) /\ Len(s) \in Nat
<1>1. PICK S : s \in Seq(S)
  BY DEF IsSeq
<1>2. QED
  BY <1>1, LenProperties

(* Places. *)
LEMMA PlaceIs ==
  ASSUME NEW p \in Places
  PROVE  /\ p[1] \in Tags /\ p[2] \in Sets /\ p[3] \in Words /\ p = <<p[1], p[2], p[3]>>
         /\ \A q \in Places : p[1] = q[1] /\ p[2] = q[2] /\ p[3] = q[3] => p = q
BY DEF Places

(* While no block comes or goes, a way of a set has one block and a block  *)
(* is in one way.                                                          *)
Calm == miss.state \notin EvictStates \cup {"GET_FILL_DATA"}

(* Then the way that holds a word is the one whose tag says so.            *)
LEMMA HolderIs ==
  ASSUME OneHit, Calm, NEW p \in Places, NEW w \in Ways
  PROVE  /\ Holds(p, w) <=> Cleared /\ tag_mem[p[2]][w].valid /\ tag_mem[p[2]][w].tag = p[1]
         /\ \A x \in Ways : Holds(p, w) /\ Holds(p, x) => w = x
         /\ \A q \in Places : Holds(p, w) /\ Holds(q, w) /\ p[2] = q[2] /\ p[3] = q[3] => p = q
<1>1. \A q, x : Holds(q, x) <=> Cleared /\ tag_mem[q[2]][x].valid /\ tag_mem[q[2]][x].tag = q[1]
  BY DEF Holds, Calm, FlushedOut, Refilled
<1>2. \A x \in Ways : Holds(p, w) /\ Holds(p, x) => w = x
  BY <1>1, PlaceIs DEF OneHit, Cleared
<1>3. \A q \in Places : Holds(p, w) /\ Holds(q, w) /\ p[2] = q[2] /\ p[3] = q[3] => p = q
  BY <1>1, PlaceIs
<1>4. QED
  BY <1>1, <1>2, <1>3

(* A store enters the buffers: e the store buffer, and if it writes a whole *)
(* word f the track buffer.                                                 *)
LEMMA StoreEnters ==
  ASSUME OneHit, Calm,
         NEW sq, NEW tq, NEW data, NEW track, NEW stat, NEW st,
         Coherent(sq, tq, data, track, stat, st), IsSeq(sq), IsSeq(tq),
         NEW e, e.place \in Places, e.way \in Ways, e.lane \in BOOLEAN, Holds(e.place, e.way),
         NEW f, f.place = e.place, f.way = e.way,
         NEW tq1, tq1 = tq \/ (tq1 = Append(tq, f) /\ e.lane),
         Tracked(tq1, track, e.place, e.way),
         NEW stat1, e.way \in stat1[e.place[2]].dirty,
         \A s \in Sets : stat[s].dirty \subseteq stat1[s].dirty,
         NEW st1, \A p \in Places : st1[p] = IF p = e.place /\ e.lane THEN e.data ELSE st[p]
  PROVE  Coherent(Append(sq, e), tq1, data, track, stat1, st1)
<1> DEFINE sq1 == Append(sq, e)
           n == Len(sq)
           q == e.place
<1>1. n \in Nat /\ Len(sq1) = n + 1 /\ sq1[n + 1] = e /\ \A i \in 1 .. n : sq1[i] = sq[i]
  BY AppendIs
<1>2. /\ \A i \in 1 .. Len(tq) : \E j \in 1 .. Len(tq1) : tq1[j] = tq[i]
      /\ \A j \in 1 .. Len(tq1) : (\E i \in 1 .. Len(tq) : tq1[j] = tq[i]) \/ (tq1[j] = f /\ e.lane)
  <2>1. CASE tq1 = tq
    BY <2>1
  <2>2. CASE tq1 = Append(tq, f) /\ e.lane
    <3>1. Len(tq) \in Nat /\ Len(tq1) = Len(tq) + 1 /\ tq1[Len(tq) + 1] = f
          /\ \A i \in 1 .. Len(tq) : tq1[i] = tq[i]
      BY <2>2, AppendIs
    <3>2. QED
      BY <2>2, <3>1
  <2>3. QED
    BY <2>1, <2>2
<1>3. \A p \in Places, w \in Ways :
        /\ Tracked(tq, track, p, w) => Tracked(tq1, track, p, w)
        /\ Tracked(tq1, track, p, w) => Tracked(tq, track, p, w) \/ (p = q /\ e.lane)
  <2> SUFFICES ASSUME NEW p \in Places, NEW w \in Ways
               PROVE  /\ Tracked(tq, track, p, w) => Tracked(tq1, track, p, w)
                      /\ Tracked(tq1, track, p, w) => Tracked(tq, track, p, w) \/ (p = q /\ e.lane)
    OBVIOUS
  <2>1. (\E i \in 1 .. Len(tq) : tq[i].place = p) => \E j \in 1 .. Len(tq1) : tq1[j].place = p
    BY <1>2
  <2>2. (\E j \in 1 .. Len(tq1) : tq1[j].place = p)
          => (\E i \in 1 .. Len(tq) : tq[i].place = p) \/ (p = q /\ e.lane)
    BY <1>2
  <2>3. QED
    BY <2>1, <2>2 DEF Tracked
<1>4. \A p \in Places : Pending(sq1, p) <=> Pending(sq, p) \/ (p = q /\ e.lane)
  BY <1>1 DEF Pending
<1>5. Entries(sq, tq, track, stat, st) /\ Arrivals(tq)
      /\ InRam(sq, tq, data, track, st) /\ BehindRam(tq, track, stat, st)
  BY DEF Coherent
<1> HIDE DEF sq1
<1>6. Entries(sq1, tq1, track, stat1, st1)
  <2>1. ASSUME NEW i \in 1 .. n
        PROVE  /\ sq1[i].place \in Places /\ sq1[i].way \in Ways /\ sq1[i].lane \in BOOLEAN
               /\ Holds(sq1[i].place, sq1[i].way)
               /\ Tracked(tq1, track, sq1[i].place, sq1[i].way)
               /\ sq1[i].way \in stat1[sq1[i].place[2]].dirty
               /\ Newest(sq1, i) => sq1[i].data = st1[sq1[i].place]
    <3>1. /\ sq[i].place \in Places /\ sq[i].way \in Ways /\ sq[i].lane \in BOOLEAN
          /\ Holds(sq[i].place, sq[i].way) /\ Tracked(tq, track, sq[i].place, sq[i].way)
          /\ sq[i].way \in stat[sq[i].place[2]].dirty
          /\ Newest(sq, i) => sq[i].data = st[sq[i].place]
      BY <1>5 DEF Entries
    <3>2. sq1[i] = sq[i] /\ i \in Nat /\ i \in 1 .. n + 1 /\ i <= n
      BY <1>1
    <3>3. ASSUME Newest(sq1, i)
          PROVE  sq[i].data = st1[sq[i].place]
      <4>1. sq[i].lane /\ \A j \in 1 .. n : sq[j].place = sq[i].place /\ sq[j].lane => j <= i
        BY <1>1, <3>2, <3>3 DEF Newest
      <4>2. e.place = sq[i].place /\ e.lane => n + 1 <= i
        BY <1>1, <3>2, <3>3 DEF Newest
      <4>3. ~(sq[i].place = q /\ e.lane)
        BY <1>1, <3>2, <4>2
      <4>4. Newest(sq, i)
        BY <4>1 DEF Newest
      <4>5. QED
        BY <3>1, <4>3, <4>4
    <3>4. sq[i].place[2] \in Sets
      BY <3>1, PlaceIs
    <3>5. QED
      BY <1>3, <3>1, <3>2, <3>3, <3>4
  <2>2. Newest(sq1, n + 1) => e.data = st1[q]
    BY <1>1 DEF Newest
  <2>3. \A i \in 1 .. Len(sq1) : i \in 1 .. n \/ i = n + 1
    BY <1>1
  <2> HIDE DEF n
  <2>4. QED
    BY <1>1, <2>1, <2>2, <2>3 DEF Entries
<1>7. Arrivals(tq1)
  BY <1>2, <1>5 DEF Arrivals
<1>8. InRam(sq1, tq1, data, track, st1)
  BY <1>3, <1>4, <1>5 DEF InRam
<1>9. BehindRam(tq1, track, stat1, st1)
  <2> SUFFICES ASSUME NEW p \in Places, NEW w \in Ways, Holds(p, w),
                      Tracked(tq1, track, p, w) => Clean(stat1, p, w)
               PROVE  InMemory(p) = st1[p]
    BY DEF BehindRam
  <2>1. p # q
    <3>1. p = q => w = e.way
      BY HolderIs
    <3>2. ~Clean(stat1, q, e.way)
      BY DEF Clean
    <3>3. QED
      BY <3>1, <3>2
  <2>2. Clean(stat1, p, w) => Clean(stat, p, w)
    BY PlaceIs DEF Clean
  <2>3. QED
    BY <1>3, <1>5, <2>1, <2>2 DEF BehindRam
<1>10. QED
  BY <1>6, <1>7, <1>8, <1>9 DEF Coherent, sq1

-----------------------------------------------------------------------------
(* The oldest store of the store buffer is written to the data RAM.        *)
LEMMA StoreDrains ==
  ASSUME OneHit, Calm,
         NEW sq, NEW tq, NEW data, NEW track, NEW stat, NEW st,
         Coherent(sq, tq, data, track, stat, st), IsSeq(sq), sq # <<>>,
         NEW data1,
         \A p \in Places, w \in Ways :
           data1[p[2]][p[3]][w] =
             IF /\ p[2] = Head(sq).place[2] /\ p[3] = Head(sq).place[3]
                /\ w = Head(sq).way /\ Head(sq).lane
             THEN Head(sq).data ELSE data[p[2]][p[3]][w]
  PROVE  Coherent(Tail(sq), tq, data1, track, stat, st)
<1> DEFINE e == Head(sq)
           sq1 == Tail(sq)
<1>1. /\ Len(sq) \in Nat \ {0} /\ Len(sq1) = Len(sq) - 1 /\ e = sq[1]
      /\ \A i \in 1 .. Len(sq) - 1 : sq1[i] = sq[i + 1]
  BY TailIs
<1>2. Entries(sq, tq, track, stat, st) /\ Arrivals(tq)
      /\ InRam(sq, tq, data, track, st) /\ BehindRam(tq, track, stat, st)
  BY DEF Coherent
<1>3. /\ e.place \in Places /\ e.way \in Ways /\ e.lane \in BOOLEAN /\ Holds(e.place, e.way)
      /\ Newest(sq, 1) => e.data = st[e.place]
  <2>1. 1 \in 1 .. Len(sq)
    BY <1>1
  <2>2. QED
    BY <1>1, <1>2, <2>1 DEF Entries
<1> HIDE DEF e, sq1
<1>4. \A i \in 1 .. Len(sq) : i = 1 \/ (i - 1 \in 1 .. Len(sq1) /\ sq1[i - 1] = sq[i])
  BY <1>1
<1>5. \A i \in 1 .. Len(sq1) : i + 1 \in 1 .. Len(sq) /\ i \in Nat /\ sq1[i] = sq[i + 1]
  BY <1>1
<1>6. \A p \in Places : Pending(sq, p) <=> Pending(sq1, p) \/ (p = e.place /\ e.lane)
  <2>1. 1 \in 1 .. Len(sq)
    BY <1>1
  <2> SUFFICES ASSUME NEW p \in Places
               PROVE  Pending(sq, p) <=> Pending(sq1, p) \/ (p = e.place /\ e.lane)
    OBVIOUS
  <2>2. Pending(sq, p) => Pending(sq1, p) \/ (p = e.place /\ e.lane)
    BY <1>1, <1>4 DEF Pending
  <2>3. Pending(sq1, p) => Pending(sq, p)
    BY <1>5 DEF Pending
  <2>4. p = e.place /\ e.lane => Pending(sq, p)
    BY <1>1, <2>1 DEF Pending
  <2>5. QED
    BY <2>2, <2>3, <2>4
<1>7. Entries(sq1, tq, track, stat, st)
  <2> SUFFICES ASSUME NEW i \in 1 .. Len(sq1)
               PROVE  /\ sq1[i].place \in Places /\ sq1[i].way \in Ways /\ sq1[i].lane \in BOOLEAN
                      /\ Holds(sq1[i].place, sq1[i].way)
                      /\ Tracked(tq, track, sq1[i].place, sq1[i].way)
                      /\ sq1[i].way \in stat[sq1[i].place[2]].dirty
                      /\ Newest(sq1, i) => sq1[i].data = st[sq1[i].place]
    BY DEF Entries
  <2>1. i + 1 \in 1 .. Len(sq) /\ i \in Nat /\ sq1[i] = sq[i + 1]
    BY <1>5
  <2>2. ASSUME Newest(sq1, i)
        PROVE  Newest(sq, i + 1)
    <3>1. sq[i + 1].lane
      BY <2>1, <2>2 DEF Newest
    <3>2. ASSUME NEW j \in 1 .. Len(sq), sq[j].place = sq[i + 1].place, sq[j].lane
          PROVE  j <= i + 1
      <4>1. CASE j = 1
        BY <2>1, <4>1
      <4>2. CASE j # 1
        <5>1. j - 1 \in 1 .. Len(sq1) /\ sq1[j - 1] = sq[j]
          BY <1>4, <4>2
        <5>2. j - 1 <= i
          BY <2>1, <2>2, <3>2, <5>1 DEF Newest
        <5>3. QED
          BY <2>1, <5>2
      <4>3. QED
        BY <4>1, <4>2
    <3>3. QED
      BY <3>1, <3>2 DEF Newest
  <2>3. /\ sq[i + 1].place \in Places /\ sq[i + 1].way \in Ways /\ sq[i + 1].lane \in BOOLEAN
        /\ Holds(sq[i + 1].place, sq[i + 1].way)
        /\ Tracked(tq, track, sq[i + 1].place, sq[i + 1].way)
        /\ sq[i + 1].way \in stat[sq[i + 1].place[2]].dirty
        /\ Newest(sq, i + 1) => sq[i + 1].data = st[sq[i + 1].place]
    BY <1>2, <2>1 DEF Entries
  <2>4. QED
    BY <2>1, <2>2, <2>3
<1>8. InRam(sq1, tq, data1, track, st)
  <2> SUFFICES ASSUME NEW p \in Places, NEW w \in Ways,
                      Holds(p, w), Tracked(tq, track, p, w), ~Pending(sq1, p)
               PROVE  data1[p[2]][p[3]][w] = st[p]
    BY DEF InRam
  <2>1. data1[p[2]][p[3]][w] =
          IF p[2] = e.place[2] /\ p[3] = e.place[3] /\ w = e.way /\ e.lane
          THEN e.data ELSE data[p[2]][p[3]][w]
    BY DEF e
  <2>2. CASE p = e.place /\ e.lane
    <3>1. w = e.way
      BY <1>3, <2>2, HolderIs
    <3>2. Newest(sq, 1)
      <4>1. \A j \in 1 .. Len(sq) : sq[j].place = sq[1].place /\ sq[j].lane => j = 1
        BY <1>1, <1>4, <2>2 DEF Pending
      <4>2. QED
        BY <1>1, <2>2, <4>1 DEF Newest
    <3>3. QED
      BY <1>3, <2>1, <2>2, <3>1, <3>2
  <2>3. CASE ~(p = e.place /\ e.lane)
    <3>1. ~Pending(sq, p)
      BY <1>6, <2>3
    <3>2. data[p[2]][p[3]][w] = st[p]
      BY <1>2, <3>1 DEF InRam
    <3>3. ~(p[2] = e.place[2] /\ p[3] = e.place[3] /\ w = e.way /\ e.lane)
      BY <1>3, <2>3, HolderIs
    <3>4. QED
      BY <2>1, <3>2, <3>3
  <2>4. QED
    BY <2>2, <2>3
<1>9. QED
  BY <1>2, <1>7, <1>8 DEF Coherent, sq1

(* The oldest entry of the track buffer is written to the track RAM.       *)
LEMMA TrackDrains ==
  ASSUME OneHit, Calm,
         NEW sq, NEW tq, NEW data, NEW track, NEW stat, NEW st,
         Coherent(sq, tq, data, track, stat, st), IsSeq(tq), tq # <<>>,
         NEW track1,
         \A p \in Places, w \in Ways :
           p[3] \in track1[p[2]][w] <=>
             \/ p[3] \in track[p[2]][w]
             \/ p[2] = Head(tq).place[2] /\ p[3] = Head(tq).place[3] /\ w = Head(tq).way
  PROVE  /\ Coherent(sq, Tail(tq), data, track1, stat, st)
         /\ \A p \in Places, w \in Ways : Holds(p, w) =>
              (Tracked(Tail(tq), track1, p, w) <=> Tracked(tq, track, p, w))
<1> DEFINE e == Head(tq)
           tq1 == Tail(tq)
<1>1. /\ Len(tq) \in Nat \ {0} /\ Len(tq1) = Len(tq) - 1 /\ e = tq[1]
      /\ \A i \in 1 .. Len(tq) - 1 : tq1[i] = tq[i + 1]
  BY TailIs
<1>2. Entries(sq, tq, track, stat, st) /\ Arrivals(tq)
      /\ InRam(sq, tq, data, track, st) /\ BehindRam(tq, track, stat, st)
  BY DEF Coherent
<1>3. 1 \in 1 .. Len(tq)
  BY <1>1
<1>4. e.place \in Places /\ e.way \in Ways /\ Holds(e.place, e.way)
  BY <1>1, <1>2, <1>3 DEF Arrivals
<1>5. \A i \in 1 .. Len(tq1) : i + 1 \in 1 .. Len(tq) /\ tq1[i] = tq[i + 1]
  BY <1>1
<1>6. \A i \in 1 .. Len(tq) : i = 1 \/ (i - 1 \in 1 .. Len(tq1) /\ tq1[i - 1] = tq[i])
  BY <1>1
<1>7. Arrivals(tq1)
  BY <1>2, <1>5 DEF Arrivals
<1>8. \A p \in Places, w \in Ways :
        p[3] \in track1[p[2]][w] <=>
          p[3] \in track[p[2]][w] \/ (p[2] = e.place[2] /\ p[3] = e.place[3] /\ w = e.way)
  OBVIOUS
<1> HIDE DEF e, tq1
<1>9. ASSUME NEW p \in Places, NEW w \in Ways, Holds(p, w)
      PROVE  Tracked(tq1, track1, p, w) <=> Tracked(tq, track, p, w)
  <2>1. (\E i \in 1 .. Len(tq) : tq[i].place = p)
          <=> p = e.place \/ \E i \in 1 .. Len(tq1) : tq1[i].place = p
    BY <1>1, <1>3, <1>5, <1>6, SMTT(30)
  <2>2. p[2] = e.place[2] /\ p[3] = e.place[3] /\ w = e.way => p = e.place
    BY <1>4, <1>9, HolderIs
  <2>3. p = e.place => w = e.way
    BY <1>4, <1>9, HolderIs
  <2>4. p[3] \in track1[p[2]][w] <=>
          p[3] \in track[p[2]][w] \/ (p[2] = e.place[2] /\ p[3] = e.place[3] /\ w = e.way)
    BY <1>8
  <2>5. QED
    BY <2>1, <2>2, <2>3, <2>4 DEF Tracked
<1>10. Entries(sq, tq1, track1, stat, st)
  BY <1>2, <1>9 DEF Entries
<1>11. InRam(sq, tq1, data, track1, st) /\ BehindRam(tq1, track1, stat, st)
  BY <1>2, <1>9 DEF InRam, BehindRam
<1>12. QED
  BY <1>7, <1>9, <1>10, <1>11 DEF Coherent, tq1

-----------------------------------------------------------------------------
(* The port of the data RAM: a word of a fill, a store, or a row read.     *)
DataFilled ==
  /\ data_mem_data_lo' = data_mem_data_lo
  /\ \A p \in Places, w \in Ways :
       data_mem'[p[2]][p[3]][w] =
         IF p[2] = tv.req.set /\ p[3] = dma.counter /\ w = dma_way /\ fill_mask
         THEN Head(in_fifo) ELSE data_mem[p[2]][p[3]][w]
DataDrained(e) ==
  /\ data_mem_data_lo' = data_mem_data_lo
  /\ \A p \in Places, w \in Ways :
       data_mem'[p[2]][p[3]][w] =
         IF p[2] = e.place[2] /\ p[3] = e.place[3] /\ w = e.way /\ e.lane
         THEN e.data ELSE data_mem[p[2]][p[3]][w]
DataRead(in) ==
  /\ data_mem' = data_mem
  /\ data_mem_data_lo' =
       IF recover /\ Reads(tl) THEN data_mem[tl.set][tl.word]
       ELSE IF evict_read THEN data_mem[tv.req.set][dma.counter]
       ELSE IF Reads(in) THEN data_mem[in.set][in.word] ELSE data_mem_data_lo
Draining(in, ack) == Stores(ack) # <<>> /\ sbuf_yumi(in, ack)

(* One word of every way of a set is written. *)
LEMMA WordWritten ==
  ASSUME DOMAIN data_mem = Sets, \A s \in Sets : DOMAIN data_mem[s] = Words,
         NEW s \in Sets, NEW x \in Words, NEW new,
         data_mem' = [data_mem EXCEPT ![s][x] = new]
  PROVE  /\ DOMAIN data_mem' = Sets /\ \A t \in Sets : DOMAIN data_mem'[t] = Words
         /\ \A t \in Sets, y \in Words :
              data_mem'[t][y] = IF t = s /\ y = x THEN new ELSE data_mem[t][y]
OBVIOUS

(* The data RAM has one user in a cycle: fill, drain, or read.             *)
LEMMA DataPort ==
  ASSUME MissInv, RowInv, NEW in, NEW ack, DataMem(in, ack, Stores(ack)), Entering(in, ack),
         fill_word => tv.req.set \in Sets /\ dma.counter \in Words,
         Stores(ack) # <<>> => Head(Stores(ack)).place \in Places /\ ~recover
  PROVE  /\ DOMAIN data_mem' = Sets /\ \A s \in Sets : DOMAIN data_mem'[s] = Words
         /\ fill_word => DataFilled /\ ~Draining(in, ack)
         /\ Draining(in, ack) => DataDrained(Head(Stores(ack))) /\ ~fill_word
         /\ ~fill_word /\ ~Draining(in, ack) => DataRead(in)
<1>1. fill_word => ~recover /\ dma_data_mem_v
  BY DEF fill_word, recover, dma_data_mem_v, MissInv
<1>2. evict_read => dma_data_mem_v /\ ~recover /\ ~fill_word
  BY DEF evict_read, evict_word, fill_word, recover, dma_data_mem_v, MissInv
<1>3. Draining(in, ack) => ~dma_data_mem_v /\ ~Reads(in)
  BY DEF Draining, sbuf_yumi
<1>4. CASE fill_word
  <2> DEFINE s == tv.req.set
             x == dma.counter
             new == [w \in Ways |-> IF w = dma_way /\ fill_mask THEN Head(in_fifo)
                                    ELSE data_mem[s][x][w]]
  <2>1. data_mem' = [data_mem EXCEPT ![s][x] = new] /\ data_mem_data_lo' = data_mem_data_lo
    BY <1>1, <1>4 DEF DataMem
  <2>2. s \in Sets /\ x \in Words
    BY <1>4
  <2>3. \A w \in Ways : new[w] = IF w = dma_way /\ fill_mask THEN Head(in_fifo)
                                 ELSE data_mem[s][x][w]
    OBVIOUS
  <2> HIDE DEF new
  <2>4. /\ DOMAIN data_mem' = Sets /\ \A t \in Sets : DOMAIN data_mem'[t] = Words
        /\ \A t \in Sets, y \in Words :
             data_mem'[t][y] = IF t = s /\ y = x THEN new ELSE data_mem[t][y]
    BY <2>1, <2>2, WordWritten DEF RowInv
  <2>5. DataFilled
    BY <2>1, <2>3, <2>4, PlaceIs DEF DataFilled
  <2>6. QED
    BY <1>1, <1>3, <1>4, <2>4, <2>5
<1>5. CASE Draining(in, ack)
  <2> DEFINE e == Head(Stores(ack))
             s == e.place[2]
             x == e.place[3]
             new == [w \in Ways |-> IF w = e.way /\ e.lane THEN e.data ELSE data_mem[s][x][w]]
  <2>1. e.place \in Places /\ ~recover /\ ~fill_word
    BY <1>1, <1>3, <1>5 DEF Draining
  <2>2. data_mem' = [data_mem EXCEPT ![s][x] = new] /\ data_mem_data_lo' = data_mem_data_lo
    <3>1. /\ Stores(ack) # <<>> /\ sbuf_yumi(in, ack)
          /\ ~(recover /\ Reads(tl)) /\ ~dma_data_mem_v /\ ~Reads(in)
      BY <1>3, <1>5, <2>1 DEF Draining
    <3>2. DataMem(in, ack, Stores(ack))
      OBVIOUS
    <3>3. QED
      BY <2>1, <3>1, <3>2, ZenonT(60) DEF DataMem
  <2>3. s \in Sets /\ x \in Words
    BY <2>1, PlaceIs
  <2>4. \A w \in Ways : new[w] = IF w = e.way /\ e.lane THEN e.data ELSE data_mem[s][x][w]
    OBVIOUS
  <2> HIDE DEF new
  <2>5. /\ DOMAIN data_mem' = Sets /\ \A t \in Sets : DOMAIN data_mem'[t] = Words
        /\ \A t \in Sets, y \in Words :
             data_mem'[t][y] = IF t = s /\ y = x THEN new ELSE data_mem[t][y]
    BY <2>2, <2>3, WordWritten DEF RowInv
  <2>6. DataDrained(e)
    BY <2>2, <2>4, <2>5, PlaceIs, SMTT(30) DEF DataDrained
  <2>7. QED
    BY <1>5, <2>1, <2>5, <2>6
<1>6. CASE ~fill_word /\ ~Draining(in, ack)
  <2>1. DataRead(in)
    <3>1. recover => miss_v
      BY DEF recover, MissInv, miss_v
    <3>2. Reads(in) => in # NoReq
      BY NoRequest DEF Reads
    <3>3. Reads(in) => ~recover /\ (miss_v => ~dma_data_mem_v)
      BY <3>1, <3>2 DEF Entering
    <3>4. dma_data_mem_v <=> evict_read
      BY <1>6 DEF dma_data_mem_v
    <3>5. /\ data_mem' = data_mem
          /\ data_mem_data_lo' =
               LET at == IF recover /\ Reads(tl) THEN [set |-> tl.set, word |-> tl.word]
                         ELSE IF dma_data_mem_v THEN [set |-> tv.req.set, word |-> dma.counter]
                         ELSE IF Reads(in) THEN [set |-> in.set, word |-> in.word]
                         ELSE [set |-> Head(Stores(ack)).place[2],
                               word |-> Head(Stores(ack)).place[3]]
               IN  IF (recover /\ Reads(tl)) \/ evict_read \/ Reads(in)
                   THEN data_mem[at.set][at.word] ELSE data_mem_data_lo
      BY <1>6 DEF DataMem, Draining
    <3>6. QED
      BY <3>4, <3>5 DEF DataRead
  <2>2. QED
    BY <1>6, <2>1 DEF RowInv, DataRead
<1>7. QED
  BY <1>4, <1>5, <1>6

(* The port of the track RAM: a way is set or cleared for a new block, a    *)
(* store's word is added, or a row read.                                    *)
TrackSet ==
  /\ track_mem_data_lo' = track_mem_data_lo
  /\ \A s \in Sets, w \in Ways :
       track_mem'[s][w] = IF s = tv.req.set /\ w = miss.chosen_way
                          THEN IF fill_allocate THEN Words ELSE {} ELSE track_mem[s][w]
TrackDrained(e) ==
  /\ track_mem_data_lo' = track_mem_data_lo
  /\ \A s \in Sets, w \in Ways :
       track_mem'[s][w] = IF s = e.place[2] /\ w = e.way
                          THEN track_mem[s][w] \cup {e.place[3]} ELSE track_mem[s][w]
TrackRead(in) ==
  /\ track_mem' = track_mem
  /\ track_mem_data_lo' =
       IF ~word_tracking_p THEN track_mem_data_lo
       ELSE IF recover /\ ReadsTrack(tl) THEN track_mem[tl.set]
       ELSE IF start THEN track_mem[tv.req.set]
       ELSE IF ReadsTrack(in) THEN track_mem[in.set] ELSE track_mem_data_lo
Allocates == word_tracking_p /\ (st_allocate \/ fill_allocate)
Arriving(in, ack) == word_tracking_p /\ Tracks(ack) # <<>> /\ tbuf_yumi(in, ack)

(* And so has the track RAM: allocation, drain, or read.                   *)
LEMMA TrackPort ==
  ASSUME MissInv, RowInv, NEW in, NEW ack, TrackMem(in, ack, Tracks(ack)), Entering(in, ack),
         Allocates => tv.req.set \in Sets,
         Tracks(ack) # <<>> => Head(Tracks(ack)).place \in Places /\ ~recover
  PROVE  /\ track_mem' \in [Sets -> [Ways -> SUBSET Words]]
         /\ Allocates => TrackSet /\ ~Arriving(in, ack)
         /\ Arriving(in, ack) => TrackDrained(Head(Tracks(ack))) /\ ~Allocates
         /\ ~Allocates /\ ~Arriving(in, ack) => TrackRead(in)
<1>1. track_mem \in [Sets -> [Ways -> SUBSET Words]]
  BY DEF RowInv
<1>2. /\ st_allocate \/ fill_allocate => ~recover /\ ~start
      /\ start => ~recover
  BY DEF st_allocate, fill_allocate, recover, start
<1>3. CASE Allocates
  <2> DEFINE s == tv.req.set
             new == [w \in Ways |-> IF w = miss.chosen_way
                                    THEN IF fill_allocate THEN Words ELSE {}
                                    ELSE track_mem[s][w]]
  <2>1. s \in Sets /\ miss_track_mem_v /\ ~recover /\ ~start /\ word_tracking_p
    BY <1>2, <1>3 DEF Allocates, miss_track_mem_v
  <2>2. /\ track_mem' = [track_mem EXCEPT ![s] =
                           [w \in Ways |->
                              CASE miss_track_mem_v /\ w = miss.chosen_way ->
                                     IF fill_allocate THEN Words ELSE {}
                                [] ~miss_track_mem_v /\ w = Head(Tracks(ack)).way ->
                                     track_mem[s][w] \cup {Head(Tracks(ack)).place[3]}
                                [] OTHER -> track_mem[s][w]]]
        /\ track_mem_data_lo' = track_mem_data_lo
    BY <2>1 DEF TrackMem
  <2>3. [w \in Ways |->
           CASE miss_track_mem_v /\ w = miss.chosen_way -> IF fill_allocate THEN Words ELSE {}
             [] ~miss_track_mem_v /\ w = Head(Tracks(ack)).way ->
                  track_mem[s][w] \cup {Head(Tracks(ack)).place[3]}
             [] OTHER -> track_mem[s][w]] = new
    BY <2>1
  <2>4. new \in [Ways -> SUBSET Words]
    BY <1>1, <2>1
  <2>5. \A w \in Ways : new[w] = IF w = miss.chosen_way
                                 THEN IF fill_allocate THEN Words ELSE {} ELSE track_mem[s][w]
    OBVIOUS
  <2> HIDE DEF new
  <2>6. track_mem' = [track_mem EXCEPT ![s] = new]
    BY <2>2, <2>3
  <2>7. TrackSet
    BY <1>1, <2>1, <2>2, <2>5, <2>6 DEF TrackSet
  <2>8. ~Arriving(in, ack)
    BY <2>1 DEF Arriving, tbuf_yumi
  <2>9. QED
    BY <1>1, <1>3, <2>1, <2>4, <2>6, <2>7, <2>8
<1>4. CASE Arriving(in, ack)
  <2> DEFINE e == Head(Tracks(ack))
             s == e.place[2]
             new == [w \in Ways |-> IF w = e.way THEN track_mem[s][w] \cup {e.place[3]}
                                    ELSE track_mem[s][w]]
  <2>1. /\ e.place \in Places /\ ~recover /\ ~miss_track_mem_v /\ ~ReadsTrack(in)
        /\ word_tracking_p /\ Tracks(ack) # <<>> /\ tbuf_yumi(in, ack) /\ ~Allocates
    BY <1>4 DEF Arriving, tbuf_yumi, Allocates, miss_track_mem_v
  <2>2. /\ track_mem' = [track_mem EXCEPT ![s] =
                           [w \in Ways |->
                              CASE miss_track_mem_v /\ w = miss.chosen_way ->
                                     IF fill_allocate THEN Words ELSE {}
                                [] ~miss_track_mem_v /\ w = e.way ->
                                     track_mem[s][w] \cup {e.place[3]}
                                [] OTHER -> track_mem[s][w]]]
        /\ track_mem_data_lo' = track_mem_data_lo
    BY <2>1 DEF TrackMem
  <2>3. [w \in Ways |->
           CASE miss_track_mem_v /\ w = miss.chosen_way -> IF fill_allocate THEN Words ELSE {}
             [] ~miss_track_mem_v /\ w = e.way -> track_mem[s][w] \cup {e.place[3]}
             [] OTHER -> track_mem[s][w]] = new
    BY <2>1
  <2>4. s \in Sets /\ e.place[3] \in Words
    BY <2>1, PlaceIs
  <2>5. new \in [Ways -> SUBSET Words]
    BY <1>1, <2>4
  <2>6. \A w \in Ways : new[w] = IF w = e.way THEN track_mem[s][w] \cup {e.place[3]}
                                 ELSE track_mem[s][w]
    OBVIOUS
  <2> HIDE DEF new
  <2>7. track_mem' = [track_mem EXCEPT ![s] = new]
    BY <2>2, <2>3
  <2>8. TrackDrained(e)
    BY <1>1, <2>2, <2>4, <2>6, <2>7 DEF TrackDrained
  <2>9. QED
    BY <1>1, <1>4, <2>1, <2>4, <2>5, <2>7, <2>8
<1>5. CASE ~Allocates /\ ~Arriving(in, ack)
  <2>1. miss_track_mem_v /\ word_tracking_p => start
    BY <1>5 DEF miss_track_mem_v, Allocates
  <2>2. ~(word_tracking_p /\ IF miss_track_mem_v THEN ~start
                             ELSE Tracks(ack) # <<>> /\ tbuf_yumi(in, ack))
    BY <1>5, <2>1 DEF Arriving
  <2>3. /\ track_mem' = track_mem
        /\ track_mem_data_lo' =
             LET set == IF recover /\ ReadsTrack(tl) THEN tl.set
                        ELSE IF miss_track_mem_v THEN tv.req.set
                        ELSE IF ReadsTrack(in) THEN in.set ELSE Head(Tracks(ack)).place[2]
             IN  IF word_tracking_p /\ ((recover /\ ReadsTrack(tl)) \/ start \/ ReadsTrack(in))
                 THEN track_mem[set] ELSE track_mem_data_lo
    BY <2>2 DEF TrackMem
  <2>4. word_tracking_p => (miss_track_mem_v <=> start)
    BY <2>1 DEF miss_track_mem_v
  <2>5. TrackRead(in)
    BY <2>3, <2>4 DEF TrackRead
  <2>6. QED
    BY <1>1, <1>5, <2>3, <2>5
<1>6. QED
  BY <1>3, <1>4, <1>5

-----------------------------------------------------------------------------
(* A sequence with one word more behind. *)
LEMMA BehindIs ==
  ASSUME NEW s, IsSeq(s), NEW e
  PROVE  /\ Len(s) \in Nat
         /\ \A i \in 1 .. Len(s) : (s \o <<e>>)[i] = s[i] /\ (s \o <<>>)[i] = s[i]
         /\ (s \o <<e>>)[Len(s) + 1] = e
<1>1. PICK S : s \in Seq(S)
  BY DEF IsSeq
<1> DEFINE T == S \cup {e}
<1>2. s \in Seq(T) /\ e \in T
  BY <1>1, SeqMonotonic
<1> HIDE DEF T
<1>3. <<e>> \in Seq(T) /\ Len(<<e>>) = 1 /\ <<>> \in Seq(T) /\ Len(<<>>) = 0 /\ <<e>>[1] = e
  BY <1>2
<1>4. /\ \A i \in 1 .. Len(s) + 1 : (s \o <<e>>)[i] = IF i <= Len(s) THEN s[i] ELSE <<e>>[i - Len(s)]
      /\ \A i \in 1 .. Len(s) + 0 : (s \o <<>>)[i] = IF i <= Len(s) THEN s[i] ELSE <<>>[i - Len(s)]
      /\ Len(s) \in Nat
  BY <1>2, <1>3, ConcatProperties, LenProperties
<1>5. QED
  BY <1>3, <1>4

(* The words between the DMA engine and memory. *)
LEMMA OutFifoWords ==
  ASSUME IsSeq(out_fifo), NEW takes, NEW gives, NEW gets, Memory(takes, gives, gets),
         gets => TakesWord
  PROVE  LET gone == IF gets THEN 1 ELSE 0
             left == Len(out_fifo) - gone
         IN  /\ left \in Nat /\ (gets => Head(out_fifo) = out_fifo[1])
             /\ \A i \in 1 .. left : out_fifo'[i] = out_fifo[i + gone]
             /\ evict_word => out_fifo'[left + 1] = data_mem_data_lo[dma_way]
             /\ Len(out_fifo') = IF evict_word THEN left + 1 ELSE left
<1> DEFINE e == data_mem_data_lo[dma_way]
           gone == IF gets THEN 1 ELSE 0
           left == Len(out_fifo) - gone
           s == IF gets THEN Tail(out_fifo) ELSE out_fifo
<1>1. out_fifo' = s \o (IF evict_word THEN <<e>> ELSE <<>>)
  BY DEF Memory
<1>2. gets => out_fifo # <<>>
  BY DEF TakesWord
<1>3. Len(out_fifo) \in Nat
  BY SeqMore
<1>4. /\ IsSeq(s) /\ Len(s) = left /\ left \in Nat /\ (gets => Head(out_fifo) = out_fifo[1])
      /\ \A i \in 1 .. left : s[i] = out_fifo[i + gone]
  <2>1. CASE gets
    BY <1>2, <2>1, TailIs
  <2>2. CASE ~gets
    <3>1. s = out_fifo /\ left = Len(out_fifo) /\ gone = 0
      BY <1>3, <2>2
    <3>2. QED
      BY <1>3, <2>2, <3>1
  <2>3. QED
    BY <2>1, <2>2
<1>5. /\ Len(out_fifo') = IF evict_word THEN left + 1 ELSE left
  <2> HIDE DEF s, e
  <2>1. Len(s \o <<e>>) = Len(s) + 1 /\ Len(s \o <<>>) = Len(s)
    BY <1>4, SeqMore
  <2>2. QED
    BY <1>1, <1>4, <2>1
<1>6. /\ \A i \in 1 .. left : out_fifo'[i] = out_fifo[i + gone]
      /\ evict_word => out_fifo'[left + 1] = e
  <2> HIDE DEF s, e
  <2>1. /\ \A i \in 1 .. Len(s) : (s \o <<e>>)[i] = s[i] /\ (s \o <<>>)[i] = s[i]
        /\ (s \o <<e>>)[Len(s) + 1] = e
    BY <1>4, BehindIs
  <2>2. QED
    BY <1>1, <1>4, <2>1
<1>7. QED
  BY <1>4, <1>5, <1>6

(* The burst being written, and what is written. *)
LEMMA WritingMoves ==
  ASSUME RowInv, NEW takes, NEW gives, NEW gets, Memory(takes, gives, gets),
         takes => TakesPacket, gets => TakesWord
  PROVE  LET b == memory.writing
             c == memory'.writing
         IN  /\ DOMAIN memory'.data = Places
             /\ takes /\ miss.state = "SEND_EVICT_ADDR" =>
                  /\ ~Bursting(b) /\ ~gets /\ c.block = evict_block /\ c.word = 0
                  /\ c = [block |-> evict_block, word |-> 0,
                          mask |-> IF word_tracking_p THEN dma.track[dma_way] ELSE Words]
             /\ ~gets => memory'.data = memory.data
             /\ ~gets /\ ~(takes /\ miss.state = "SEND_EVICT_ADDR") => c = b
             /\ gets =>
                  /\ Bursting(b) /\ ~(takes /\ miss.state = "SEND_EVICT_ADDR")
                  /\ \A p \in Places : memory'.data[p] =
                       IF b.block = <<p[1], p[2]>> /\ p[3] = b.word /\ b.word \in b.mask
                       THEN Head(out_fifo) ELSE memory.data[p]
                  /\ b.word = block_size_in_words_p - 1 => c = Idle
                  /\ b.word # block_size_in_words_p - 1 =>
                       /\ c = [block |-> b.block, word |-> b.word + 1, mask |-> b.mask]
                       /\ Bursting(c) /\ c.word \in Words
<1> DEFINE b == memory.writing
           c == memory'.writing
           begins == takes /\ miss.state = "SEND_EVICT_ADDR"
<1>1. begins => b = Idle
  BY DEF TakesPacket
<1>2. gets => Bursting(b)
  BY DEF TakesWord
<1>3. /\ c = IF begins THEN [block |-> evict_block, word |-> 0,
                             mask |-> IF word_tracking_p THEN dma.track[dma_way] ELSE Words]
             ELSE IF gets THEN Advanced(b) ELSE b
      /\ memory'.data = IF gets /\ b.word \in b.mask
                        THEN [memory.data EXCEPT ![At(b)] = Head(out_fifo)] ELSE memory.data
  BY DEF Memory
<1>4. DOMAIN memory.data = Places
  BY DEF RowInv
<1>5. DOMAIN memory'.data = Places
  BY <1>3, <1>4
<1>6. ASSUME gets
      PROVE  /\ \A p \in Places : memory'.data[p] =
                  IF b.block = <<p[1], p[2]>> /\ p[3] = b.word /\ b.word \in b.mask
                  THEN Head(out_fifo) ELSE memory.data[p]
             /\ b.word = block_size_in_words_p - 1 => Advanced(b) = Idle
             /\ b.word # block_size_in_words_p - 1 =>
                  /\ Advanced(b) = [block |-> b.block, word |-> b.word + 1, mask |-> b.mask]
                  /\ Bursting(Advanced(b)) /\ Advanced(b).word \in Words
  <2>1. b \in [block : Tags \X Sets, word : Words, mask : SUBSET Words]
    BY <1>2, <1>6 DEF RowInv
  <2> HIDE DEF b, c
  <2>2. /\ b.block \in Tags \X Sets /\ b.block = <<b.block[1], b.block[2]>> /\ b.word \in Words
        /\ At(b) = <<b.block[1], b.block[2], b.word>>
    BY <2>1 DEF At
  <2>3. At(b) \in Places
    BY <2>2 DEF Places
  <2>4. \A p \in Places : p = At(b) <=> b.block = <<p[1], p[2]>> /\ p[3] = b.word
    <3> SUFFICES ASSUME NEW p \in Places
                 PROVE  p = At(b) <=> b.block = <<p[1], p[2]>> /\ p[3] = b.word
      OBVIOUS
    <3>1. p = <<p[1], p[2], p[3]>>
      BY PlaceIs
    <3>2. QED
      BY <2>2, <3>1
  <2>5. \A p \in Places : memory'.data[p] =
          IF b.block = <<p[1], p[2]>> /\ p[3] = b.word /\ b.word \in b.mask
          THEN Head(out_fifo) ELSE memory.data[p]
    BY <1>3, <1>4, <1>6, <2>3, <2>4
  <2>6. b.word # block_size_in_words_p - 1 =>
          /\ Advanced(b) = [block |-> b.block, word |-> b.word + 1, mask |-> b.mask]
          /\ Bursting(Advanced(b)) /\ Advanced(b).word \in Words
    <3> SUFFICES ASSUME b.word # block_size_in_words_p - 1
                 PROVE  /\ Advanced(b) = [block |-> b.block, word |-> b.word + 1, mask |-> b.mask]
                        /\ Bursting(Advanced(b)) /\ Advanced(b).word \in Words
      OBVIOUS
    <3>1. Advanced(b) = [b EXCEPT !.word = @ + 1]
      BY DEF Advanced
    <3>2. Advanced(b) = [block |-> b.block, word |-> b.word + 1, mask |-> b.mask]
      BY <2>1, <3>1
    <3>3. b.word + 1 \in Words
      BY <2>2, CacheAssumption DEF Words
    <3>4. IsBurst(b) /\ Bursting(b)
      <4>1. "word" \in DOMAIN b
        BY <2>1
      <4>2. QED
        BY <1>2, <1>6, <2>2, <4>1 DEF IsBurst, Words, b
    <3>5. Bursting(Advanced(b))
      BY <3>4, BurstAdvances
    <3>6. QED
      BY <3>2, <3>3, <3>5
  <2>7. b.word = block_size_in_words_p - 1 => Advanced(b) = Idle
    BY DEF Advanced
  <2>8. QED
    BY <2>5, <2>6, <2>7
<1>7. begins => ~gets /\ ~Bursting(b)
  BY <1>1, <1>2 DEF Bursting
<1>8. QED
  BY <1>3, <1>5, <1>6, <1>7, <1>2

(* What memory will have changes only as a word of an eviction leaves.     *)
LEMMA MemoryMoves ==
  ASSUME CacheInv, RowInv,
         NEW in, NEW ack, NEW takes, NEW gives, NEW gets, Acts(in, ack, takes, gives, gets),
         NEW p \in Places
  PROVE  InMemory(p)' =
           IF /\ evict_word /\ memory.writing.block = <<p[1], p[2]>>
              /\ p[3] = Sent /\ p[3] \in memory.writing.mask
           THEN data_mem_data_lo[dma_way] ELSE InMemory(p)
<1> DEFINE B == block_size_in_words_p
           b == memory.writing
           c == memory'.writing
           n == Len(out_fifo)
           m == Len(out_fifo')
           x == p[3]
           ours == b.block = <<p[1], p[2]>> /\ x \in b.mask
           begins == takes /\ miss.state = "SEND_EVICT_ADDR"
<1>1. /\ Memory(takes, gives, gets) /\ DmaEngine /\ IsSeq(out_fifo)
      /\ (takes => TakesPacket) /\ (gets => TakesWord) /\ gets \in BOOLEAN
  BY DEF Acts, CacheInv, BurstInv
<1>2. /\ InMemory(p) = IF ours /\ x - b.word + 1 \in 1 .. n
                       THEN out_fifo[x - b.word + 1] ELSE memory.data[p]
      /\ InMemory(p)' = IF /\ c.block = <<p[1], p[2]>> /\ x \in c.mask
                           /\ x - c.word + 1 \in 1 .. m
                        THEN out_fifo'[x - c.word + 1] ELSE memory'.data[p]
  BY DEF InMemory
<1> DEFINE gone == IF gets THEN 1 ELSE 0
<1>3. /\ n \in Nat /\ n - gone \in Nat /\ (gets => Head(out_fifo) = out_fifo[1])
      /\ \A i \in 1 .. n - gone : out_fifo'[i] = out_fifo[i + gone]
      /\ evict_word => out_fifo'[n - gone + 1] = data_mem_data_lo[dma_way]
      /\ m = IF evict_word THEN n - gone + 1 ELSE n - gone
  <2>1. n \in Nat
    BY <1>1, SeqMore
  <2>2. QED
    BY <1>1, <2>1, OutFifoWords
<1>4. /\ B \in Nat \ {0} /\ Sent \in 0 .. B - 1 /\ x \in 0 .. B - 1
      /\ evict_word => miss.state = "SEND_EVICT_DATA"
      /\ Bursting(b) => b.word \in 0 .. B - 1
      /\ IF miss.state = "SEND_EVICT_DATA" THEN Bursting(b) /\ b.word + n = Sent
         ELSE n = IF Bursting(b) THEN B - b.word ELSE 0
  <2>1. Sent \in 0 .. B - 1 /\ B \in Nat \ {0} /\ x \in 0 .. B - 1
    BY <1>1, CounterMoves, CacheAssumption, PlaceIs DEF Words
  <2>2. evict_word => miss.state = "SEND_EVICT_DATA"
    BY DEF evict_word, CacheInv, MissInv
  <2>3. QED
    BY <2>1, <2>2, BurstAdvances DEF CacheInv, BurstInv
<1>5. \A y : <<>> # <<y, p[2]>>
  OBVIOUS
<1>6. CASE begins
  <2>1. ~Bursting(b) /\ ~gets /\ memory'.data = memory.data
    BY <1>1, <1>6, WritingMoves
  <2>2. miss.state # "SEND_EVICT_DATA"
    BY <1>6
  <2>3. n = 0 /\ ~evict_word /\ gone = 0
    BY <1>4, <2>1, <2>2
  <2> HIDE DEF n, m, b, c, x, gone, begins, ours
  <2>4. m = 0
    BY <1>3, <2>3
  <2>5. InMemory(p) = memory.data[p] /\ InMemory(p)' = memory'.data[p]
    BY <1>2, <2>3, <2>4
  <2>6. QED
    BY <2>1, <2>3, <2>5
<1>7. CASE ~begins /\ ~Bursting(b)
  <2>1. ~gets /\ c = b /\ memory'.data = memory.data /\ ~evict_word
    BY <1>1, <1>4, <1>7, WritingMoves
  <2>2. b.block = <<>>
    BY <1>7 DEF Bursting, Idle
  <2>3. b.block # <<p[1], p[2]>>
    BY <2>2
  <2>4. QED
    BY <1>2, <2>1, <2>3
<1>8. CASE ~begins /\ Bursting(b) /\ ~gets
  <2>1. c = b /\ memory'.data = memory.data
    BY <1>1, <1>8, WritingMoves
  <2> DEFINE i == x - b.word + 1
  <2>2. b.word \in 0 .. B - 1 /\ i \in Int /\ gone = 0
    BY <1>4, <1>8
  <2>3. CASE evict_word
    <3>1. b.word + n = Sent /\ m = n + 1 /\ out_fifo'[n + 1] = data_mem_data_lo[dma_way]
          /\ \A j \in 1 .. n : out_fifo'[j] = out_fifo[j]
      BY <1>3, <1>4, <2>2, <2>3
    <3>2. x = Sent <=> i = n + 1
      BY <1>3, <1>4, <2>2, <3>1
    <3> HIDE DEF i
    <3>3. i \in 1 .. m <=> i \in 1 .. n \/ i = n + 1
      BY <1>3, <2>2, <3>1
    <3>4. ~(n + 1 \in 1 .. n)
      BY <1>3
    <3>5. InMemory(p)' = IF ours /\ i \in 1 .. m THEN out_fifo'[i] ELSE memory.data[p]
      BY <1>2, <2>1 DEF i
    <3>6. InMemory(p) = IF ours /\ i \in 1 .. n THEN out_fifo[i] ELSE memory.data[p]
      BY <1>2 DEF i
    <3> HIDE DEF n, m, b, c, x
    <3>7. QED
      BY <2>3, <3>1, <3>2, <3>3, <3>4, <3>5, <3>6 DEF b, x
  <2>4. CASE ~evict_word
    <3>1. m = n /\ \A j \in 1 .. n : out_fifo'[j] = out_fifo[j]
      BY <1>3, <2>2, <2>4
    <3>2. QED
      BY <1>2, <2>1, <2>4, <3>1
  <2>5. QED
    BY <2>3, <2>4
<1>9. CASE Bursting(b) /\ gets
  <2>1. /\ \A q \in Places : memory'.data[q] =
             IF b.block = <<q[1], q[2]>> /\ q[3] = b.word /\ b.word \in b.mask
             THEN Head(out_fifo) ELSE memory.data[q]
        /\ b.word = B - 1 => c = Idle
        /\ b.word # B - 1 => c = [block |-> b.block, word |-> b.word + 1, mask |-> b.mask]
    BY <1>1, <1>9, WritingMoves
  <2>2. gone = 1 /\ n \in Nat \ {0} /\ b.word \in 0 .. B - 1 /\ Head(out_fifo) = out_fifo[1]
    <3>1. gone = 1 /\ n \in Nat /\ n - 1 \in Nat /\ b.word \in 0 .. B - 1
          /\ Head(out_fifo) = out_fifo[1]
      BY <1>3, <1>4, <1>9
    <3> HIDE DEF n
    <3>2. QED
      BY <3>1
  <2> DEFINE k == b.word
             lo == data_mem_data_lo[dma_way]
             old == memory.data[p]
  <2>3. /\ \A i \in 1 .. n - 1 : out_fifo'[i] = out_fifo[i + 1]
        /\ evict_word => out_fifo'[n] = lo
        /\ m = IF evict_word THEN n ELSE n - 1
    <3>1. n - gone = n - 1 /\ n - gone + 1 = n
      BY <2>2
    <3> HIDE DEF n, m, gone, lo
    <3>2. QED
      BY <1>3, <2>2, <3>1 DEF n, m, gone, lo
  <2>4. memory'.data[p] = IF ours /\ x = k THEN out_fifo[1] ELSE old
    BY <2>1, <2>2
  <2>5. CASE k = B - 1
    <3>1. c.block = <<>>
      BY <2>1, <2>5 DEF Idle
    <3>2. InMemory(p)' = memory'.data[p]
      <4>1. c.block # <<p[1], p[2]>>
        BY <3>1
      <4>2. QED
        BY <1>2, <4>1
    <3>3. n = 1 /\ ~evict_word
      <4>1. miss.state = "SEND_EVICT_DATA" => k + n = Sent
        BY <1>4
      <4>2. miss.state # "SEND_EVICT_DATA" => n = B - k
        BY <1>4, <1>9
      <4>3. evict_word => miss.state = "SEND_EVICT_DATA"
        BY <1>4
      <4> HIDE DEF n, k, B
      <4>4. miss.state # "SEND_EVICT_DATA"
        BY <1>4, <2>2, <2>5, <4>1
      <4>5. QED
        BY <1>4, <2>5, <4>2, <4>3, <4>4
    <3> DEFINE i == x - k + 1
    <3>4. i \in 1 .. 1 <=> x = k
      BY <1>4, <2>2
    <3>5. InMemory(p) = IF ours /\ i \in 1 .. 1 THEN out_fifo[i] ELSE old
      BY <1>2, <3>3
    <3>6. x = k => i = 1
      BY <1>4, <2>2
    <3> HIDE DEF i, ours, k
    <3>7. QED
      BY <2>4, <3>2, <3>3, <3>4, <3>5, <3>6
  <2>6. CASE k # B - 1
    <3>1. c.block = b.block /\ c.word = k + 1 /\ c.mask = b.mask
      BY <2>1, <2>6
    <3> DEFINE i == x - k + 1
               j == x - (k + 1) + 1
    <3>2. /\ InMemory(p)' = IF ours /\ j \in 1 .. m THEN out_fifo'[j] ELSE memory'.data[p]
          /\ InMemory(p) = IF ours /\ i \in 1 .. n THEN out_fifo[i] ELSE old
      BY <1>2, <3>1
    <3>3. /\ i = j + 1 /\ j \in Int /\ (x = k <=> j = 0)
          /\ evict_word => (x = Sent <=> j = n)
      <4>1. evict_word => k + n = Sent
        BY <1>4
      <4> HIDE DEF n
      <4>2. QED
        BY <1>4, <2>2, <4>1
    <3> HIDE DEF i, j
    <3>4. CASE j = 0
      <4>1. x = k /\ i = 1 /\ ~(j \in 1 .. m) /\ i \in 1 .. n /\ (evict_word => x # Sent)
        BY <2>2, <3>3, <3>4
      <4>2. QED
        BY <2>4, <3>2, <4>1
    <3>5. CASE j \in 1 .. n - 1
      <4>1. x # k /\ i \in 1 .. n /\ j \in 1 .. m /\ j # n
        BY <2>2, <2>3, <3>3, <3>5
      <4>2. out_fifo'[j] = out_fifo[i]
        BY <2>3, <3>3, <3>5
      <4>3. QED
        BY <2>4, <3>2, <3>3, <4>1, <4>2
    <3>6. CASE j = n
      <4>1. x # k /\ ~(i \in 1 .. n) /\ (j \in 1 .. m <=> evict_word)
        BY <2>2, <2>3, <3>3, <3>6
      <4>2. evict_word => out_fifo'[j] = lo
        BY <2>3, <3>6
      <4>3. QED
        BY <2>4, <3>2, <3>3, <3>6, <4>1, <4>2
    <3>7. CASE j < 0 \/ j > n
      <4>1. x # k /\ ~(i \in 1 .. n) /\ ~(j \in 1 .. m) /\ (evict_word => x # Sent)
        BY <2>2, <2>3, <3>3, <3>7
      <4>2. QED
        BY <2>4, <3>2, <4>1
    <3>8. QED
      BY <2>2, <3>3, <3>4, <3>5, <3>6, <3>7
  <2>7. QED
    BY <2>5, <2>6
<1>10. QED
  BY <1>1, <1>6, <1>7, <1>8, <1>9, WritingMoves

-----------------------------------------------------------------------------
(* The sweep comes to its end once, and then leaves no way valid.          *)
LEMMA SweepGoes ==
  ASSUME CacheInv,
         NEW in, NEW ack, NEW takes, NEW gives, NEW gets, Acts(in, ack, takes, gives, gets)
  PROVE  /\ Cleared => Cleared' /\ in.op # "TAGST" /\ in # Clearing
         /\ ~Cleared => ~miss_v /\ ~miss_tag_mem_v
         /\ ~Cleared /\ Cleared' => \A s \in Sets, w \in Ways : ~tag_mem'[s][w].valid
<1> USE DEF CacheInv
<1>1. /\ \/ in = NoReq
         \/ ~Cleared /\ in = Clearing
         \/ Cleared /\ in # NoReq /\ IsRequest(in) /\ ReadsTags(in)
      /\ swept' = IF in.op = "TAGST" THEN swept + 1 ELSE swept
      /\ Entering(in, ack) /\ TagMem(in)
  BY DEF Acts, Entering
<1>2. Clearing.op = "TAGST" /\ Clearing # NoReq /\ NoReq.op # "TAGST"
  BY NoRequest DEF Clearing, NoReq
<1>3. ASSUME Cleared
      PROVE  Cleared' /\ in.op # "TAGST" /\ in # Clearing
  <2>1. in.op # "TAGST"
    BY <1>1, <1>2, <1>3 DEF ReadsTags
  <2>2. QED
    BY <1>1, <1>2, <1>3, <2>1 DEF Cleared
<1>4. ~Cleared => ~miss_v
  BY MissIsRequest DEF SweepInv
<1>5. ~Cleared => ~miss_tag_mem_v
  BY <1>4, WritesInMiss
<1>6. ASSUME ~Cleared, Cleared'
      PROVE  \A s \in Sets, w \in Ways : ~tag_mem'[s][w].valid
  <2>1. in.op = "TAGST" /\ swept' = swept + 1
    BY <1>1, <1>6 DEF Cleared
  <2>2. TagsCleared(in)
    BY <1>1, <1>5, <1>6, <2>1, TagPort DEF TagsRead, TagsWritten
  <2>3. \A s \in Sets, w \in Ways : Before(s, w, swept + 1) => ~tag_mem'[s][w].valid
    BY <2>2, Sweeping
  <2>4. swept + 1 = sets_p * ways_p
    BY <1>6, <2>1 DEF Cleared
  <2>5. (swept + 1) \div ways_p = sets_p
    BY <2>4, SweepEnds, CacheAssumption
  <2>6. \A s \in Sets : s < sets_p
    BY CacheAssumption DEF Sets
  <2>7. QED
    BY <2>3, <2>5, <2>6 DEF Before
<1>7. QED
  BY <1>3, <1>4, <1>5, <1>6

(* Until the last TAGST is over nothing is in the buffers. *)
LEMMA EarlyStays ==
  ASSUME CacheInv, EarlyInv,
         NEW in, NEW ack, NEW takes, NEW gives, NEW gets, Acts(in, ack, takes, gives, gets)
  PROVE  EarlyInv'
<1> DEFINE early == tl.op = "TAGST" \/ tv.req.op = "TAGST" \/ ~Cleared
<1>1. /\ \/ in = NoReq
         \/ ~Cleared /\ in = Clearing
         \/ Cleared /\ in # NoReq /\ IsRequest(in) /\ ReadsTags(in)
      /\ Entering(in, ack) /\ TagMem(in)
      /\ tv' = IF ~v_we(ack) THEN tv
               ELSE IF tl = NoReq THEN Bubble ELSE Lookup(Stores(ack), Tracks(ack))
      /\ sbuf' = Drained(Stores(ack), sbuf_yumi(in, ack))
      /\ tbuf' = Drained(Tracks(ack), tbuf_yumi(in, ack))
  BY DEF Acts, Entering
<1>2. NoReq.op = "none" /\ Bubble.req = NoReq /\ \A s, t : Lookup(s, t).req = tl
  BY DEF NoReq, Bubble, Lookup
<1>3. SUFFICES ASSUME tl'.op = "TAGST" \/ tv'.req.op = "TAGST" \/ ~Cleared'
               PROVE  /\ ~ReadsTags(tv'.req) /\ sbuf' = <<>> /\ tbuf' = <<>>
                      /\ Cleared' => \A s \in Sets, w \in Ways : ~tag_mem'[s][w].valid
  BY DEF EarlyInv, ReadsTags
<1>4. /\ Cleared => Cleared' /\ in.op # "TAGST" /\ in # Clearing
      /\ ~Cleared => ~miss_v /\ ~miss_tag_mem_v
      /\ ~Cleared /\ Cleared' => \A s \in Sets, w \in Ways : ~tag_mem'[s][w].valid
  BY SweepGoes
<1>5. early
  <2>1. ~Cleared' => ~Cleared
    BY <1>4
  <2>2. tl'.op = "TAGST" => early
    BY <1>1, <1>2, <1>4 DEF Entering
  <2>3. tv'.req.op = "TAGST" => early
    BY <1>1, <1>2
  <2>4. QED
    BY <1>3, <2>1, <2>2, <2>3
<1>6. /\ ~ReadsTags(tv.req) /\ sbuf = <<>> /\ tbuf = <<>>
      /\ Cleared => \A s \in Sets, w \in Ways : ~tag_mem[s][w].valid
  BY <1>5 DEF EarlyInv
<1>7. ~ReadsTags(tv'.req)
  <2> SUFFICES ASSUME ReadsTags(tv'.req) PROVE FALSE
    OBVIOUS
  <2>1. v_we(ack) /\ tl # NoReq /\ tv'.req = tl
    BY <1>1, <1>2, <1>6 DEF ReadsTags
  <2>2. ReadsTags(tl) /\ Cleared
    BY <2>1 DEF CacheInv, SweepInv
  <2>3. tl' = in \/ tl' = NoReq
    BY <1>1, <2>1 DEF Entering
  <2>4. tl'.op # "TAGST"
    BY <1>1, <1>2, <1>4, <2>2, <2>3
  <2>5. QED
    BY <1>3, <1>4, <2>1, <2>2, <2>4 DEF ReadsTags
<1>8. sbuf' = <<>> /\ tbuf' = <<>>
  <2>1. Stores(ack) = <<>> /\ Tracks(ack) = <<>>
    BY <1>6 DEF Stores, Tracks, sbuf_v, tbuf_v, Writes, ReadsTags
  <2>2. QED
    BY <1>1, <2>1 DEF Drained
<1>9. ASSUME Cleared' PROVE \A s \in Sets, w \in Ways : ~tag_mem'[s][w].valid
  <2>1. CASE Cleared
    <3>1. ~miss_tag_mem_v
      BY <1>6, MissIsRequest, WritesInMiss DEF CacheInv
    <3>2. tag_mem' = tag_mem
      BY <1>1, <1>4, <2>1, <3>1, TagPort DEF TagsRead, TagsCleared, TagsWritten, CacheInv
    <3>3. QED
      BY <1>6, <2>1, <3>2
  <2>2. QED
    BY <1>4, <1>9, <2>1
<1>10. QED
  BY <1>7, <1>8, <1>9

-----------------------------------------------------------------------------
(* While no miss is being handled, and in the edge in which one is over:   *)
(* nobody but the pipeline uses the RAMs, and the ways hold what they held. *)
LEMMA QuietEdge ==
  ASSUME CacheInv, EarlyInv,
         NEW in, NEW ack, NEW takes, NEW gives, NEW gets, Acts(in, ack, takes, gives, gets),
         miss.state = "START" \/ v_we(ack)
  PROVE  /\ ~miss_tag_mem_v /\ ~dma_data_mem_v /\ ~recover /\ ~dma_evict_o /\ dma.state = "IDLE"
         /\ ~fill_word /\ ~evict_word /\ ~evict_read /\ ~st_allocate /\ ~fill_allocate
         /\ miss'.state \in {"START", "FLUSH_OP", "LOCK_OP", "STORE_TAG_MISS", "SEND_FILL_ADDR"}
         /\ miss'.state # "START" => start
         /\ Calm /\ Calm'
         /\ \A p \in Places, w \in Ways : Holds(p, w)' <=> Holds(p, w)
<1>1. /\ MissHandler(takes, ack) /\ DmaEngine /\ TagMem(in) /\ Entering(in, ack)
      /\ MissInv /\ TvInv
  BY DEF Acts, CacheInv
<1>2. miss.state \in {"START", "DONE"} /\ dma.state = "IDLE"
  BY <1>1, StartsOver DEF MissInv
<1>3. /\ ~fill_word /\ ~evict_word /\ ~evict_read /\ ~recover /\ ~dma_evict_o
      /\ ~st_allocate /\ ~fill_allocate
  BY <1>2 DEF fill_word, evict_word, evict_read, recover, dma_evict_o, st_allocate, fill_allocate
<1>4. ~miss_tag_mem_v /\ ~dma_data_mem_v
  BY <1>2, <1>3 DEF miss_tag_mem_v, dma_data_mem_v
<1>5. miss'.state \in {"START", "FLUSH_OP", "LOCK_OP", "STORE_TAG_MISS", "SEND_FILL_ADDR"}
      /\ (miss'.state # "START" => start)
  <2>1. CASE v_we(ack)
    BY <2>1, StartsOver
  <2>2. CASE miss.state = "START"
    BY <1>1, <2>2, HandlerMoves DEF MissStates
  <2>3. QED
    BY <2>1, <2>2
<1>6. Calm /\ Calm'
  BY <1>2, <1>5 DEF Calm, EvictStates
<1>7. ASSUME NEW p \in Places, NEW w \in Ways
      PROVE  Holds(p, w)' <=> Holds(p, w)
  <2>1. /\ Holds(p, w) <=> Cleared /\ tag_mem[p[2]][w].valid /\ tag_mem[p[2]][w].tag = p[1]
        /\ Holds(p, w)' <=> Cleared' /\ tag_mem'[p[2]][w].valid /\ tag_mem'[p[2]][w].tag = p[1]
    BY <1>6 DEF Holds, Calm, FlushedOut, Refilled
  <2>2. CASE Cleared
    <3>1. Cleared' /\ in.op # "TAGST" /\ in # Clearing
      BY <2>2, SweepGoes
    <3>2. tag_mem' = tag_mem
      BY <1>1, <1>4, <2>2, TagPort DEF TagsRead, TagsCleared, TagsWritten
    <3>3. QED
      BY <2>1, <2>2, <3>1, <3>2
  <2>3. CASE ~Cleared
    <3>1. Cleared' => \A s \in Sets, x \in Ways : ~tag_mem'[s][x].valid
      BY <2>3, SweepGoes
    <3>2. p[2] \in Sets
      BY PlaceIs
    <3>3. QED
      BY <2>1, <2>3, <3>1, <3>2
  <2>4. QED
    BY <2>2, <2>3
<1>8. QED
  BY <1>2, <1>3, <1>4, <1>5, <1>6, <1>7

(* What counts is what is dirty, and what is stored in blocks that are held. *)
LEMMA CoherentSame ==
  ASSUME NEW sq, NEW tq, NEW data, NEW track, NEW stat, NEW st,
         Coherent(sq, tq, data, track, stat, st),
         NEW stat1, \A s \in Sets : stat1[s].dirty = stat[s].dirty,
         NEW st1, \A p \in Places, w \in Ways : Holds(p, w) => st1[p] = st[p]
  PROVE  Coherent(sq, tq, data, track, stat1, st1)
<1>1. Entries(sq, tq, track, stat, st) /\ Arrivals(tq)
      /\ InRam(sq, tq, data, track, st) /\ BehindRam(tq, track, stat, st)
  BY DEF Coherent
<1>2. Entries(sq, tq, track, stat1, st1)
  <2> SUFFICES ASSUME NEW i \in 1 .. Len(sq)
               PROVE  /\ sq[i].place \in Places /\ sq[i].way \in Ways /\ sq[i].lane \in BOOLEAN
                      /\ Holds(sq[i].place, sq[i].way)
                      /\ Tracked(tq, track, sq[i].place, sq[i].way)
                      /\ sq[i].way \in stat1[sq[i].place[2]].dirty
                      /\ Newest(sq, i) => sq[i].data = st1[sq[i].place]
    BY DEF Entries
  <2>1. /\ sq[i].place \in Places /\ sq[i].way \in Ways /\ sq[i].lane \in BOOLEAN
        /\ Holds(sq[i].place, sq[i].way)
        /\ Tracked(tq, track, sq[i].place, sq[i].way)
        /\ sq[i].way \in stat[sq[i].place[2]].dirty
        /\ Newest(sq, i) => sq[i].data = st[sq[i].place]
    BY <1>1 DEF Entries
  <2>2. sq[i].place[2] \in Sets
    BY <2>1, PlaceIs
  <2>3. QED
    BY <2>1, <2>2
<1>3. InRam(sq, tq, data, track, st1)
  BY <1>1 DEF InRam
<1>4. BehindRam(tq, track, stat1, st1)
  <2> SUFFICES ASSUME NEW p \in Places, NEW w \in Ways, Holds(p, w),
                      Tracked(tq, track, p, w) => Clean(stat1, p, w)
               PROVE  InMemory(p) = st1[p]
    BY DEF BehindRam
  <2>1. p[2] \in Sets
    BY PlaceIs
  <2>2. Clean(stat1, p, w) <=> Clean(stat, p, w)
    BY <2>1 DEF Clean
  <2>3. QED
    BY <1>1, <2>2 DEF BehindRam
<1>5. QED
  BY <1>1, <1>2, <1>3, <1>4 DEF Coherent

(* Nothing is held, nothing can be wrong. *)
LEMMA CoherentNone ==
  ASSUME NEW data, NEW track, NEW stat, NEW st,
         \A p \in Places, w \in Ways : ~Holds(p, w)
  PROVE  Coherent(<<>>, <<>>, data, track, stat, st)
<1>1. Len(<<>>) = 0
  BY SeqNone
<1>2. \A i \in 1 .. Len(<<>>) : FALSE
  BY <1>1
<1>3. Entries(<<>>, <<>>, track, stat, st) /\ Arrivals(<<>>)
  BY <1>2 DEF Entries, Arrivals
<1>4. QED
  BY <1>3 DEF Coherent, InRam, BehindRam

-----------------------------------------------------------------------------
(* The way that hit holds the block, also while words of it are fetched.   *)
LEMMA HitHolds ==
  ASSUME CacheInv, WayInv, ReadsTags(tv.req), tag_hit_found,
         Calm \/ (miss.state = "GET_FILL_DATA" /\ tv.track_miss),
         miss.state \notin {"RECOVER", "DONE"},
         NEW p, p[1] = tv.req.tag, p[2] = tv.req.set
  PROVE  Holds(p, tag_hit_way_id)
<1>1. /\ tag_hit_way_id \in Ways /\ tv.tags[tag_hit_way_id].valid
      /\ tv.tags[tag_hit_way_id].tag = tv.req.tag
  BY HitWay DEF CacheInv
<1>2. tv.tags = tag_mem[tv.req.set]
  BY DEF CacheInv, TagsInv, Unwritten, Calm, MissInv
<1>3. Cleared
  BY TvRequest DEF CacheInv
<1>4. ~FlushedOut(p[2], tag_hit_way_id) /\ ~Refilled(p[2], tag_hit_way_id)
  BY DEF FlushedOut, Refilled, Calm, EvictStates
<1>5. QED
  BY <1>1, <1>2, <1>3, <1>4 DEF Holds

(* A store that is answered enters the buffers. *)
LEMMA StoreAnswered ==
  ASSUME CacheInv, WayInv, DataInv, NEW ack, ack \in BOOLEAN, ack => v_o, ack, Writes(tv.req),
         StatMem(ack), Stored(ack)
  PROVE  Coherent(Stores(ack), Tracks(ack), data_mem, track_mem, stat_mem', stored')
<1> DEFINE e == sbuf_entry
           f == tbuf_entry
           q == Place(tv.req)
<1>1. /\ ReadsTags(tv.req) /\ tv.req.op \in {"ST", "AMO"}
      /\ tv.req.op = "AMO" => ReadsTrack(tv.req)
      /\ tv.req.op = "ST" => (ReadsTrack(tv.req) <=> ~tv.req.full)
  BY DEF Writes, ReadsTags, ReadsTrack, Reads, partial_st
<1>2. /\ Cleared /\ tv.req.set \in Sets /\ tv.req.tag \in Tags /\ tv.req.word \in Words
      /\ tv.req.lane \in BOOLEAN
      /\ tv.req.op = "ST" => tv.req.full \in BOOLEAN /\ (tv.req.full => tv.req.lane)
  BY <1>1, TvRequest DEF CacheInv, Addressed
<1>3. q \in Places /\ q[1] = tv.req.tag /\ q[2] = tv.req.set /\ q[3] = tv.req.word
  BY <1>2 DEF Place, Places
<1>4. miss.state \in {"START", "DONE"} /\ (miss_v <=> miss.state = "DONE") /\ Calm
  BY <1>1 DEF v_o, MissInv, CacheInv, miss_v, Calm, EvictStates
<1>5. /\ e.place = q /\ e.way = tv_way /\ e.lane = tv.req.lane
      /\ e.data = written(tv.req, ld_data) /\ f.place = q /\ f.way = tv_way
  BY DEF sbuf_entry, tbuf_entry
<1>6. /\ Stores(ack) = Append(sbuf, e)
      /\ Tracks(ack) = IF word_tracking_p /\ tv.req.op = "ST" /\ tv.req.full
                       THEN Append(tbuf, f) ELSE tbuf
  BY DEF Stores, Tracks, sbuf_v, tbuf_v
<1>7. /\ tv_way \in Ways /\ Holds(q, tv_way) /\ tv_way \in stat_mem'[tv.req.set].dirty
      /\ \A s \in Sets : stat_mem[s].dirty \subseteq stat_mem'[s].dirty
      /\ ReadsTrack(tv.req) => Tracked(tbuf, track_mem, q, tv_way)
  <2>1. CASE miss.state = "DONE"
    <3>1. tv_way = miss.chosen_way /\ miss_v
      BY <1>4, <2>1 DEF tv_way
    <3>2. stat_mem' = stat_mem
      BY <2>1, <3>1, StatRests
    <3>3. Holds(Asked(0), tv_way) /\ tv_way \in stat_mem[tv.req.set].dirty
          /\ (ReadsTrack(tv.req) => Tracked(tbuf, track_mem, q, tv_way))
      BY <1>1, <2>1, <3>1 DEF DataInv, OverInv
    <3>4. Holds(q, tv_way)
      BY <1>3, <3>3 DEF Holds, Asked
    <3>5. QED
      BY <3>1, <3>2, <3>3, <3>4 DEF WayInv
  <2>2. CASE miss.state = "START"
    <3>1. ~miss_v /\ tv_way = tag_hit_way_id
      BY <1>4, <2>2 DEF tv_way
    <3>2. tag_hit_found
      BY <1>1, <3>1 DEF CacheInv, TvInv, misses, miss_v, tag_hit_found
    <3>3. Holds(q, tv_way)
      BY <1>1, <1>3, <1>4, <2>2, <3>1, <3>2, HitHolds
    <3>4. tv.hits = {tv_way} /\ tv_way \in Ways
      BY <1>1, <3>1, <3>2, HitWay DEF CacheInv
    <3>5. StatRow(stat_mem[tv.req.set].dirty \cup tv.hits,
                  Touched(stat_mem[tv.req.set].lru_bits, tag_hit_way_id))
      BY <1>1, <3>1, StatPort DEF Answering, CacheInv
    <3>6. tv_way \in stat_mem'[tv.req.set].dirty
          /\ \A s \in Sets : stat_mem[s].dirty \subseteq stat_mem'[s].dirty
      BY <1>2, <3>4, <3>5 DEF StatRow, WayInv
    <3>7. ReadsTrack(tv.req) => Tracked(tbuf, track_mem, q, tv_way)
      BY <3>1 DEF DataInv, TvData
    <3>8. QED
      BY <3>3, <3>4, <3>6, <3>7
  <2>3. QED
    BY <1>4, <2>1, <2>2
<1>8. Tracked(Tracks(ack), track_mem, q, tv_way)
  <2>1. CASE word_tracking_p /\ tv.req.op = "ST" /\ tv.req.full
    <3>1. Len(tbuf) \in Nat /\ Len(Append(tbuf, f)) = Len(tbuf) + 1
          /\ Append(tbuf, f)[Len(tbuf) + 1] = f
      BY AppendIs DEF CacheInv, BufInv
    <3>2. Len(tbuf) + 1 \in 1 .. Len(Append(tbuf, f))
      BY <3>1
    <3>3. QED
      BY <1>5, <1>6, <2>1, <3>1, <3>2 DEF Tracked
  <2>2. CASE ~(word_tracking_p /\ tv.req.op = "ST" /\ tv.req.full)
    <3>1. word_tracking_p => ReadsTrack(tv.req)
      BY <1>1, <1>2, <2>2
    <3>2. QED
      BY <1>6, <1>7, <2>2, <3>1 DEF Tracked
  <2>3. QED
    BY <2>1, <2>2
<1>9. \A p \in Places : stored'[p] = IF p = q /\ e.lane THEN e.data ELSE stored[p]
  <2>1. tv.req.op # "AINV" /\ DOMAIN stored = Places
    BY <1>1 DEF DataInv, RowInv
  <2>2. CASE tv.req.lane
    <3>1. stored' = [stored EXCEPT ![q] = written(tv.req, ld_data)]
      BY <2>1, <2>2 DEF Stored
    <3>2. QED
      BY <1>3, <1>5, <2>1, <2>2, <3>1
  <2>3. CASE ~tv.req.lane
    <3>1. stored' = stored
      BY <2>1, <2>3 DEF Stored
    <3>2. QED
      BY <1>5, <2>3, <3>1
  <2>4. QED
    BY <2>2, <2>3
<1>10. OneHit /\ IsSeq(sbuf) /\ IsSeq(tbuf)
       /\ Coherent(sbuf, tbuf, data_mem, track_mem, stat_mem, stored)
  BY DEF CacheInv, BufInv, DataInv, WordInv
<1>11. Tracks(ack) = tbuf \/ (Tracks(ack) = Append(tbuf, f) /\ e.lane)
  BY <1>2, <1>5, <1>6
<1>12. /\ e.place \in Places /\ e.way \in Ways /\ e.lane \in BOOLEAN /\ Holds(e.place, e.way)
       /\ f.place = e.place /\ f.way = e.way
       /\ Tracked(Tracks(ack), track_mem, e.place, e.way)
       /\ e.way \in stat_mem'[e.place[2]].dirty
       /\ \A s \in Sets : stat_mem[s].dirty \subseteq stat_mem'[s].dirty
       /\ \A p \in Places : stored'[p] = IF p = e.place /\ e.lane THEN e.data ELSE stored[p]
  BY <1>2, <1>3, <1>5, <1>7, <1>8, <1>9
<1> HIDE DEF e, f, q
<1>13. Coherent(Append(sbuf, e), Tracks(ack), data_mem, track_mem, stat_mem', stored')
  <2>1. PICK x, y, z, g, h : x = stat_mem' /\ y = stored' /\ z = Tracks(ack) /\ g = e /\ h = f
    OBVIOUS
  <2>2. /\ z = tbuf \/ (z = Append(tbuf, h) /\ g.lane)
        /\ g.place \in Places /\ g.way \in Ways /\ g.lane \in BOOLEAN /\ Holds(g.place, g.way)
        /\ h.place = g.place /\ h.way = g.way /\ Tracked(z, track_mem, g.place, g.way)
        /\ g.way \in x[g.place[2]].dirty
        /\ \A s \in Sets : stat_mem[s].dirty \subseteq x[s].dirty
        /\ \A p \in Places : y[p] = IF p = g.place /\ g.lane THEN g.data ELSE stored[p]
    BY ONLY <1>11, <1>12, <2>1
  <2>3. Coherent(Append(sbuf, g), z, data_mem, track_mem, x, y)
    BY ONLY <1>4, <1>10, <2>2, StoreEnters
  <2>4. QED
    BY <2>1, <2>3
<1>14. QED
  BY <1>6, <1>13

-----------------------------------------------------------------------------
(* What else is answered, or not yet, leaves the buffers alone, and what   *)
(* counts as stored in the blocks that are held.                           *)
LEMMA OthersAnswered ==
  ASSUME CacheInv, WayInv, DataInv, NEW ack, ack \in BOOLEAN, ack => v_o,
         StatMem(ack), Stored(ack), ~(ack /\ Writes(tv.req)),
         miss.state = "START" \/ (miss.state = "DONE" /\ ack)
  PROVE  /\ Coherent(sbuf, tbuf, data_mem, track_mem, stat_mem', stored')
         /\ DOMAIN stored' = Places
         /\ \A p \in Places : \/ stored'[p] = stored[p] /\ ~Void(p)
                              \/ /\ stored'[p] = InMemory(p) /\ Void(p)
                                 /\ \A w \in Ways : ~Holds(p, w)
<1>1. DOMAIN stored = Places
      /\ Coherent(sbuf, tbuf, data_mem, track_mem, stat_mem, stored)
  BY DEF DataInv, RowInv, WordInv
<1> DEFINE thrown == ack /\ tv.req.op = "AINV" /\ miss_v
<1>2. ~thrown => stored' = stored
  BY DEF Stored
<1>3. thrown => stored' = [p \in Places |-> IF <<p[1], p[2]>> = fill_block THEN InMemory(p)
                                           ELSE stored[p]]
  BY DEF Stored, Writes
<1>4. DOMAIN stored' = Places
  BY <1>1, <1>2, <1>3
<1>5. ASSUME NEW p \in Places
      PROVE  \/ stored'[p] = stored[p] /\ ~Void(p)
             \/ stored'[p] = InMemory(p) /\ Void(p) /\ \A w \in Ways : ~Holds(p, w)
  <2>1. CASE thrown
    <3>1. miss.state = "DONE"
      BY <2>1 DEF v_o
    <3>2. Void(p) <=> <<p[1], p[2]>> = fill_block
      BY <2>1, <3>1 DEF Void, fill_block
    <3>3. stored'[p] = IF Void(p) THEN InMemory(p) ELSE stored[p]
      BY <1>3, <2>1, <3>2
    <3>4. \A w \in Ways : ~Holds(Asked(0), w)
      BY <2>1, <3>1 DEF DataInv, OverInv
    <3>5. Void(p) => \A w \in Ways : ~Holds(p, w)
      BY <3>4 DEF Void, Holds, Asked
    <3>6. QED
      BY <3>3, <3>5
  <2>2. CASE ~thrown
    <3>1. ~Void(p)
      BY <2>2 DEF Void, CacheInv, MissInv, miss_v
    <3>2. QED
      BY <1>2, <2>2, <3>1
  <2>3. QED
    BY <2>1, <2>2
<1>6. \A p \in Places, w \in Ways : Holds(p, w) => stored'[p] = stored[p]
  BY <1>5
<1>7. CASE tv.req.op = "TAGST"
  <2>1. sbuf = <<>> /\ tbuf = <<>>
        /\ (Cleared => \A s \in Sets, w \in Ways : ~tag_mem[s][w].valid)
    BY <1>7 DEF DataInv, EarlyInv
  <2>2. Calm
    BY DEF Calm, EvictStates
  <2>3. \A p \in Places, w \in Ways : ~Holds(p, w)
    BY <2>1, <2>2, PlaceIs DEF Holds, Calm, FlushedOut, Refilled
  <2>4. QED
    BY <1>4, <1>5, <2>1, <2>3, CoherentNone
<1>8. CASE tv.req.op # "TAGST"
  <2>1. \A s \in Sets : stat_mem'[s].dirty = stat_mem[s].dirty
    <3>1. CASE tv.req = NoReq
      BY <3>1 DEF StatMem
    <3>2. CASE ReadsTags(tv.req)
      <4>1. tv.req.set \in Sets /\ stat_mem \in [Sets -> [dirty : SUBSET Ways, lru_bits : SUBSET Nodes]]
        BY <3>2, TvRequest DEF CacheInv, WayInv
      <4>2. miss.state # "FLUSH_OP" /\ ~st_allocate /\ ~fill_allocate
        BY DEF st_allocate, fill_allocate
      <4>3. CASE Answering(ack)
        <5>1. StatRow(stat_mem[tv.req.set].dirty,
                      Touched(stat_mem[tv.req.set].lru_bits, tag_hit_way_id))
          BY <3>2, <4>3, StatPort DEF Answering, CacheInv
        <5>2. QED
          BY <4>1, <5>1 DEF StatRow
      <4>4. CASE ~Answering(ack)
        <5>1. stat_mem' = [stat_mem EXCEPT ![tv.req.set] = stat_mem[tv.req.set]]
          BY <3>2, <4>2, <4>4, StatPort DEF CacheInv
        <5>2. QED
          BY <4>1, <5>1
      <4>5. QED
        BY <4>3, <4>4
    <3>3. QED
      BY <1>8, <3>1, <3>2, NoRequest DEF CacheInv, TypeInv, IsRequest, ReadsTags, Operations,
                                         Addressed
  <2>2. PICK x, y : x = stat_mem' /\ y = stored'
    OBVIOUS
  <2>3. /\ \A s \in Sets : x[s].dirty = stat_mem[s].dirty
        /\ \A p \in Places, w \in Ways : Holds(p, w) => y[p] = stored[p]
    BY <1>6, <2>1, <2>2
  <2>4. Coherent(sbuf, tbuf, data_mem, track_mem, x, y)
    BY <1>1, <2>3, CoherentSame
  <2>5. QED
    BY <1>4, <1>5, <2>2, <2>4
<1>9. QED
  BY <1>7, <1>8

(* The buffers, before anything drains. *)
LEMMA EdgeStores ==
  ASSUME CacheInv, WayInv, DataInv,
         NEW in, NEW ack, NEW takes, NEW gives, NEW gets, Acts(in, ack, takes, gives, gets),
         ActsOnData(in, ack), miss.state = "START" \/ v_we(ack)
  PROVE  /\ Coherent(Stores(ack), Tracks(ack), data_mem, track_mem, stat_mem', stored')
         /\ IsSeq(Stores(ack)) /\ IsSeq(Tracks(ack)) /\ DOMAIN stored' = Places
         /\ ~word_tracking_p => Tracks(ack) = <<>>
         /\ \A p \in Places : (\A w \in Ways : ~Holds(p, w)) => InMemory(p) = stored'[p]
<1>1. ack \in BOOLEAN /\ (ack => v_o) /\ StatMem(ack) /\ Stored(ack)
  BY DEF Acts, ActsOnData
<1>2. miss.state = "START" \/ (miss.state = "DONE" /\ ack)
  <2>1. CASE v_we(ack)
    <3>1. miss.state = "START" \/ miss.state = "DONE"
      BY <2>1, StartsOver
    <3>2. miss.state = "DONE" => ack
      BY <2>1, MissIsRequest DEF CacheInv, MissInv, miss_v, v_we
    <3>3. QED
      BY <3>1, <3>2
  <2>2. QED
    BY <2>1
<1>3. IsSeq(Stores(ack)) /\ IsSeq(Tracks(ack))
  BY SeqMore DEF Stores, Tracks, CacheInv, BufInv
<1>4. ~word_tracking_p => Tracks(ack) = <<>>
  BY DEF Tracks, tbuf_v, DataInv, RowInv
<1>5. CASE ack /\ Writes(tv.req)
  <2>1. Coherent(Stores(ack), Tracks(ack), data_mem, track_mem, stat_mem', stored')
    BY <1>1, <1>5, StoreAnswered
  <2>2. stored' = stored \/ stored' = [stored EXCEPT ![Place(tv.req)] = written(tv.req, ld_data)]
    BY <1>5 DEF Stored, ActsOnData, Writes
  <2>3. \E w \in Ways : Holds(Place(tv.req), w)
    <3>1. /\ ReadsTags(tv.req) /\ tv.req.op \in {"LD", "ST", "AMO"}
          /\ Place(tv.req)[1] = tv.req.tag /\ Place(tv.req)[2] = tv.req.set
      BY <1>5 DEF Writes, ReadsTags, Place
    <3>2. CASE miss.state = "DONE"
      <4>1. Holds(Asked(0), miss.chosen_way)
        BY <3>1, <3>2 DEF DataInv, OverInv
      <4>2. Holds(Place(tv.req), miss.chosen_way)
        BY <3>1, <4>1 DEF Holds, Asked
      <4>3. QED
        BY <4>2 DEF WayInv
    <3>3. CASE miss.state = "START"
      <4>1. ~miss_v
        BY <1>1, <1>5, <3>3 DEF v_o
      <4>2. tag_hit_found
        BY <3>1, <4>1 DEF CacheInv, TvInv, misses, miss_v, tag_hit_found
      <4>3. Calm
        BY <3>3 DEF Calm, EvictStates
      <4>4. Holds(Place(tv.req), tag_hit_way_id) /\ tag_hit_way_id \in Ways
        BY <3>1, <3>3, <4>2, <4>3, HitHolds, HitWay DEF CacheInv
      <4>5. QED
        BY <4>4
    <3>4. QED
      BY <1>2, <3>2, <3>3
  <2>4. \A p \in Places : ~Void(p)
    BY <1>5 DEF Void, Writes
  <2>5. DOMAIN stored' = Places /\ DOMAIN stored = Places
    BY <2>2 DEF DataInv, RowInv
  <2>6. ASSUME NEW p \in Places, \A w \in Ways : ~Holds(p, w)
        PROVE  InMemory(p) = stored'[p]
    <3>1. p # Place(tv.req)
      BY <2>3, <2>6
    <3>2. InMemory(p) = stored[p]
      BY <2>4, <2>6 DEF DataInv, WordInv, Elsewhere
    <3>3. QED
      BY <2>2, <2>5, <3>1, <3>2
  <2>7. QED
    BY <1>3, <1>4, <2>1, <2>5, <2>6
<1>6. CASE ~(ack /\ Writes(tv.req))
  <2>1. Stores(ack) = sbuf /\ Tracks(ack) = tbuf
    BY <1>1, <1>6 DEF Stores, Tracks, sbuf_v, tbuf_v, Writes
  <2>2. /\ Coherent(sbuf, tbuf, data_mem, track_mem, stat_mem', stored')
        /\ DOMAIN stored' = Places
        /\ \A p \in Places : \/ stored'[p] = stored[p] /\ ~Void(p)
                             \/ stored'[p] = InMemory(p) /\ Void(p)
    BY <1>1, <1>2, <1>6, OthersAnswered
  <2>3. \A p \in Places : (\A w \in Ways : ~Holds(p, w)) => InMemory(p) = stored'[p]
    BY <2>2 DEF DataInv, WordInv, Elsewhere
  <2>4. QED
    BY <1>3, <1>4, <2>1, <2>2, <2>3
<1>7. QED
  BY <1>5, <1>6

-----------------------------------------------------------------------------
(* The oldest entries leave the buffers. *)
LEMMA EdgeDrains ==
  ASSUME CacheInv, WayInv, DataInv,
         NEW in, NEW ack, NEW takes, NEW gives, NEW gets, Acts(in, ack, takes, gives, gets),
         ActsOnData(in, ack), miss.state = "START" \/ v_we(ack)
  PROVE  /\ Coherent(sbuf', tbuf', data_mem', track_mem', stat_mem', stored')
         /\ DOMAIN data_mem' = Sets /\ \A s \in Sets : DOMAIN data_mem'[s] = Words
         /\ track_mem' \in [Sets -> [Ways -> SUBSET Words]]
         /\ \A s \in Sets, w \in Ways : track_mem[s][w] \subseteq track_mem'[s][w]
         /\ \A p \in Places, w \in Ways : Holds(p, w) =>
              (Tracked(tbuf', track_mem', p, w) <=> Tracked(Tracks(ack), track_mem, p, w))
         /\ ~word_tracking_p => tbuf' = <<>> /\ track_mem_data_lo' = track_mem_data_lo
         /\ ~Draining(in, ack) => DataRead(in)
         /\ ~Arriving(in, ack) => TrackRead(in)
<1> DEFINE sq == Stores(ack)
           tq == Tracks(ack)
<1>1. PICK x, y : x = stat_mem' /\ y = stored'
  OBVIOUS
<1>2. /\ Coherent(sq, tq, data_mem, track_mem, x, y)
      /\ IsSeq(sq) /\ IsSeq(tq) /\ (~word_tracking_p => tq = <<>>)
  BY <1>1, EdgeStores
<1>3. /\ ~dma_data_mem_v /\ ~recover /\ ~fill_word /\ ~st_allocate /\ ~fill_allocate
      /\ Calm /\ OneHit
  BY QuietEdge DEF DataInv, CacheInv
<1>4. /\ sbuf' = IF Draining(in, ack) THEN Tail(sq) ELSE sq
      /\ tbuf' = IF Arriving(in, ack) THEN Tail(tq) ELSE tq
  BY <1>2 DEF Acts, Drained, Draining, Arriving
<1>5. (sq # <<>> => Head(sq).place \in Places) /\ (tq # <<>> => Head(tq).place \in Places)
  <2>1. sq # <<>> => Head(sq) = sq[1] /\ 1 \in 1 .. Len(sq)
    BY <1>2, TailIs
  <2>2. tq # <<>> => Head(tq) = tq[1] /\ 1 \in 1 .. Len(tq)
    BY <1>2, TailIs
  <2>3. Entries(sq, tq, track_mem, x, y) /\ Arrivals(tq)
    BY <1>2 DEF Coherent
  <2>4. QED
    BY <2>1, <2>2, <2>3 DEF Entries, Arrivals
<1>6. /\ DOMAIN data_mem' = Sets /\ \A s \in Sets : DOMAIN data_mem'[s] = Words
      /\ Draining(in, ack) => DataDrained(Head(sq))
      /\ ~Draining(in, ack) => DataRead(in)
  <2>1. /\ MissInv /\ RowInv /\ DataMem(in, ack, Stores(ack)) /\ Entering(in, ack)
        /\ ~fill_word /\ (Stores(ack) # <<>> => Head(Stores(ack)).place \in Places /\ ~recover)
    BY <1>3, <1>5 DEF Acts, ActsOnData, CacheInv, DataInv
  <2>2. QED
    BY <2>1, DataPort
<1>7. /\ track_mem' \in [Sets -> [Ways -> SUBSET Words]]
      /\ Arriving(in, ack) => TrackDrained(Head(tq))
      /\ ~Arriving(in, ack) => TrackRead(in)
  <2>1. /\ MissInv /\ RowInv /\ TrackMem(in, ack, Tracks(ack)) /\ Entering(in, ack)
        /\ ~Allocates /\ (Tracks(ack) # <<>> => Head(Tracks(ack)).place \in Places /\ ~recover)
    BY <1>3, <1>5 DEF Acts, ActsOnData, CacheInv, DataInv, Allocates
  <2>2. QED
    BY <2>1, TrackPort
<1> HIDE DEF sq, tq
<1>8. Coherent(sbuf', tq, data_mem', track_mem, x, y)
  <2>1. CASE Draining(in, ack)
    <3>1. sq # <<>>
      BY <2>1 DEF Draining, sq
    <3>2. PICK d : d = data_mem'
      OBVIOUS
    <3>3. \A p \in Places, w \in Ways :
            d[p[2]][p[3]][w] =
              IF /\ p[2] = Head(sq).place[2] /\ p[3] = Head(sq).place[3]
                 /\ w = Head(sq).way /\ Head(sq).lane
              THEN Head(sq).data ELSE data_mem[p[2]][p[3]][w]
      BY <1>6, <2>1, <3>2 DEF DataDrained
    <3>4. Coherent(Tail(sq), tq, d, track_mem, x, y)
      BY ONLY <1>2, <1>3, <3>1, <3>3, StoreDrains
    <3>5. QED
      BY <1>4, <2>1, <3>2, <3>4
  <2>2. CASE ~Draining(in, ack)
    BY <1>2, <1>4, <1>6, <2>2 DEF DataRead
  <2>3. QED
    BY <2>1, <2>2
<1>9. /\ Coherent(sbuf', tbuf', data_mem', track_mem', x, y)
      /\ \A p \in Places, w \in Ways : Holds(p, w) =>
           (Tracked(tbuf', track_mem', p, w) <=> Tracked(tq, track_mem, p, w))
      /\ \A s \in Sets, w \in Ways : track_mem[s][w] \subseteq track_mem'[s][w]
  <2>1. CASE Arriving(in, ack)
    <3>1. tq # <<>>
      BY <2>1 DEF Arriving, tq
    <3>2. PICK s1, d1, t1 : s1 = sbuf' /\ d1 = data_mem' /\ t1 = track_mem'
      OBVIOUS
    <3>3. \A s \in Sets, w \in Ways :
            t1[s][w] = IF s = Head(tq).place[2] /\ w = Head(tq).way
                       THEN track_mem[s][w] \cup {Head(tq).place[3]} ELSE track_mem[s][w]
      BY <1>7, <2>1, <3>2 DEF TrackDrained
    <3>4. \A p \in Places, w \in Ways :
            p[3] \in t1[p[2]][w] <=>
              \/ p[3] \in track_mem[p[2]][w]
              \/ p[2] = Head(tq).place[2] /\ p[3] = Head(tq).place[3] /\ w = Head(tq).way
      <4> SUFFICES ASSUME NEW p \in Places, NEW w \in Ways
                   PROVE  p[3] \in t1[p[2]][w] <=>
                            \/ p[3] \in track_mem[p[2]][w]
                            \/ /\ p[2] = Head(tq).place[2] /\ p[3] = Head(tq).place[3]
                               /\ w = Head(tq).way
        OBVIOUS
      <4>1. p[2] \in Sets
        BY PlaceIs
      <4>2. t1[p[2]][w] = IF p[2] = Head(tq).place[2] /\ w = Head(tq).way
                          THEN track_mem[p[2]][w] \cup {Head(tq).place[3]} ELSE track_mem[p[2]][w]
        BY <3>3, <4>1
      <4>3. QED
        BY <4>2
    <3>5. Coherent(s1, tq, d1, track_mem, x, y)
      BY <1>8, <3>2
    <3>6. /\ Coherent(s1, Tail(tq), d1, t1, x, y)
          /\ \A p \in Places, w \in Ways : Holds(p, w) =>
               (Tracked(Tail(tq), t1, p, w) <=> Tracked(tq, track_mem, p, w))
      BY ONLY <1>2, <1>3, <3>1, <3>4, <3>5, TrackDrains
    <3>7. QED
      BY <1>4, <2>1, <3>2, <3>3, <3>6
  <2>2. CASE ~Arriving(in, ack)
    <3>1. track_mem' = track_mem /\ tbuf' = tq
      BY <1>4, <1>7, <2>2 DEF TrackRead
    <3>2. QED
      BY <1>8, <3>1
  <2>3. QED
    BY <2>1, <2>2
<1>10. ~word_tracking_p => tbuf' = <<>> /\ track_mem_data_lo' = track_mem_data_lo
  BY <1>2, <1>4, <1>7 DEF Arriving, TrackRead
<1>11. QED
  BY <1>1, <1>6, <1>7, <1>9, <1>10 DEF tq

-----------------------------------------------------------------------------
(* Where the bytes are after an edge in which no miss is handled. *)
LEMMA QuietWords ==
  ASSUME CacheInv, WayInv, DataInv,
         NEW in, NEW ack, NEW takes, NEW gives, NEW gets, Acts(in, ack, takes, gives, gets),
         ActsOnData(in, ack), miss.state = "START" \/ v_we(ack)
  PROVE  WordInv'
<1>1. /\ \A p \in Places, w \in Ways : Holds(p, w)' <=> Holds(p, w)
      /\ ~evict_word /\ Calm /\ Calm' /\ setting' = setting
      /\ miss'.state \in {"START", "FLUSH_OP", "LOCK_OP", "STORE_TAG_MISS", "SEND_FILL_ADDR"}
      /\ miss'.state # "START" => start
  BY QuietEdge DEF Acts, DataInv
<1>2. \A p \in Places : InMemory(p)' = InMemory(p)
  BY <1>1, MemoryMoves DEF DataInv
<1>3. Coherent(sbuf', tbuf', data_mem', track_mem', stat_mem', stored')
  BY EdgeDrains
<1>4. /\ Entries(sbuf', tbuf', track_mem', stat_mem', stored') /\ Arrivals(tbuf')
      /\ InRam(sbuf', tbuf', data_mem', track_mem', stored')
      /\ BehindRam(tbuf', track_mem', stat_mem', stored')
  BY <1>3 DEF Coherent
<1>5. \A p, w : Tracked(tbuf, track_mem, p, w)' <=> Tracked(tbuf', track_mem', p, w)
  BY <1>1 DEF Tracked, word_tracking_p
<1>6. \A p, w : Clean(stat_mem, p, w)' <=> Clean(stat_mem', p, w)
  BY <1>1 DEF Clean, FlushedOut, Calm
<1>7. Entries(sbuf, tbuf, track_mem, stat_mem, stored)'
  <2> SUFFICES ASSUME NEW i \in 1 .. Len(sbuf')
               PROVE  /\ sbuf'[i].place \in Places /\ sbuf'[i].way \in Ways
                      /\ sbuf'[i].lane \in BOOLEAN
                      /\ Holds(sbuf[i].place, sbuf[i].way)'
                      /\ Tracked(tbuf, track_mem, sbuf[i].place, sbuf[i].way)'
                      /\ sbuf'[i].way \in stat_mem'[sbuf'[i].place[2]].dirty
                      /\ Newest(sbuf', i) => sbuf'[i].data = stored'[sbuf'[i].place]
    BY DEF Entries, Newest
  <2>1. /\ sbuf'[i].place \in Places /\ sbuf'[i].way \in Ways /\ sbuf'[i].lane \in BOOLEAN
        /\ Holds(sbuf'[i].place, sbuf'[i].way)
        /\ Tracked(tbuf', track_mem', sbuf'[i].place, sbuf'[i].way)
        /\ sbuf'[i].way \in stat_mem'[sbuf'[i].place[2]].dirty
        /\ Newest(sbuf', i) => sbuf'[i].data = stored'[sbuf'[i].place]
    BY <1>4 DEF Entries
  <2>2. PICK p, w : p = sbuf'[i].place /\ w = sbuf'[i].way
    OBVIOUS
  <2>3. Holds(p, w)' /\ Tracked(tbuf, track_mem, p, w)'
    BY <1>1, <1>5, <2>1, <2>2
  <2>4. /\ Holds(sbuf[i].place, sbuf[i].way)' <=> Holds(p, w)'
        /\ Tracked(tbuf, track_mem, sbuf[i].place, sbuf[i].way)' <=> Tracked(tbuf, track_mem, p, w)'
    BY <2>2 DEF Holds, FlushedOut, Refilled, Tracked
  <2>5. QED
    BY <2>1, <2>3, <2>4
<1>8. Arrivals(tbuf)'
  <2> SUFFICES ASSUME NEW i \in 1 .. Len(tbuf')
               PROVE  /\ tbuf'[i].place \in Places /\ tbuf'[i].way \in Ways
                      /\ Holds(tbuf[i].place, tbuf[i].way)'
    BY DEF Arrivals
  <2>1. /\ tbuf'[i].place \in Places /\ tbuf'[i].way \in Ways
        /\ Holds(tbuf'[i].place, tbuf'[i].way)
    BY <1>4 DEF Arrivals
  <2>2. PICK p, w : p = tbuf'[i].place /\ w = tbuf'[i].way
    OBVIOUS
  <2>3. Holds(p, w)'
    BY <1>1, <2>1, <2>2
  <2>4. Holds(tbuf[i].place, tbuf[i].way)' <=> Holds(p, w)'
    BY <2>2 DEF Holds, FlushedOut, Refilled
  <2>5. QED
    BY <2>1, <2>3, <2>4
<1>9. InRam(sbuf, tbuf, data_mem, track_mem, stored)'
  <2> SUFFICES ASSUME NEW p \in Places, NEW w \in Ways, Holds(p, w)',
                      Tracked(tbuf, track_mem, p, w)', ~Pending(sbuf', p)
               PROVE  data_mem'[p[2]][p[3]][w] = stored'[p]
    BY DEF InRam, Pending
  <2>1. QED
    BY <1>1, <1>4, <1>5 DEF InRam
<1>10. BehindRam(tbuf, track_mem, stat_mem, stored)'
  <2> SUFFICES ASSUME NEW p \in Places, NEW w \in Ways, Holds(p, w)',
                      Tracked(tbuf, track_mem, p, w)' => Clean(stat_mem, p, w)'
               PROVE  InMemory(p)' = stored'[p]
    BY DEF BehindRam
  <2>1. QED
    BY <1>1, <1>2, <1>4, <1>5, <1>6 DEF BehindRam
<1>11. Coherent(sbuf, tbuf, data_mem, track_mem, stat_mem, stored)'
  BY <1>7, <1>8, <1>9, <1>10 DEF Coherent
<1>12. Elsewhere(stored)'
  <2> SUFFICES ASSUME NEW p \in Places, \A w \in Ways : ~Holds(p, w)'
               PROVE  InMemory(p)' = stored'[p]
    BY DEF Elsewhere
  <2>1. InMemory(p) = stored'[p]
    BY <1>1, EdgeStores
  <2>2. QED
    BY <1>2, <2>1
<1>13. miss'.state # "START" => sbuf' = <<>> /\ tbuf' = <<>>
  <2> SUFFICES ASSUME miss'.state # "START" PROVE sbuf' = <<>> /\ tbuf' = <<>>
    OBVIOUS
  <2>1. miss.state = "START" /\ miss_v /\ sbuf = <<>> /\ tbuf = <<>>
    BY <1>1 DEF start
  <2>2. ~ack
    BY <2>1 DEF Acts, v_o
  <2>3. Stores(ack) = <<>> /\ Tracks(ack) = <<>>
    BY <2>1, <2>2, OnlyWithAnAnswer
  <2>4. QED
    BY <2>3 DEF Acts, Drained
<1>14. QED
  BY <1>11, <1>12, <1>13 DEF WordInv

-----------------------------------------------------------------------------
(* The newest entry for a place, if there is one. *)
LEMMA NewestIs ==
  ASSUME NEW sq, IsSeq(sq), Len(sq) <= 3, NEW p, Pending(sq, p)
  PROVE  LET T == {i \in DOMAIN sq : sq[i].place = p /\ sq[i].lane}
         IN  Max(T) \in 1 .. Len(sq) /\ sq[Max(T)].place = p /\ Newest(sq, Max(T))
<1> DEFINE T == {i \in DOMAIN sq : sq[i].place = p /\ sq[i].lane}
<1>1. DOMAIN sq = 1 .. Len(sq) /\ Len(sq) \in Nat
  BY DomainIs
<1>2. T # {} /\ T \subseteq 1 .. Len(sq)
  BY <1>1 DEF Pending
<1>3. \A i \in 1 .. Len(sq) : i \in {1, 2, 3}
  BY <1>1
<1>4. T \subseteq {1, 2, 3}
  BY <1>2, <1>3
<1>5. \A i : i \in T <=> i \in 1 .. Len(sq) /\ sq[i].place = p /\ sq[i].lane
  BY <1>1
<1> HIDE DEF T
<1>6. \E m \in T : \A i \in T : m >= i
  <2>1. \A i \in T : i = 1 \/ i = 2 \/ i = 3
    BY <1>4
  <2>2. CASE 3 \in T
    <3>1. \A i \in T : 3 >= i
      BY <2>1
    <3>2. QED
      BY <2>2, <3>1
  <2>3. CASE 3 \notin T /\ 2 \in T
    <3>1. \A i \in T : 2 >= i
      BY <2>1, <2>3
    <3>2. QED
      BY <2>3, <3>1
  <2>4. CASE 3 \notin T /\ 2 \notin T
    <3>1. \A i \in T : i = 1
      BY <2>1, <2>4
    <3>2. 1 \in T
      BY <1>2, <3>1
    <3>3. QED
      BY <3>1, <3>2
  <2>5. QED
    BY <2>2, <2>3, <2>4
<1>7. Max(T) \in T /\ \A i \in T : Max(T) >= i
  BY <1>6 DEF Max
<1>8. PICK m : m = Max(T)
  OBVIOUS
<1>9. m \in 1 .. Len(sq) /\ sq[m].place = p /\ sq[m].lane
  BY <1>5, <1>7, <1>8
<1>10. \A j \in 1 .. Len(sq) : sq[j].place = sq[m].place /\ sq[j].lane => j <= m
  <2> SUFFICES ASSUME NEW j \in 1 .. Len(sq), sq[j].place = sq[m].place, sq[j].lane
               PROVE  j <= m
    OBVIOUS
  <2>1. j \in T
    BY <1>5, <1>9
  <2>2. m >= j
    BY <1>7, <1>8, <2>1
  <2>3. QED
    BY <1>1, <1>9, <2>2
<1>11. QED
  BY <1>8, <1>9, <1>10 DEF Newest, T

(* The way of TL's block, as its tags tell; whether the word is there, as  *)
(* the track RAM and the track buffer tell.                                *)
LEMMA WayOfTl ==
  ASSUME CacheInv, DataInv, ReadsTrack(tl), miss_v => miss.state = "DONE", Calm,
         tag_hits(tl, tag_mem_data_lo) # {}
  PROVE  LET h == Min(tag_hits(tl, tag_mem_data_lo))
         IN  /\ Place(tl) \in Places /\ h \in Ways /\ Holds(Place(tl), h)
             /\ track_mem_data_lo[h] = IF word_tracking_p THEN track_mem[tl.set][h] ELSE Words
             /\ tl.set \in Sets /\ tl.word \in Words
<1> DEFINE hits == tag_hits(tl, tag_mem_data_lo)
           h == Min(hits)
<1>1. ReadsTags(tl) /\ tl.op \in {"LD", "ST", "AMO"} /\ tl # NoReq
  BY NoRequest DEF ReadsTrack, Reads, partial_st, ReadsTags
<1>2. tl.set \in Sets /\ tl.tag \in Tags /\ tl.word \in Words /\ Cleared
  BY <1>1 DEF CacheInv, TypeInv, IsRequest, SweepInv, ReadsTags, Addressed
<1>3. tag_mem_data_lo = tag_mem[tl.set] /\ tag_mem[tl.set] \in [Ways -> TagInfo]
  BY <1>1, <1>2 DEF CacheInv, TagsInv, TypeInv
<1>4. hits \subseteq Ways
      /\ \A w \in Ways : w \in hits <=> tag_mem[tl.set][w].valid /\ tag_mem[tl.set][w].tag = tl.tag
  BY <1>1, <1>3, HitsAre
<1>5. h \in hits
  BY <1>4, FirstWay
<1> HIDE DEF h, hits
<1>6. Place(tl) \in Places /\ Place(tl)[1] = tl.tag /\ Place(tl)[2] = tl.set
  BY <1>2 DEF Place, Places
<1>7. Holds(Place(tl), h)
  BY <1>2, <1>4, <1>5, <1>6 DEF Holds, Calm, FlushedOut, Refilled
<1>8. track_mem_data_lo[h] = IF word_tracking_p THEN track_mem[tl.set][h] ELSE Words
  BY <1>4, <1>5 DEF DataInv, TlData, RowInv
<1>9. QED
  BY <1>2, <1>4, <1>5, <1>6, <1>7, <1>8 DEF h, hits

-----------------------------------------------------------------------------
(* What TV takes over from TL of a request that needs a word: whether the  *)
(* word is there, and what was stored there last.                          *)
LEMMA LookupFinds ==
  ASSUME CacheInv, WayInv, DataInv,
         NEW in, NEW ack, NEW takes, NEW gives, NEW gets, Acts(in, ack, takes, gives, gets),
         ActsOnData(in, ack), v_we(ack), ReadsTrack(tl), tag_hits(tl, tag_mem_data_lo) # {}
  PROVE  LET h == Min(tag_hits(tl, tag_mem_data_lo))
         IN  /\ tv'.track_miss <=> ~Tracked(tbuf', track_mem', Place(tl), h)
             /\ Reads(tl) /\ ~tv'.track_miss =>
                  (IF tv'.bypass_mask THEN tv'.bypass_data ELSE tv'.data[h]) = stored'[Place(tl)]
<1> DEFINE hits == tag_hits(tl, tag_mem_data_lo)
           h == Min(hits)
           p == Place(tl)
           sq == Stores(ack)
           tq == Tracks(ack)
           buffered == {i \in DOMAIN sq : sq[i].place = p /\ sq[i].lane}
           tracked == ReadsTrack(tl) /\ \E i \in DOMAIN tq : tq[i].place = p
<1>1. tv' = [req         |-> tl,
             tags        |-> tag_mem_data_lo,
             hits        |-> hits,
             track_miss  |-> untracked(tl, hits, track_mem_data_lo, tracked),
             miss        |-> misses(tl, tag_mem_data_lo, hits,
                                    untracked(tl, hits, track_mem_data_lo, tracked)),
             data        |-> IF Reads(tl) THEN data_mem_data_lo ELSE <<>>,
             bypass_mask |-> Reads(tl) /\ buffered # {},
             bypass_data |-> IF Reads(tl) /\ buffered # {} THEN sq[Max(buffered)].data
                             ELSE Unknown]
  BY NoRequest DEF Acts, Lookup, ReadsTrack, Reads, partial_st
<1>2. (miss_v => miss.state = "DONE") /\ Calm
  BY StartsOver, QuietEdge DEF DataInv
<1>3. /\ p \in Places /\ h \in Ways /\ Holds(p, h) /\ tl.set \in Sets /\ tl.word \in Words
      /\ track_mem_data_lo[h] = IF word_tracking_p THEN track_mem[tl.set][h] ELSE Words
  BY <1>2, WayOfTl
<1>4. /\ Coherent(sq, tq, data_mem, track_mem, stat_mem', stored')
      /\ IsSeq(sq) /\ IsSeq(tq)
  BY EdgeStores
<1>5. p[2] = tl.set /\ p[3] = tl.word
  BY DEF Place
<1>6. Tracked(tbuf', track_mem', p, h) <=> Tracked(tq, track_mem, p, h)
  BY <1>3, EdgeDrains
<1>7. tv'.track_miss <=> ~Tracked(tq, track_mem, p, h)
  <2>1. tv'.track_miss <=> tl.word \notin track_mem_data_lo[h] /\ ~tracked
    BY <1>1 DEF untracked
  <2>2. tracked <=> \E i \in 1 .. Len(tq) : tq[i].place = p
    BY <1>4, DomainIs
  <2> HIDE DEF tracked, h, p, tq
  <2>3. QED
    BY <1>3, <1>5, <2>1, <2>2 DEF Tracked
<1>8. ASSUME Reads(tl), ~tv'.track_miss
      PROVE  (IF tv'.bypass_mask THEN tv'.bypass_data ELSE tv'.data[h]) = stored'[p]
  <2>1. Tracked(tq, track_mem, p, h)
    BY <1>7, <1>8
  <2>2. buffered # {} <=> Pending(sq, p)
    BY <1>4, DomainIs DEF Pending
  <2>3. CASE Pending(sq, p)
    <3>1. Len(sq) <= 3
      BY AppendIs DEF Stores, CacheInv, BufInv
    <3>2. /\ Max(buffered) \in 1 .. Len(sq) /\ sq[Max(buffered)].place = p
          /\ Newest(sq, Max(buffered))
      BY <1>4, <2>3, <3>1, NewestIs
    <3>3. sq[Max(buffered)].data = stored'[p]
      BY <1>4, <3>2 DEF Coherent, Entries
    <3>4. QED
      BY <1>1, <1>8, <2>2, <2>3, <3>3
  <2>4. CASE ~Pending(sq, p)
    <3>1. data_mem[p[2]][p[3]][h] = stored'[p]
      BY <1>3, <1>4, <2>1, <2>4 DEF Coherent, InRam
    <3>2. data_mem_data_lo = data_mem[tl.set][tl.word]
      BY <1>2, <1>8 DEF DataInv, TlData
    <3>3. tv'.data = data_mem_data_lo /\ ~tv'.bypass_mask
      BY <1>1, <1>8, <2>2, <2>4
    <3>4. QED
      BY <1>5, <3>1, <3>2, <3>3
  <2>5. QED
    BY <2>3, <2>4
<1>9. QED
  BY <1>6, <1>7, <1>8

(* What TV knows after an edge in which no miss is handled.                *)
LEMMA QuietTv ==
  ASSUME CacheInv, WayInv, DataInv,
         NEW in, NEW ack, NEW takes, NEW gives, NEW gets, Acts(in, ack, takes, gives, gets),
         ActsOnData(in, ack), miss.state = "START" \/ v_we(ack)
  PROVE  TvData'
<1>1. setting' = setting /\ miss'.state \notin {"RECOVER", "DONE"}
  BY QuietEdge DEF Acts, DataInv
<1>2. \A p, w : Tracked(tbuf, track_mem, p, w)' <=> Tracked(tbuf', track_mem', p, w)
  BY <1>1 DEF Tracked, word_tracking_p
<1>3. CASE v_we(ack) /\ tl = NoReq
  <2>1. tv' = Bubble /\ Bubble.req = NoReq /\ NoReq.op = "none"
    BY <1>3, NoRequest DEF Acts
  <2>2. ~Reads(tv.req)' /\ ~ReadsTrack(tv.req)' /\ ~ReadsTags(tv.req)'
    BY <2>1 DEF ReadsTrack, Reads, partial_st, ReadsTags
  <2>3. QED
    BY <2>2 DEF TvData
<1>4. CASE v_we(ack) /\ tl # NoReq
  <2> DEFINE hits == tag_hits(tl, tag_mem_data_lo)
             h == Min(hits)
             tracked == ReadsTrack(tl) /\ \E i \in DOMAIN Tracks(ack) :
                                            Tracks(ack)[i].place = Place(tl)
             no_word == untracked(tl, hits, track_mem_data_lo, tracked)
  <2>1. /\ tv'.req = tl /\ tv'.hits = hits /\ tv'.track_miss = no_word
        /\ tv'.miss = misses(tl, tag_mem_data_lo, hits, no_word)
    BY <1>4 DEF Acts, Lookup
  <2>2. no_word => ReadsTrack(tl) /\ hits # {}
    BY DEF untracked
  <2>3. ReadsTrack(tl) /\ hits # {} =>
          /\ tv'.track_miss <=> ~Tracked(tbuf', track_mem', Place(tl), h)
          /\ Reads(tl) /\ ~tv'.track_miss =>
               (IF tv'.bypass_mask THEN tv'.bypass_data ELSE tv'.data[h]) = stored'[Place(tl)]
    BY <1>4, LookupFinds
  <2>4. ReadsTrack(tl) => tl.op \in {"LD", "ST", "AMO"} /\ (Reads(tl) => ReadsTrack(tl))
    BY DEF ReadsTrack, Reads, partial_st
  <2>5. ReadsTrack(tl) /\ ~tv'.miss => hits # {} /\ ~tv'.track_miss
    BY <2>1, <2>4 DEF misses
  <2>6. tag_hit_way_id' = h /\ miss_v' = tv'.miss
    BY <2>1 DEF tag_hit_way_id, miss_v
  <2> HIDE DEF hits, h, no_word
  <2>7. Reads(tl) => ReadsTrack(tl)
    BY DEF ReadsTrack
  <2>8. /\ Place(tv.req)' = Place(tl) /\ Reads(tv.req)' = Reads(tl)
        /\ ReadsTrack(tv.req)' = ReadsTrack(tl)
    BY <2>1 DEF Place, Reads, ReadsTrack, partial_st
  <2>9. Reads(tl) /\ ~tv'.miss =>
          (IF tv'.bypass_mask THEN tv'.bypass_data ELSE tv'.data[h]) = stored'[Place(tl)]
    BY <2>3, <2>5, <2>7
  <2>10. ReadsTrack(tl) /\ ~tv'.miss => Tracked(tbuf', track_mem', Place(tl), h)
    BY <2>3, <2>5
  <2>11. tv'.track_miss => ReadsTrack(tl) /\ ~Tracked(tbuf', track_mem', Place(tl), h)
    BY <2>1, <2>2, <2>3
  <2>12. Tracked(tbuf, track_mem, Place(tv.req), tag_hit_way_id)'
           <=> Tracked(tbuf', track_mem', Place(tl), h)
    BY <1>2, <2>6, <2>8 DEF Tracked
  <2>13. QED
    BY <2>6, <2>8, <2>9, <2>10, <2>11, <2>12 DEF TvData
<1>5. CASE ~v_we(ack)
  <2>1. tv' = tv /\ miss.state = "START" /\ ~ack
    BY <1>5 DEF Acts, v_we
  <2>2. stored' = stored /\ Tracks(ack) = tbuf
    BY <2>1, OnlyWithAnAnswer DEF ActsOnData, Stored
  <2> DEFINE q == Place(tv.req)
             id == tag_hit_way_id
  <2>3. tag_hit_found /\ ReadsTags(tv.req) /\ ReadsTrack(tv.req) => Holds(q, id) /\ q \in Places /\ id \in Ways
    <3> SUFFICES ASSUME tag_hit_found, ReadsTags(tv.req), ReadsTrack(tv.req)
                 PROVE  Holds(q, id) /\ q \in Places /\ id \in Ways
      OBVIOUS
    <3>1. q[1] = tv.req.tag /\ q[2] = tv.req.set
      BY DEF Place
    <3>2. Calm
      BY <2>1 DEF Calm, EvictStates
    <3>3. Holds(q, id) /\ id \in Ways
      BY <2>1, <3>1, <3>2, HitHolds, HitWay DEF CacheInv
    <3>4. tv.req.op \in {"LD", "ST", "AMO"}
      BY DEF ReadsTrack, Reads, partial_st
    <3>5. tv.req.tag \in Tags /\ tv.req.set \in Sets /\ tv.req.word \in Words
      BY <3>4, TvRequest DEF Addressed, CacheInv
    <3>6. QED
      BY <3>3, <3>5 DEF Place, Places
  <2>4. tag_hit_found /\ ReadsTags(tv.req) /\ ReadsTrack(tv.req) =>
          (Tracked(tbuf', track_mem', q, id) <=> Tracked(tbuf, track_mem, q, id))
    BY <2>2, <2>3, EdgeDrains
  <2>5. ReadsTrack(tv.req) =>
          ReadsTags(tv.req) /\ tv.req.op \in {"LD", "ST", "AMO"}
    BY DEF ReadsTrack, Reads, partial_st, ReadsTags
  <2>6. /\ ReadsTrack(tv.req) /\ ~miss_v => tag_hit_found
        /\ ReadsTags(tv.req) /\ tv.track_miss => tag_hit_found
    BY <2>5 DEF CacheInv, TvInv, misses, miss_v, tag_hit_found
  <2>7. /\ Reads(tv.req) /\ ~miss_v =>
             (IF tv.bypass_mask THEN tv.bypass_data ELSE tv.data[tag_hit_way_id]) = stored[q]
        /\ ReadsTrack(tv.req) /\ ~miss_v => Tracked(tbuf, track_mem, q, id)
        /\ ReadsTags(tv.req) /\ tv.track_miss =>
             ReadsTrack(tv.req) /\ ~Tracked(tbuf, track_mem, q, id)
    BY <2>1 DEF DataInv, TvData
  <2>8. /\ q' = q /\ id' = id /\ miss_v' = miss_v
        /\ Reads(tv.req)' = Reads(tv.req) /\ ReadsTrack(tv.req)' = ReadsTrack(tv.req)
        /\ ReadsTags(tv.req)' = ReadsTags(tv.req)
    BY <2>1 DEF Place, tag_hit_way_id, miss_v, Reads, ReadsTrack, partial_st, ReadsTags
  <2>9. Tracked(tbuf, track_mem, Place(tv.req), tag_hit_way_id)'
          <=> Tracked(tbuf', track_mem', q, id)
    BY <1>2, <2>8 DEF Tracked
  <2> HIDE DEF q, id
  <2>10. /\ ReadsTrack(tv.req) /\ ~miss_v => Tracked(tbuf', track_mem', q, id)
         /\ ReadsTags(tv.req) /\ tv.track_miss =>
              ReadsTrack(tv.req) /\ ~Tracked(tbuf', track_mem', q, id)
    BY <2>4, <2>5, <2>6, <2>7
  <2>11. QED
    BY <2>1, <2>2, <2>7, <2>8, <2>9, <2>10 DEF TvData, q, id
<1>6. QED
  BY <1>3, <1>4, <1>5

-----------------------------------------------------------------------------
(* While a miss is handled the pipeline stands and its buffers are empty:  *)
(* the ports serve the handler, the engine, and whoever enters TL.         *)
Handled(ack) == miss.state # "START" /\ ~v_we(ack)

(* What such an edge leaves alone and what its ports do.                   *)
LEMMA HandledEdge ==
  ASSUME CacheInv, WayInv, DataInv,
         NEW in, NEW ack, NEW takes, NEW gives, NEW gets, Acts(in, ack, takes, gives, gets),
         ActsOnData(in, ack), Handled(ack)
  PROVE  /\ ~ack /\ tv' = tv /\ setting' = setting /\ stored' = stored
         /\ miss_v /\ ReadsTags(tv.req) /\ Cleared /\ Cleared' /\ tv.req.set \in Sets
         /\ in.op # "TAGST"
         /\ sbuf = <<>> /\ tbuf = <<>> /\ sbuf' = <<>> /\ tbuf' = <<>>
         /\ ~Draining(in, ack) /\ ~Arriving(in, ack)
         /\ DOMAIN data_mem' = Sets /\ \A s \in Sets : DOMAIN data_mem'[s] = Words
         /\ track_mem' \in [Sets -> [Ways -> SUBSET Words]]
         /\ fill_word => DataFilled
         /\ ~fill_word => DataRead(in)
         /\ Allocates => TrackSet
         /\ ~Allocates => TrackRead(in)
<1>1. /\ miss_v /\ ReadsTags(tv.req) /\ Cleared /\ tv.req.set \in Sets
      /\ miss.state # "START" /\ ~v_we(ack)
  BY AtWork DEF Handled
<1>2. ~ack /\ tv' = tv /\ setting' = setting
  BY <1>1 DEF v_we, Acts
<1>3. Cleared' /\ in.op # "TAGST"
  BY <1>1, SweepGoes
<1>4. stored' = stored
  BY <1>2 DEF ActsOnData, Stored
<1>5. sbuf = <<>> /\ tbuf = <<>>
  BY <1>1 DEF DataInv, WordInv
<1>6. Stores(ack) = <<>> /\ Tracks(ack) = <<>>
  BY <1>2, <1>5, OnlyWithAnAnswer
<1>7. sbuf' = <<>> /\ tbuf' = <<>> /\ ~Draining(in, ack) /\ ~Arriving(in, ack)
  BY <1>6 DEF Acts, Drained, Draining, Arriving
<1>8. MissInv /\ RowInv /\ Entering(in, ack) /\ DataMem(in, ack, Stores(ack))
      /\ TrackMem(in, ack, Tracks(ack))
  BY DEF Acts, ActsOnData, CacheInv, DataInv
<1>9. fill_word => tv.req.set \in Sets /\ dma.counter \in Words
  BY <1>1 DEF fill_word, CacheInv, BurstInv, Words
<1>10. Allocates => tv.req.set \in Sets
  BY <1>1
<1>11. /\ DOMAIN data_mem' = Sets /\ \A s \in Sets : DOMAIN data_mem'[s] = Words
       /\ fill_word => DataFilled
       /\ ~fill_word => DataRead(in)
  BY <1>6, <1>7, <1>8, <1>9, DataPort
<1>12. /\ track_mem' \in [Sets -> [Ways -> SUBSET Words]]
       /\ Allocates => TrackSet
       /\ ~Allocates => TrackRead(in)
  BY <1>6, <1>7, <1>8, <1>10, TrackPort
<1>13. QED
  BY <1>1, <1>2, <1>3, <1>4, <1>5, <1>7, <1>11, <1>12

(* What TL counts on is what the RAMs' outputs show.                       *)
LEMMA TlStays ==
  ASSUME CacheInv, WayInv, DataInv,
         NEW in, NEW ack, NEW takes, NEW gives, NEW gets, Acts(in, ack, takes, gives, gets),
         ActsOnData(in, ack)
  PROVE  TlData'
<1>1. /\ Entering(in, ack) /\ setting' = setting
      /\ MissInv /\ MissHandler(takes, ack) /\ miss.state \in MissStates
  BY DEF Acts, CacheInv, MissInv
<1>2. /\ ~fill_word /\ ~Draining(in, ack) => DataRead(in)
      /\ ~Allocates /\ ~Arriving(in, ack) => TrackRead(in)
  <2>1. CASE Handled(ack)
    BY <2>1, HandledEdge
  <2>2. CASE ~Handled(ack)
    BY <2>2, EdgeDrains DEF Handled
  <2>3. QED
    BY <2>1, <2>2
<1>3. CASE in # NoReq
  <2>1. tl' = in
    BY <1>1, <1>3 DEF Entering
  <2>2. ~miss_track_mem_v /\ ~dma_data_mem_v /\ ~recover
    <3>1. CASE miss_v
      BY <1>1, <1>3, <3>1 DEF Entering
    <3>2. CASE ~miss_v
      BY <1>1, <3>2, AtRest DEF MissInv, miss_v
    <3>3. QED
      BY <3>1, <3>2
  <2>3. ~fill_word /\ ~evict_read
    BY <2>2 DEF dma_data_mem_v
  <2>4. word_tracking_p => ~start /\ ~Allocates
    BY <2>2 DEF miss_track_mem_v, Allocates
  <2>5. ~Allocates
    BY <2>4 DEF Allocates
  <2>6. Reads(in) => data_mem_data_lo' = data_mem'[in.set][in.word]
    BY <1>2, <2>2, <2>3 DEF DataRead, Draining, sbuf_yumi
  <2>7. ReadsTrack(in) /\ word_tracking_p => track_mem_data_lo' = track_mem'[in.set]
    BY <1>2, <2>2, <2>4, <2>5 DEF TrackRead, Arriving, tbuf_yumi
  <2>8. QED
    BY <1>1, <2>1, <2>6, <2>7 DEF TlData, Reads, ReadsTrack, partial_st, word_tracking_p
<1>4. CASE in = NoReq /\ tl' = NoReq
  <2>1. ~Reads(tl)' /\ ~ReadsTrack(tl)'
    BY <1>4, NoRequest DEF Reads, ReadsTrack, partial_st
  <2>2. QED
    BY <2>1 DEF TlData
<1>5. CASE in = NoReq /\ tl' = tl /\ ~v_we(ack)
  <2>1. tv' = tv /\ ~Reads(in) /\ ~ReadsTrack(in)
    BY <1>5, NoRequest DEF Acts, Reads, ReadsTrack, partial_st
  <2> SUFFICES ASSUME miss_v => miss'.state = "DONE"
               PROVE  /\ Reads(tl) => data_mem_data_lo' = data_mem'[tl.set][tl.word]
                      /\ ReadsTrack(tl) /\ word_tracking_p
                           => track_mem_data_lo' = track_mem'[tl.set]
    BY <1>1, <1>5, <2>1 DEF TlData, Reads, ReadsTrack, partial_st, word_tracking_p, miss_v
  <2>2. CASE ~miss_v
    <3>1. miss.state = "START"
      BY <1>1, <2>2 DEF MissInv, miss_v
    <3>2. ~recover /\ ~dma_data_mem_v /\ ~miss_track_mem_v /\ ~start
      BY <1>1, <2>2, <3>1, AtRest
    <3>3. ~fill_word /\ ~evict_read /\ ~Allocates
      BY <3>2 DEF dma_data_mem_v, miss_track_mem_v, Allocates
    <3>4. /\ Reads(tl) => data_mem_data_lo = data_mem[tl.set][tl.word]
          /\ ReadsTrack(tl) /\ word_tracking_p => track_mem_data_lo = track_mem[tl.set]
      BY <2>2 DEF DataInv, TlData
    <3>5. (Reads(tl) => ~Draining(in, ack)) /\ (ReadsTrack(tl) => ~Arriving(in, ack))
      BY <1>5, <2>2 DEF Draining, sbuf_yumi, Arriving, tbuf_yumi
    <3>6. QED
      BY <1>2, <2>1, <3>2, <3>3, <3>4, <3>5 DEF DataRead, TrackRead
  <2>3. CASE miss_v
    <3>1. miss.state \in {"RECOVER", "DONE"}
      BY <1>1, <2>3, HandlerMoves DEF MissStates, EvictStates
    <3>2. Handled(ack)
      BY <1>5, <3>1 DEF Handled
    <3>3. ~fill_word /\ ~evict_read /\ ~start /\ ~st_allocate /\ ~fill_allocate
      BY <1>1, <3>1 DEF fill_word, evict_read, evict_word, start, st_allocate, fill_allocate, MissInv
    <3>4. DataRead(in) /\ TrackRead(in)
      BY <3>2, <3>3, HandledEdge DEF Allocates
    <3>5. CASE miss.state = "RECOVER"
      BY <3>4, <3>5 DEF recover, DataRead, TrackRead
    <3>6. CASE miss.state = "DONE"
      <4>1. /\ Reads(tl) => data_mem_data_lo = data_mem[tl.set][tl.word]
            /\ ReadsTrack(tl) /\ word_tracking_p => track_mem_data_lo = track_mem[tl.set]
        BY <3>6 DEF DataInv, TlData
      <4>2. ~recover
        BY <3>6 DEF recover
      <4>3. QED
        BY <2>1, <3>3, <3>4, <4>1, <4>2 DEF DataRead, TrackRead
    <3>7. QED
      BY <3>1, <3>5, <3>6
  <2>4. QED
    BY <2>2, <2>3
<1>6. QED
  BY <1>1, <1>3, <1>4, <1>5 DEF Entering

-----------------------------------------------------------------------------
(* With both buffers empty a byte is where the tags and the track RAM say.  *)
There(p, w) == word_tracking_p => p[3] \in track_mem[p[2]][w]
RamHas(p, w) == Holds(p, w) /\ There(p, w) => data_mem[p[2]][p[3]][w] = stored[p]
MemHas(p, w) ==
  Holds(p, w) /\ (There(p, w) => Clean(stat_mem, p, w)) => InMemory(p) = stored[p]
NobodyHas(p) == (\A w \in Ways : ~Holds(p, w)) /\ ~Void(p) => InMemory(p) = stored[p]

(* With empty buffers a word is where WordInv says it can be.              *)
LEMMA EmptyWords ==
  ASSUME WordInv, sbuf = <<>>, tbuf = <<>>, NEW p \in Places
  PROVE  (\A w \in Ways : RamHas(p, w) /\ MemHas(p, w)) /\ NobodyHas(p)
<1>1. NobodyHas(p)
  BY DEF WordInv, Elsewhere, NobodyHas
<1> SUFFICES ASSUME NEW w \in Ways PROVE RamHas(p, w) /\ MemHas(p, w)
  BY <1>1
<1>2. ~Pending(sbuf, p) /\ (Tracked(tbuf, track_mem, p, w) <=> There(p, w))
  BY DEF Pending, Tracked, There
<1>3. RamHas(p, w)
  BY <1>2 DEF WordInv, Coherent, InRam, RamHas
<1>4. MemHas(p, w)
  BY <1>2 DEF WordInv, Coherent, BehindRam, MemHas
<1>5. QED
  BY <1>3, <1>4

(* And so in the next state. *)
LEMMA EmptiedWords ==
  ASSUME sbuf' = <<>>, tbuf' = <<>>,
         \A p \in Places :
           (\A w \in Ways : RamHas(p, w)' /\ MemHas(p, w)') /\ NobodyHas(p)'
  PROVE  WordInv'
<1>1. Entries(sbuf, tbuf, track_mem, stat_mem, stored)' /\ Arrivals(tbuf)'
  BY DEF Entries, Arrivals
<1>2. \A p, w : Tracked(tbuf, track_mem, p, w)' <=> There(p, w)'
  BY DEF Tracked, There
<1>3. InRam(sbuf, tbuf, data_mem, track_mem, stored)'
  BY <1>2 DEF InRam, RamHas
<1>4. BehindRam(tbuf, track_mem, stat_mem, stored)'
  BY <1>2 DEF BehindRam, MemHas
<1>5. Elsewhere(stored)'
  BY DEF Elsewhere, NobodyHas
<1>6. QED
  BY <1>1, <1>3, <1>4, <1>5 DEF WordInv, Coherent

(* What the handler does to tags and dirty bits. *)
LEMMA HandledTags ==
  ASSUME CacheInv, WayInv, DataInv,
         NEW in, NEW ack, NEW takes, NEW gives, NEW gets, Acts(in, ack, takes, gives, gets),
         ActsOnData(in, ack), Handled(ack)
  PROVE  /\ ~miss_tag_mem_v => tag_mem' = tag_mem
         /\ \A s \in Sets, w \in Ways :
              tag_mem'[s][w] = IF miss_tag_mem_v /\ s = tv.req.set THEN HandlersTag(w)
                               ELSE tag_mem[s][w]
         /\ \A s \in Sets : stat_mem'[s].dirty =
              IF s # tv.req.set THEN stat_mem[s].dirty
              ELSE IF miss.state = "FLUSH_OP" THEN stat_mem[s].dirty \ Flushed
              ELSE IF st_allocate THEN stat_mem[s].dirty \cup {miss.chosen_way}
              ELSE IF fill_allocate THEN Marked(stat_mem[s].dirty)
              ELSE stat_mem[s].dirty
<1>1. ReadsTags(tv.req) /\ tv.req.set \in Sets /\ miss_v /\ ~ack /\ in.op # "TAGST"
  BY HandledEdge
<1>2. /\ TypeInv /\ MissInv /\ Entering(in, ack) /\ TagMem(in) /\ StatMem(ack)
  BY DEF Acts, ActsOnData, CacheInv
<1>3. TagsRead(in) \/ TagsWritten(in)
  BY <1>1, <1>2, TagPort DEF TagsCleared
<1>4. ~miss_tag_mem_v => tag_mem' = tag_mem
  BY <1>3 DEF TagsRead, TagsWritten
<1>5. miss_tag_mem_v =>
        tag_mem' = [tag_mem EXCEPT ![tv.req.set] = [w \in Ways |-> HandlersTag(w)]]
  BY <1>3 DEF TagsRead, TagsWritten
<1>6. \A s \in Sets, w \in Ways :
        tag_mem'[s][w] = IF miss_tag_mem_v /\ s = tv.req.set THEN HandlersTag(w)
                         ELSE tag_mem[s][w]
  BY <1>1, <1>2, <1>4, <1>5 DEF TypeInv
<1>7. stat_mem \in [Sets -> [dirty : SUBSET Ways, lru_bits : SUBSET Nodes]]
  BY DEF WayInv
<1>8. \A s \in Sets : stat_mem'[s].dirty =
        IF s # tv.req.set THEN stat_mem[s].dirty
        ELSE IF miss.state = "FLUSH_OP" THEN stat_mem[s].dirty \ Flushed
        ELSE IF st_allocate THEN stat_mem[s].dirty \cup {miss.chosen_way}
        ELSE IF fill_allocate THEN Marked(stat_mem[s].dirty)
        ELSE stat_mem[s].dirty
  <2> DEFINE row == stat_mem[tv.req.set]
             way == miss.chosen_way
  <2>1. /\ miss.state = "FLUSH_OP" => StatRow(row.dirty \ Flushed, row.lru_bits)
        /\ st_allocate => StatRow(row.dirty \cup {way}, Touched(row.lru_bits, way))
        /\ fill_allocate => StatRow(Marked(row.dirty), Touched(row.lru_bits, way))
        /\ miss.state # "FLUSH_OP" /\ ~st_allocate /\ ~fill_allocate
             => stat_mem' = [stat_mem EXCEPT ![tv.req.set] = row]
    BY <1>1, <1>2, StatPort DEF Answering
  <2>2. ASSUME NEW d, NEW b, StatRow(d, b), NEW s \in Sets
        PROVE  stat_mem'[s].dirty = IF s # tv.req.set THEN stat_mem[s].dirty ELSE d
    BY <1>1, <1>7, <2>2 DEF StatRow
  <2>3. CASE miss.state = "FLUSH_OP"
    BY <2>1, <2>2, <2>3
  <2>4. CASE miss.state # "FLUSH_OP" /\ st_allocate
    BY <2>1, <2>2, <2>4
  <2>5. CASE miss.state # "FLUSH_OP" /\ ~st_allocate /\ fill_allocate
    BY <2>1, <2>2, <2>5
  <2>6. CASE miss.state # "FLUSH_OP" /\ ~st_allocate /\ ~fill_allocate
    <3>1. stat_mem' = stat_mem
      BY <1>1, <1>7, <2>1, <2>6
    <3>2. QED
      BY <2>6, <3>1
  <2>7. QED
    BY <2>3, <2>4, <2>5, <2>6
<1>9. QED
  BY <1>4, <1>6, <1>8

(* The block that is on its way out is held until all of it is written.    *)
LEMMA EvictedHeld ==
  ASSUME CacheInv, WayInv, DataInv, miss.state \in EvictStates
  PROVE  /\ dma_way \in Ways /\ dma_way = (IF goto_flush_op THEN miss.flush_way ELSE miss.chosen_way)
         /\ evict_block = <<tv.tags[dma_way].tag, tv.req.set>>
         /\ \A x \in Words : Evicted(x) \in Places /\ Holds(Evicted(x), dma_way)
<1>1. /\ ReadsTags(tv.req) /\ Cleared /\ tv.req.set \in Sets /\ tv.tags \in [Ways -> TagInfo]
  BY AtWork DEF EvictStates
<1>2. dma_way \in Ways /\ dma_way = (IF goto_flush_op THEN miss.flush_way ELSE miss.chosen_way)
  BY DEF dma_way, WayInv
<1>3. ASSUME NEW x \in Words PROVE Evicted(x) \in Places /\ Holds(Evicted(x), dma_way)
  <2>1. tv.tags[dma_way].tag \in Tags
    BY <1>1, <1>2 DEF TagInfo
  <2>2. Evicted(x) \in Places
    BY <1>1, <2>1 DEF Evicted, Places
  <2>3. CASE goto_flush_op
    <3>1. FlushedOut(tv.req.set, dma_way)
      BY <1>2, <2>3 DEF FlushedOut
    <3>2. QED
      BY <1>1, <2>2, <3>1 DEF Holds, Evicted
  <2>4. CASE ~goto_flush_op
    <3>1. tag_mem[tv.req.set] = tv.tags /\ tv.tags[dma_way].valid
      BY <1>1, <1>2, <2>4 DEF CacheInv, TagsInv, Unwritten, DataInv, EvictData
    <3>2. ~FlushedOut(tv.req.set, dma_way) /\ ~Refilled(tv.req.set, dma_way)
      BY <2>4 DEF FlushedOut, Refilled, EvictStates
    <3>3. QED
      BY <1>1, <2>2, <3>1, <3>2 DEF Holds, Evicted
  <2>5. QED
    BY <2>3, <2>4
<1>4. QED
  BY <1>2, <1>3 DEF evict_block

-----------------------------------------------------------------------------
(* What memory will have of the block on its way out, word by word; and    *)
(* what it has of other blocks it keeps.                                   *)
LEMMA WordsGoOut ==
  ASSUME CacheInv, WayInv, DataInv,
         NEW in, NEW ack, NEW takes, NEW gives, NEW gets, Acts(in, ack, takes, gives, gets),
         ActsOnData(in, ack), Handled(ack)
  PROVE  /\ \A p \in Places : InMemory(p) = stored[p] => InMemory(p)' = stored[p]
         /\ \A p \in Places : ~evict_word => InMemory(p)' = InMemory(p)
         /\ evict_word => \A x \in Words, p \in Places :
              p = Evicted(x) /\ (x <= Sent \/ x \notin memory.writing.mask)
                => InMemory(p)' = stored[p]
<1>1. \A p \in Places : InMemory(p)' =
        IF /\ evict_word /\ memory.writing.block = <<p[1], p[2]>>
           /\ p[3] = Sent /\ p[3] \in memory.writing.mask
        THEN data_mem_data_lo[dma_way] ELSE InMemory(p)
  BY MemoryMoves DEF DataInv
<1>2. CASE ~evict_word
  BY <1>1, <1>2
<1>3. CASE evict_word
  <2>1. dma.state = "SEND_EVICT_DATA" /\ miss.state = "SEND_EVICT_DATA"
    BY <1>3 DEF evict_word, CacheInv, MissInv
  <2>2. /\ dma_way \in Ways
        /\ \A x \in Words : Evicted(x) \in Places /\ Holds(Evicted(x), dma_way)
    BY <2>1, EvictedHeld DEF EvictStates
  <2>3. /\ memory.writing.block = <<tv.tags[dma_way].tag, tv.req.set>>
        /\ memory.writing.mask = IF word_tracking_p THEN dma.track[dma_way] ELSE Words
        /\ \A x \in memory.writing.mask : x < Sent => InMemory(Evicted(x)) = stored[Evicted(x)]
        /\ Sent \in memory.writing.mask =>
             data_mem_data_lo[dma_way] = data_mem[tv.req.set][Sent][dma_way]
    BY <2>1 DEF DataInv, EvictData, evict_block
  <2>4. word_tracking_p => dma.track = track_mem[tv.req.set]
    BY <2>1 DEF DataInv, CopyInv
  <2>5. \A x \in Words : There(Evicted(x), dma_way) <=> x \in memory.writing.mask
    BY <2>3, <2>4 DEF There, Evicted
  <2>6. sbuf = <<>> /\ tbuf = <<>> /\ WordInv
    BY HandledEdge DEF DataInv
  <2>7. Sent \in Words
    BY CounterMoves DEF Acts, Words
  <2>8. Sent \in memory.writing.mask => data_mem_data_lo[dma_way] = stored[Evicted(Sent)]
    <3> SUFFICES ASSUME Sent \in memory.writing.mask
                 PROVE  data_mem_data_lo[dma_way] = stored[Evicted(Sent)]
      OBVIOUS
    <3>1. Evicted(Sent) \in Places /\ Holds(Evicted(Sent), dma_way) /\ There(Evicted(Sent), dma_way)
      BY <2>2, <2>5, <2>7
    <3>2. RamHas(Evicted(Sent), dma_way)
      BY <2>2, <2>6, <3>1, EmptyWords
    <3>3. data_mem[Evicted(Sent)[2]][Evicted(Sent)[3]][dma_way] = stored[Evicted(Sent)]
      BY <3>1, <3>2 DEF RamHas
    <3>4. QED
      BY <2>3, <3>3 DEF Evicted
  <2>9. \A p \in Places : memory.writing.block = <<p[1], p[2]>> /\ p[3] = Sent => p = Evicted(Sent)
    <3> SUFFICES ASSUME NEW p \in Places, memory.writing.block = <<p[1], p[2]>>, p[3] = Sent
                 PROVE  p = Evicted(Sent)
      OBVIOUS
    <3>1. p = <<p[1], p[2], p[3]>>
      BY PlaceIs
    <3>2. p[1] = tv.tags[dma_way].tag /\ p[2] = tv.req.set
      BY <2>3
    <3>3. QED
      BY <3>1, <3>2 DEF Evicted
  <2>10. \A p \in Places : InMemory(p)' = InMemory(p) \/ InMemory(p)' = stored[p]
    BY <1>1, <2>8, <2>9
  <2>11. ASSUME NEW x \in Words, NEW p \in Places, p = Evicted(x),
                x <= Sent \/ x \notin memory.writing.mask
         PROVE  InMemory(p)' = stored[p]
    <3>1. CASE x \notin memory.writing.mask
      <4>1. Holds(p, dma_way) /\ ~There(p, dma_way)
        BY <2>2, <2>5, <2>11, <3>1
      <4>2. MemHas(p, dma_way)
        BY <2>2, <2>6, EmptyWords
      <4>3. InMemory(p) = stored[p]
        BY <4>1, <4>2 DEF MemHas
      <4>4. QED
        BY <2>10, <4>3
    <3>2. CASE x \in memory.writing.mask /\ x < Sent
      <4>1. InMemory(p) = stored[p]
        BY <2>3, <2>11, <3>2
      <4>2. QED
        BY <2>10, <4>1
    <3>3. CASE x \in memory.writing.mask /\ x = Sent
      <4>1. memory.writing.block = <<p[1], p[2]>> /\ p[3] = Sent
        BY <2>3, <2>11, <3>3 DEF Evicted
      <4>2. InMemory(p)' = data_mem_data_lo[dma_way]
        BY <1>1, <1>3, <3>3, <4>1
      <4>3. QED
        BY <2>8, <2>11, <3>3, <4>2
    <3>4. x < Sent \/ x = Sent \/ x \notin memory.writing.mask
      BY <2>7, <2>11, CacheAssumption DEF Words
    <3>5. QED
      BY <3>1, <3>2, <3>3, <3>4
  <2>12. QED
    BY <1>3, <2>10, <2>11
<1>4. QED
  BY <1>2, <1>3

(* All of it, with the last word. *)
LEMMA BlockIsOut ==
  ASSUME CacheInv, WayInv, DataInv,
         NEW in, NEW ack, NEW takes, NEW gives, NEW gets, Acts(in, ack, takes, gives, gets),
         ActsOnData(in, ack), Handled(ack), evict_done,
         NEW p \in Places, p[1] = tv.tags[dma_way].tag, p[2] = tv.req.set
  PROVE  InMemory(p)' = stored[p]
<1>1. p[3] \in Words /\ p = Evicted(p[3])
  BY PlaceIs DEF Evicted
<1>2. evict_word /\ dma.state = "SEND_EVICT_DATA" /\ dma.counter = block_size_in_words_p
  BY DEF evict_done, evict_word
<1>3. Sent = block_size_in_words_p - 1
  BY <1>2 DEF Sent
<1>4. p[3] <= Sent
  BY <1>1, <1>3, CacheAssumption DEF Words
<1>5. QED
  BY <1>1, <1>2, <1>4, WordsGoOut

(* Where nothing comes or goes the bytes stay where they are.              *)
LEMMA SameHolders ==
  ASSUME CacheInv, WayInv, DataInv,
         NEW in, NEW ack, NEW takes, NEW gives, NEW gets, Acts(in, ack, takes, gives, gets),
         ActsOnData(in, ack), Handled(ack),
         \A p \in Places, w \in Ways :
           /\ Holds(p, w)' <=> Holds(p, w)
           /\ Holds(p, w) => /\ There(p, w)' <=> There(p, w)
                             /\ Clean(stat_mem, p, w)' => Clean(stat_mem, p, w)
                             /\ There(p, w) =>
                                  data_mem'[p[2]][p[3]][w] = data_mem[p[2]][p[3]][w],
         \A p \in Places : Void(p) => Void(p)'
  PROVE  WordInv'
<1>1. /\ sbuf = <<>> /\ tbuf = <<>> /\ sbuf' = <<>> /\ tbuf' = <<>> /\ stored' = stored
  BY HandledEdge
<1>2. ASSUME NEW p \in Places
      PROVE  (\A w \in Ways : RamHas(p, w)' /\ MemHas(p, w)') /\ NobodyHas(p)'
  <2>1. (\A w \in Ways : RamHas(p, w) /\ MemHas(p, w)) /\ NobodyHas(p)
    BY <1>1, EmptyWords DEF DataInv
  <2>2. InMemory(p) = stored[p] => InMemory(p)' = stored'[p]
    BY <1>1, WordsGoOut
  <2>3. \A w \in Ways : RamHas(p, w)'
    BY <1>1, <2>1 DEF RamHas
  <2>4. \A w \in Ways : MemHas(p, w)'
    BY <2>1, <2>2 DEF MemHas
  <2>5. NobodyHas(p)'
    BY <2>1, <2>2 DEF NobodyHas
  <2>6. QED
    BY <2>3, <2>4, <2>5
<1>3. QED
  BY <1>1, <1>2, EmptiedWords

-----------------------------------------------------------------------------
(* The block that is to be filled or allocated is in no way.               *)
LEMMA AskedNotHeld ==
  ASSUME CacheInv, WayInv, ~goto_flush_op, ~tv.track_miss,
         miss.state \in {"SEND_FILL_ADDR", "GET_FILL_DATA", "STORE_TAG_MISS",
                         "STORE_TAG_MISS_ALLOCATE"} \cup EvictStates
  PROVE  /\ tv.req.op \in {"LD", "ST", "AMO", "ALOCK"} /\ ~tag_hit_found
         /\ tv.req.tag \in Tags /\ tag_mem[tv.req.set] = tv.tags
         /\ \A w \in Ways : ~(tag_mem[tv.req.set][w].valid /\ tag_mem[tv.req.set][w].tag = tv.req.tag)
         /\ \A p \in Places, w \in Ways :
              p[1] = tv.req.tag /\ p[2] = tv.req.set => ~Holds(p, w)
<1>1. miss.state # "START" /\ Unwritten
  BY DEF Unwritten, MissStates, EvictStates
<1>2. /\ miss_v /\ ReadsTags(tv.req) /\ Cleared /\ tv.req.set \in Sets
      /\ tv.tags \in [Ways -> TagInfo] /\ tag_mem[tv.req.set] = tv.tags
  BY <1>1, AtWork DEF CacheInv, TagsInv
<1>3. ~goto_lock_op
  BY DEF CacheInv, MissInv, st_tag_miss_op, goto_lock_op
<1>4. tv.req.op \in {"LD", "ST", "AMO", "ALOCK"} /\ tv.hits = {}
  BY <1>2, <1>3 DEF CacheInv, TvInv, misses, miss_v, goto_flush_op, goto_lock_op, tag_hit_found
<1>5. tv.req.tag \in Tags
  BY <1>2, <1>4, TvRequest DEF CacheInv, Addressed
<1>6. PICK row : row = tv.tags
  OBVIOUS
<1>7. \A w \in Ways : ~(row[w].valid /\ row[w].tag = tv.req.tag)
  <2>1. tag_hits(tv.req, row) = {} /\ row \in [Ways -> TagInfo]
    BY <1>2, <1>4, <1>6 DEF CacheInv, TvInv
  <2>2. QED
    BY <1>2, <1>4, <2>1, HitsAre
<1>8. ASSUME NEW p \in Places, NEW w \in Ways, p[1] = tv.req.tag, p[2] = tv.req.set
      PROVE  ~Holds(p, w)
  <2>1. ~FlushedOut(p[2], w)
    BY DEF FlushedOut
  <2>2. QED
    BY <1>2, <1>6, <1>7, <1>8, <2>1 DEF Holds
<1>9. QED
  BY <1>2, <1>4, <1>5, <1>6, <1>7, <1>8 DEF tag_hit_found

(* A word of a fill is written where no word is held.                      *)
LEMMA FillsGaps ==
  ASSUME CacheInv, WayInv, DataInv,
         NEW in, NEW ack, NEW takes, NEW gives, NEW gets, Acts(in, ack, takes, gives, gets),
         ActsOnData(in, ack), Handled(ack), NEW p \in Places, NEW w \in Ways
  PROVE  /\ Holds(p, w) /\ There(p, w) => data_mem'[p[2]][p[3]][w] = data_mem[p[2]][p[3]][w]
         /\ ~fill_word => data_mem' = data_mem
         /\ fill_word =>
              /\ miss.state = "GET_FILL_DATA" /\ dma_way = miss.chosen_way
              /\ tv.track_miss => word_tracking_p /\ dma.track = track_mem[tv.req.set]
<1>1. (~fill_word => DataRead(in)) /\ (fill_word => DataFilled)
  BY HandledEdge
<1>2. ~fill_word => data_mem' = data_mem
  BY <1>1 DEF DataRead
<1>3. fill_word =>
        /\ miss.state = "GET_FILL_DATA" /\ dma_way = miss.chosen_way
        /\ tv.track_miss => word_tracking_p /\ dma.track = track_mem[tv.req.set]
  <2> SUFFICES ASSUME fill_word
               PROVE  /\ miss.state = "GET_FILL_DATA" /\ dma_way = miss.chosen_way
                      /\ tv.track_miss => word_tracking_p /\ dma.track = track_mem[tv.req.set]
    OBVIOUS
  <2>1. miss.state = "GET_FILL_DATA"
    BY DEF fill_word, CacheInv, MissInv
  <2>2. dma_way = miss.chosen_way
    BY <2>1 DEF dma_way, CacheInv, MissInv
  <2>3. tv.track_miss => word_tracking_p
    BY <2>1, AtWork DEF DataInv, TvData, Tracked
  <2>4. word_tracking_p => dma.track = track_mem[tv.req.set]
    BY <2>1 DEF DataInv, CopyInv
  <2>5. QED
    BY <2>1, <2>2, <2>3, <2>4
<1>4. ASSUME fill_word, Holds(p, w), There(p, w)
      PROVE  data_mem'[p[2]][p[3]][w] = data_mem[p[2]][p[3]][w]
  <2>1. ~(p[2] = tv.req.set /\ p[3] = dma.counter /\ w = dma_way /\ fill_mask)
    <3> SUFFICES ASSUME p[2] = tv.req.set, p[3] = dma.counter, w = dma_way, fill_mask
                 PROVE  FALSE
      OBVIOUS
    <3>1. w = miss.chosen_way /\ miss.state = "GET_FILL_DATA"
      BY <1>3, <1>4
    <3>2. ~FlushedOut(p[2], w)
      BY <3>1 DEF FlushedOut, EvictStates
    <3>3. CASE tv.track_miss
      BY <1>3, <1>4, <3>1, <3>3 DEF fill_mask, There
    <3>4. CASE ~tv.track_miss
      BY <1>4, <3>1, <3>2, <3>4 DEF Holds, Refilled
    <3>5. QED
      BY <3>3, <3>4
  <2>2. QED
    BY <1>1, <1>4, <2>1 DEF DataFilled
<1>5. QED
  BY <1>2, <1>3, <1>4

(* Nothing is written to the tags, and no block comes or goes.             *)
LEMMA WordsWait ==
  ASSUME CacheInv, WayInv, DataInv,
         NEW in, NEW ack, NEW takes, NEW gives, NEW gets, Acts(in, ack, takes, gives, gets),
         ActsOnData(in, ack), Handled(ack), ~miss_tag_mem_v, ~evict_done,
         miss'.state = "GET_FILL_DATA" => miss.state = "GET_FILL_DATA" \/ tv.track_miss
  PROVE  WordInv'
<1>1. /\ MissInv /\ MissHandler(takes, ack) /\ miss.state \in MissStates
      /\ miss.state \notin {"FLUSH_OP", "LOCK_OP", "START", "STORE_TAG_MISS_ALLOCATE"}
      /\ ~st_allocate /\ ~fill_allocate
  BY DEF Acts, CacheInv, MissInv, miss_tag_mem_v, Handled, st_allocate
<1>2. tv' = tv /\ setting' = setting /\ Cleared /\ Cleared' /\ ~ack
  BY HandledEdge
<1>3. tag_mem' = tag_mem /\ \A s \in Sets : stat_mem'[s].dirty = stat_mem[s].dirty
  BY <1>1, HandledTags DEF miss_tag_mem_v
<1>4. track_mem' = track_mem
  BY <1>1, HandledEdge DEF TrackRead, Allocates
<1>5. ~fill_done
  BY <1>1 DEF fill_done, fill_word, fill_allocate, MissInv
<1>6. miss'.flush_way = miss.flush_way
  BY <1>1, NamesMove
<1>7. /\ miss.state = "GET_FILL_DATA" =>
           miss'.state = "GET_FILL_DATA" /\ miss'.chosen_way = miss.chosen_way
      /\ goto_flush_op => (miss'.state \in EvictStates <=> miss.state \in EvictStates)
      /\ miss.state \in {"RECOVER", "DONE"} => miss'.state = "DONE"
  <2>1. miss.state = "GET_FILL_DATA" =>
          miss'.state = "GET_FILL_DATA" /\ miss'.chosen_way = miss.chosen_way
    BY <1>1, <1>5, HandlerMoves
  <2>2. /\ miss.state = "RECOVER" => miss'.state = "DONE"
        /\ miss.state = "DONE" => miss'.state = "DONE"
    BY <1>1, <1>2, HandlerMoves
  <2>3. miss.state \in EvictStates => miss'.state \in EvictStates
    BY <1>1, HandlerMoves DEF EvictStates
  <2>4. goto_flush_op => miss.state \in EvictStates \cup {"RECOVER", "DONE"}
    BY <1>1 DEF MissInv, MissStates, st_tag_miss_op, goto_flush_op
  <2>5. QED
    BY <2>1, <2>2, <2>3, <2>4 DEF EvictStates
<1>8. goto_flush_op' <=> goto_flush_op
  BY <1>2 DEF goto_flush_op
<1>9. \A s, w : FlushedOut(s, w)' <=> FlushedOut(s, w)
  BY <1>2, <1>6, <1>7, <1>8 DEF FlushedOut
<1>10. \A s, w : Refilled(s, w)' <=> Refilled(s, w)
  BY <1>2, <1>7 DEF Refilled
<1>11. ASSUME NEW p \in Places, NEW w \in Ways
       PROVE  /\ Holds(p, w)' <=> Holds(p, w)
              /\ There(p, w)' <=> There(p, w)
              /\ Clean(stat_mem, p, w)' => Clean(stat_mem, p, w)
              /\ Holds(p, w) /\ There(p, w) =>
                   data_mem'[p[2]][p[3]][w] = data_mem[p[2]][p[3]][w]
  <2>1. Holds(p, w)' <=> Holds(p, w)
    BY <1>2, <1>3, <1>9, <1>10 DEF Holds
  <2>2. There(p, w)' <=> There(p, w)
    BY <1>2, <1>4 DEF There, word_tracking_p
  <2>3. Clean(stat_mem, p, w)' => Clean(stat_mem, p, w)
    BY <1>3, <1>9, PlaceIs DEF Clean
  <2>4. QED
    BY <2>1, <2>2, <2>3, FillsGaps
<1>12. \A p \in Places : Void(p) => Void(p)'
  BY <1>2, <1>7 DEF Void
<1>13. QED
  BY <1>11, <1>12, SameHolders

-----------------------------------------------------------------------------
(* A lock is set or taken away. *)
LEMMA LockWords ==
  ASSUME CacheInv, WayInv, DataInv,
         NEW in, NEW ack, NEW takes, NEW gives, NEW gets, Acts(in, ack, takes, gives, gets),
         ActsOnData(in, ack), Handled(ack), miss.state = "LOCK_OP"
  PROVE  WordInv'
<1>1. tv' = tv /\ setting' = setting /\ Cleared /\ Cleared' /\ tv.req.set \in Sets
  BY HandledEdge
<1>2. ~st_allocate /\ ~fill_allocate /\ miss_tag_mem_v /\ ~fill_word
  BY DEF st_allocate, fill_allocate, miss_tag_mem_v, fill_word, CacheInv, MissInv
<1>3. miss'.state = "RECOVER"
  BY HandlerMoves DEF Acts, CacheInv, MissInv
<1>4. track_mem' = track_mem
  BY <1>2, HandledEdge DEF TrackRead, Allocates
<1>5. ASSUME NEW s \in Sets, NEW w \in Ways
      PROVE  tag_mem'[s][w].valid = tag_mem[s][w].valid /\ tag_mem'[s][w].tag = tag_mem[s][w].tag
  <2>1. tag_mem'[s][w] = IF s = tv.req.set THEN HandlersTag(w) ELSE tag_mem[s][w]
    BY <1>2, HandledTags
  <2>2. tag_mem[s][w] \in TagInfo
    BY DEF CacheInv, TypeInv
  <2>3. HandlersTag(w) = IF w \in tv.hits
                         THEN [tag_mem[tv.req.set][w] EXCEPT !.lock = (tv.req.op = "ALOCK")]
                         ELSE tag_mem[tv.req.set][w]
    BY DEF HandlersTag
  <2>4. QED
    BY <2>1, <2>2, <2>3 DEF TagInfo
<1>6. \A s \in Sets : stat_mem'[s].dirty = stat_mem[s].dirty
  BY <1>2, HandledTags
<1>7. /\ \A s, w : ~FlushedOut(s, w) /\ ~Refilled(s, w)
      /\ \A s, w : ~FlushedOut(s, w)' /\ ~Refilled(s, w)'
  BY <1>3 DEF FlushedOut, Refilled, EvictStates
<1>8. ASSUME NEW p \in Places, NEW w \in Ways
      PROVE  /\ Holds(p, w)' <=> Holds(p, w)
             /\ There(p, w)' <=> There(p, w)
             /\ Clean(stat_mem, p, w)' => Clean(stat_mem, p, w)
             /\ Holds(p, w) /\ There(p, w) =>
                  data_mem'[p[2]][p[3]][w] = data_mem[p[2]][p[3]][w]
  <2>1. p[2] \in Sets
    BY PlaceIs
  <2>2. Holds(p, w)' <=> Holds(p, w)
    BY <1>1, <1>5, <1>7, <2>1 DEF Holds
  <2>3. There(p, w)' <=> There(p, w)
    BY <1>1, <1>4 DEF There, word_tracking_p
  <2>4. Clean(stat_mem, p, w)' => Clean(stat_mem, p, w)
    BY <1>6, <1>7, <2>1 DEF Clean
  <2>5. QED
    BY <2>2, <2>3, <2>4, FillsGaps
<1>9. \A p \in Places : Void(p) => Void(p)'
  BY DEF Void
<1>10. QED
  BY <1>8, <1>9, SameHolders

(* What a flush names, and what it does to the tags.                       *)
LEMMA FlushNames ==
  ASSUME CacheInv, WayInv, DataInv,
         NEW in, NEW ack, NEW takes, NEW gives, NEW gets, Acts(in, ack, takes, gives, gets),
         ActsOnData(in, ack), Handled(ack), miss.state = "FLUSH_OP"
  PROVE  LET v == flush_way_n
         IN  /\ v \in Ways /\ miss'.flush_way = v /\ Flushed = {v}
             /\ tv.req.op \in {"TAGFL", "AINV", "AFL", "AFLINV"}
             /\ tv.req.op # "TAGFL" => tv.tags[v].tag = tv.req.tag
             /\ tag_mem[tv.req.set] = tv.tags /\ tv.tags[v].valid
             /\ miss'.state = IF tv.req.op # "AINV" /\ v \in stat_mem[tv.req.set].dirty
                              THEN "SEND_EVICT_ADDR" ELSE "RECOVER"
             /\ \A s \in Sets, w \in Ways :
                  /\ tag_mem'[s][w].tag = tag_mem[s][w].tag
                  /\ tag_mem'[s][w].valid <=>
                       /\ tag_mem[s][w].valid
                       /\ ~(s = tv.req.set /\ w = v /\ tv.req.op \in {"AINV", "AFLINV"})
<1> DEFINE v == flush_way_n
<1>1. /\ miss_v /\ ReadsTags(tv.req) /\ tv.req.set \in Sets /\ tv.tags \in [Ways -> TagInfo]
      /\ tv.req.op = "TAGFL" \/ tag_hit_found
  BY AtWork DEF Handled
<1>2. tv.req.op \in {"TAGFL", "AINV", "AFL", "AFLINV"}
  BY DEF CacheInv, MissInv, goto_flush_op
<1>3. v = IF tv.req.op = "TAGFL" THEN tv.req.way ELSE tag_hit_way_id
  BY DEF flush_way_n
<1>4. miss'.flush_way = v
  BY <1>3, NamesMove DEF Acts
<1>5. tv.req.op # "TAGFL" =>
        /\ tv.hits = {v} /\ v \in Ways /\ tv.tags[v].valid /\ tv.tags[v].tag = tv.req.tag
  BY <1>1, <1>3, HitWay DEF CacheInv
<1>6. tv.req.op = "TAGFL" => v \in Ways /\ tv.tags[v].valid
  BY <1>1, <1>3, TvRequest DEF CacheInv, TvInv, misses, miss_v
<1>7. Flushed = {v} /\ v \in Ways /\ tv.tags[v].valid
  BY <1>3, <1>5, <1>6 DEF Flushed
<1>8. tag_mem[tv.req.set] = tv.tags /\ stat_mem_data_lo = stat_mem[tv.req.set]
  BY <1>1 DEF CacheInv, TagsInv, Unwritten, MissStates, EvictStates, WayInv
<1>9. miss'.state = IF tv.req.op # "AINV" /\ v \in stat_mem[tv.req.set].dirty
                    THEN "SEND_EVICT_ADDR" ELSE "RECOVER"
  <2>1. miss'.state = miss_state_n(takes, ack)
    BY DEF Acts, MissHandler
  <2>2. dirty_and_valid(v) <=> v \in stat_mem[tv.req.set].dirty
    BY <1>7, <1>8 DEF dirty_and_valid
  <2> HIDE DEF v
  <2>3. miss_state_n(takes, ack) = IF tv.req.op # "AINV" /\ dirty_and_valid(v)
                                   THEN "SEND_EVICT_ADDR" ELSE "RECOVER"
    BY DEF miss_state_n, v
  <2>4. QED
    BY <2>1, <2>2, <2>3
<1>10. ASSUME NEW s \in Sets, NEW w \in Ways
       PROVE  /\ tag_mem'[s][w].tag = tag_mem[s][w].tag
              /\ tag_mem'[s][w].valid <=>
                   /\ tag_mem[s][w].valid
                   /\ ~(s = tv.req.set /\ w = v /\ tv.req.op \in {"AINV", "AFLINV"})
  <2>1. tag_mem'[s][w] = IF s = tv.req.set THEN HandlersTag(w) ELSE tag_mem[s][w]
    BY HandledTags DEF miss_tag_mem_v
  <2>2. tag_mem[s][w] \in TagInfo
    BY DEF CacheInv, TypeInv
  <2>3. HandlersTag(w) = IF w \in tv.hits /\ tv.req.op \in {"AINV", "AFLINV"}
                         THEN [tag_mem[tv.req.set][w] EXCEPT !.valid = FALSE, !.lock = FALSE]
                         ELSE tag_mem[tv.req.set][w]
    BY DEF HandlersTag
  <2>4. tv.req.op \in {"AINV", "AFLINV"} => (w \in tv.hits <=> w = v)
    BY <1>5
  <2> HIDE DEF v
  <2>5. QED
    BY <2>1, <2>2, <2>3, <2>4 DEF TagInfo
<1>11. QED
  BY <1>2, <1>4, <1>5, <1>7, <1>8, <1>9, <1>10

-----------------------------------------------------------------------------
(* A flush writes a dirty block back first; a clean one, and one that is    *)
(* thrown away, it lets go of.                                              *)
LEMMA FlushWords ==
  ASSUME CacheInv, WayInv, DataInv,
         NEW in, NEW ack, NEW takes, NEW gives, NEW gets, Acts(in, ack, takes, gives, gets),
         ActsOnData(in, ack), Handled(ack), miss.state = "FLUSH_OP"
  PROVE  WordInv'
<1>1. /\ tv' = tv /\ setting' = setting /\ Cleared /\ Cleared' /\ tv.req.set \in Sets
      /\ sbuf = <<>> /\ tbuf = <<>> /\ sbuf' = <<>> /\ tbuf' = <<>> /\ stored' = stored
  BY HandledEdge
<1>2. PICK v : v = flush_way_n
  OBVIOUS
<1>3. /\ v \in Ways /\ miss'.flush_way = v /\ Flushed = {v}
      /\ tv.req.op \in {"TAGFL", "AINV", "AFL", "AFLINV"}
      /\ tv.req.op # "TAGFL" => tv.tags[v].tag = tv.req.tag
      /\ tag_mem[tv.req.set] = tv.tags /\ tv.tags[v].valid
      /\ miss'.state = IF tv.req.op # "AINV" /\ v \in stat_mem[tv.req.set].dirty
                       THEN "SEND_EVICT_ADDR" ELSE "RECOVER"
      /\ \A s \in Sets, w \in Ways :
           /\ tag_mem'[s][w].tag = tag_mem[s][w].tag
           /\ tag_mem'[s][w].valid <=>
                /\ tag_mem[s][w].valid
                /\ ~(s = tv.req.set /\ w = v /\ tv.req.op \in {"AINV", "AFLINV"})
  BY <1>2, FlushNames
<1>4. ~st_allocate /\ ~fill_allocate /\ ~fill_word /\ ~evict_word
  BY DEF st_allocate, fill_allocate, fill_word, evict_word, CacheInv, MissInv
<1>5. track_mem' = track_mem /\ data_mem' = data_mem
  BY <1>4, HandledEdge DEF TrackRead, DataRead, Allocates
<1>6. \A s \in Sets : stat_mem'[s].dirty =
        IF s = tv.req.set THEN stat_mem[s].dirty \ {v} ELSE stat_mem[s].dirty
  BY <1>3, HandledTags
<1>7. goto_flush_op /\ goto_flush_op'
  BY <1>1, <1>3 DEF goto_flush_op
<1>8. \A s, w : /\ ~FlushedOut(s, w) /\ ~Refilled(s, w) /\ ~Refilled(s, w)'
                /\ FlushedOut(s, w)' <=> /\ miss'.state = "SEND_EVICT_ADDR"
                                         /\ s = tv.req.set /\ w = v
  BY <1>1, <1>3, <1>7 DEF FlushedOut, Refilled, EvictStates
<1>9. \A p, w : There(p, w)' <=> There(p, w)
  BY <1>1, <1>5 DEF There, word_tracking_p
<1>10. CASE miss'.state = "SEND_EVICT_ADDR"
  <2>1. ASSUME NEW p \in Places, NEW w \in Ways
        PROVE  /\ Holds(p, w)' <=> Holds(p, w)
               /\ Clean(stat_mem, p, w)' => Clean(stat_mem, p, w)
    <3>1. p[2] \in Sets
      BY PlaceIs
    <3>2. Holds(p, w) <=> tag_mem[p[2]][w].valid /\ tag_mem[p[2]][w].tag = p[1]
      BY <1>1, <1>8 DEF Holds
    <3>3. CASE p[2] = tv.req.set /\ w = v
      BY <1>1, <1>3, <1>8, <1>10, <3>2, <3>3 DEF Holds, Clean
    <3>4. CASE ~(p[2] = tv.req.set /\ w = v)
      <4>1. Holds(p, w)' <=> tag_mem'[p[2]][w].valid /\ tag_mem'[p[2]][w].tag = p[1]
        BY <1>1, <1>8, <3>4 DEF Holds
      <4>2. Clean(stat_mem, p, w)' => Clean(stat_mem, p, w)
        BY <1>6, <1>8, <3>1, <3>4 DEF Clean
      <4>3. QED
        BY <1>3, <3>1, <3>2, <3>4, <4>1, <4>2
    <3>5. QED
      BY <3>3, <3>4
  <2>2. \A p \in Places : Void(p) => Void(p)'
    BY DEF Void
  <2>3. QED
    BY <1>5, <1>9, <2>1, <2>2, SameHolders
<1>11. CASE miss'.state = "RECOVER"
  <2>1. ASSUME NEW p \in Places
        PROVE  (\A w \in Ways : RamHas(p, w)' /\ MemHas(p, w)') /\ NobodyHas(p)'
    <3>1. (\A w \in Ways : RamHas(p, w) /\ MemHas(p, w)) /\ NobodyHas(p)
      BY <1>1, EmptyWords DEF DataInv
    <3>2. InMemory(p)' = InMemory(p)
      BY <1>4, WordsGoOut
    <3>3. p[2] \in Sets
      BY PlaceIs
    <3>4. \A w \in Ways :
            /\ Holds(p, w) <=> tag_mem[p[2]][w].valid /\ tag_mem[p[2]][w].tag = p[1]
            /\ Holds(p, w)' <=> tag_mem'[p[2]][w].valid /\ tag_mem'[p[2]][w].tag = p[1]
      BY <1>1, <1>8, <1>11 DEF Holds
    <3>5. \A w \in Ways :
            Holds(p, w)' <=> /\ Holds(p, w)
                             /\ ~(p[2] = tv.req.set /\ w = v /\ tv.req.op \in {"AINV", "AFLINV"})
      BY <1>3, <3>3, <3>4
    <3>6. ASSUME NEW w \in Ways, Clean(stat_mem, p, w)', Holds(p, w)'
          PROVE  Clean(stat_mem, p, w)
      <4>1. w \notin stat_mem'[p[2]].dirty
        BY <3>6 DEF Clean
      <4>2. ~(p[2] = tv.req.set /\ w = v /\ w \in stat_mem[p[2]].dirty)
        BY <1>3, <1>11, <3>5, <3>6
      <4>3. w \notin stat_mem[p[2]].dirty
        BY <1>6, <3>3, <4>1, <4>2
      <4>4. QED
        BY <1>8, <4>3 DEF Clean
    <3>7. \A w \in Ways : RamHas(p, w)'
      BY <1>1, <1>5, <1>9, <3>1, <3>5 DEF RamHas
    <3>8. \A w \in Ways : MemHas(p, w)'
      BY <1>1, <1>9, <3>1, <3>2, <3>5, <3>6 DEF MemHas
    <3>9. NobodyHas(p)'
      <4> SUFFICES ASSUME \A w \in Ways : ~Holds(p, w)', ~Void(p)'
                   PROVE  InMemory(p)' = stored'[p]
        BY DEF NobodyHas
      <4>1. CASE \A w \in Ways : ~Holds(p, w)
        BY <1>1, <3>1, <3>2, <4>1 DEF NobodyHas, Void
      <4>2. CASE \E w \in Ways : Holds(p, w)
        <5>1. /\ Holds(p, v) /\ p[2] = tv.req.set /\ tv.req.op \in {"AINV", "AFLINV"}
          BY <3>5, <4>2
        <5>2. p[1] = tv.req.tag
          BY <1>3, <3>4, <5>1
        <5>3. tv.req.op # "AINV"
          BY <1>1, <1>11, <5>1, <5>2 DEF Void
        <5>4. v \notin stat_mem[tv.req.set].dirty
          BY <1>3, <1>11, <5>3
        <5>5. Clean(stat_mem, p, v)
          BY <1>8, <5>1, <5>4 DEF Clean
        <5>6. QED
          BY <1>1, <1>3, <3>1, <3>2, <5>1, <5>5 DEF MemHas
      <4>3. QED
        BY <4>1, <4>2
    <3>10. QED
      BY <3>7, <3>8, <3>9
  <2>2. QED
    BY <1>1, <2>1, EmptiedWords
<1>12. QED
  BY <1>3, <1>10, <1>11

(* A clean block is given up for the one that is to be filled.             *)
LEMMA GivenUpWords ==
  ASSUME CacheInv, WayInv, DataInv,
         NEW in, NEW ack, NEW takes, NEW gives, NEW gets, Acts(in, ack, takes, gives, gets),
         ActsOnData(in, ack), Handled(ack), miss.state = "SEND_FILL_ADDR",
         miss'.state = "GET_FILL_DATA", ~tv.track_miss
  PROVE  WordInv'
<1>1. /\ tv' = tv /\ setting' = setting /\ Cleared /\ Cleared' /\ tv.req.set \in Sets
      /\ sbuf = <<>> /\ tbuf = <<>> /\ sbuf' = <<>> /\ tbuf' = <<>> /\ stored' = stored
      /\ ReadsTags(tv.req)
  BY HandledEdge
<1>2. ~st_allocate /\ ~fill_allocate /\ ~fill_word /\ ~evict_word /\ ~miss_tag_mem_v
  BY DEF st_allocate, fill_allocate, fill_word, evict_word, CacheInv, MissInv, miss_tag_mem_v
<1>3. /\ track_mem' = track_mem /\ data_mem' = data_mem /\ tag_mem' = tag_mem
      /\ \A s \in Sets : stat_mem'[s].dirty = stat_mem[s].dirty
  BY <1>2, HandledEdge, HandledTags DEF TrackRead, DataRead, Allocates
<1>4. PICK v : v = victim
  OBVIOUS
<1>5. miss'.chosen_way = v /\ chosen_way_n = v
  BY <1>4, NamesMove DEF Acts, chosen_way_n
<1>6. ~dirty_and_valid(v)
  <2>1. miss'.state = miss_state_n(takes, ack)
    BY DEF Acts, MissHandler
  <2>2. QED
    BY <1>5, <2>1 DEF miss_state_n
<1>7. ~(v \in stat_mem[tv.req.set].dirty /\ tag_mem[tv.req.set][v].valid)
  BY <1>1, <1>6 DEF dirty_and_valid, CacheInv, TagsInv, Unwritten, MissStates, EvictStates, WayInv
<1>8. \A s, w : /\ ~FlushedOut(s, w) /\ ~FlushedOut(s, w)' /\ ~Refilled(s, w)
                /\ Refilled(s, w)' <=> s = tv.req.set /\ w = v
  BY <1>1, <1>5 DEF FlushedOut, Refilled, EvictStates
<1>9. \A p, w : There(p, w)' <=> There(p, w)
  BY <1>1, <1>3 DEF There, word_tracking_p
<1>10. ASSUME NEW p \in Places
       PROVE  (\A w \in Ways : RamHas(p, w)' /\ MemHas(p, w)') /\ NobodyHas(p)'
  <2>1. (\A w \in Ways : RamHas(p, w) /\ MemHas(p, w)) /\ NobodyHas(p)
    BY <1>1, EmptyWords DEF DataInv
  <2>2. InMemory(p)' = InMemory(p)
    BY <1>2, WordsGoOut
  <2>3. p[2] \in Sets
    BY PlaceIs
  <2>4. \A w \in Ways : Holds(p, w)' <=> Holds(p, w) /\ ~(p[2] = tv.req.set /\ w = v)
    BY <1>1, <1>3, <1>8 DEF Holds
  <2>5. \A w \in Ways : Clean(stat_mem, p, w)' <=> Clean(stat_mem, p, w)
    BY <1>3, <1>8, <2>3 DEF Clean
  <2>6. \A w \in Ways : RamHas(p, w)'
    BY <1>1, <1>3, <1>9, <2>1, <2>4 DEF RamHas
  <2>7. \A w \in Ways : MemHas(p, w)'
    BY <1>1, <1>9, <2>1, <2>2, <2>4, <2>5 DEF MemHas
  <2>8. NobodyHas(p)'
    <3> SUFFICES ASSUME \A w \in Ways : ~Holds(p, w)', ~Void(p)'
                 PROVE  InMemory(p)' = stored'[p]
      BY DEF NobodyHas
    <3>1. CASE \A w \in Ways : ~Holds(p, w)
      BY <1>1, <2>1, <2>2, <3>1 DEF NobodyHas, Void
    <3>2. CASE \E w \in Ways : Holds(p, w)
      <4>1. v \in Ways /\ Holds(p, v) /\ p[2] = tv.req.set
        BY <2>4, <3>2
      <4>2. Clean(stat_mem, p, v)
        BY <1>7, <1>8, <4>1 DEF Clean, Holds
      <4>3. QED
        BY <1>1, <2>1, <2>2, <4>1, <4>2 DEF MemHas
    <3>3. QED
      BY <3>1, <3>2
  <2>9. QED
    BY <2>6, <2>7, <2>8
<1>11. QED
  BY <1>1, <1>10, EmptiedWords

-----------------------------------------------------------------------------
(* A way is given to the block of a store that writes a whole word: no word *)
(* of the block is there yet, and memory has what the way held before.      *)
LEMMA AllocatedWords ==
  ASSUME CacheInv, WayInv, DataInv,
         NEW in, NEW ack, NEW takes, NEW gives, NEW gets, Acts(in, ack, takes, gives, gets),
         ActsOnData(in, ack), Handled(ack), st_allocate
  PROVE  WordInv'
<1>0. PICK v : v = miss.chosen_way
  OBVIOUS
<1>1. /\ tv' = tv /\ setting' = setting /\ Cleared /\ Cleared' /\ tv.req.set \in Sets
      /\ sbuf = <<>> /\ tbuf = <<>> /\ sbuf' = <<>> /\ tbuf' = <<>> /\ stored' = stored
      /\ ReadsTags(tv.req)
  BY HandledEdge
<1>2. /\ miss.state = "STORE_TAG_MISS_ALLOCATE" \/ (miss.state = "SEND_EVICT_DATA" /\ evict_done)
      /\ st_tag_miss_op
  BY DEF st_allocate, CacheInv, MissInv
<1>3. /\ word_tracking_p /\ tv.req.op = "ST" /\ ~tag_hit_found /\ ~goto_flush_op /\ ~tv.track_miss
      /\ dma_way = v
  BY <1>0, <1>1, <1>2 DEF st_tag_miss_op, goto_flush_op, CacheInv, TvInv, tag_hit_found, dma_way
<1>4. miss'.state = "RECOVER"
  BY <1>2, HandlerMoves DEF Acts, CacheInv, MissInv
<1>5. ~fill_allocate /\ ~fill_word /\ miss_tag_mem_v /\ Allocates /\ miss.state # "FLUSH_OP"
      /\ miss.state # "LOCK_OP"
  BY <1>2, <1>3 DEF fill_allocate, fill_word, CacheInv, MissInv, miss_tag_mem_v, Allocates
<1>6. data_mem' = data_mem /\ TrackSet
  BY <1>5, HandledEdge DEF DataRead
<1>7. \A s \in Sets : stat_mem'[s].dirty =
        IF s = tv.req.set THEN stat_mem[s].dirty \cup {v} ELSE stat_mem[s].dirty
  BY <1>0, <1>5, HandledTags
<1>8. /\ tag_mem[tv.req.set] = tv.tags
      /\ \A p \in Places, w \in Ways : p[1] = tv.req.tag /\ p[2] = tv.req.set => ~Holds(p, w)
  BY <1>2, <1>3, AskedNotHeld DEF EvictStates
<1>9. \A s, w : ~FlushedOut(s, w) /\ ~FlushedOut(s, w)' /\ ~Refilled(s, w) /\ ~Refilled(s, w)'
  BY <1>2, <1>3, <1>4 DEF FlushedOut, Refilled, EvictStates
<1>10. \A s \in Sets, w \in Ways :
         IF s = tv.req.set /\ w = v
         THEN tag_mem'[s][w].valid /\ tag_mem'[s][w].tag = tv.req.tag
         ELSE tag_mem'[s][w] = tag_mem[s][w]
  <2>1. \A w \in Ways : HandlersTag(w) =
          IF w = v THEN [valid |-> TRUE, lock |-> tv.req.op = "ALOCK", tag |-> tv.req.tag]
          ELSE tag_mem[tv.req.set][w]
    BY <1>0, <1>5 DEF HandlersTag
  <2>2. QED
    BY <1>5, <2>1, HandledTags
<1>11. ASSUME NEW p \in Places
       PROVE  (\A w \in Ways : RamHas(p, w)' /\ MemHas(p, w)') /\ NobodyHas(p)'
  <2>1. (\A w \in Ways : RamHas(p, w) /\ MemHas(p, w)) /\ NobodyHas(p)
    BY <1>1, EmptyWords DEF DataInv
  <2>2. InMemory(p) = stored[p] => InMemory(p)' = stored'[p]
    BY <1>1, WordsGoOut
  <2>3. p[2] \in Sets
    BY PlaceIs
  <2>4. ~Void(p)
    BY <1>2 DEF Void
  <2>5. p[2] = tv.req.set /\ v \in Ways /\ Holds(p, v) => InMemory(p)' = stored'[p]
    <3> SUFFICES ASSUME p[2] = tv.req.set, v \in Ways, Holds(p, v)
                 PROVE  InMemory(p)' = stored'[p]
      OBVIOUS
    <3>1. tv.tags[v].valid /\ tv.tags[v].tag = p[1]
      BY <1>8, <1>9 DEF Holds
    <3>2. CASE miss.state = "STORE_TAG_MISS_ALLOCATE"
      <4>1. v \notin stat_mem[tv.req.set].dirty
        BY <1>0, <3>1, <3>2 DEF DataInv, EvictData
      <4>2. Clean(stat_mem, p, v)
        BY <1>9, <4>1 DEF Clean
      <4>3. QED
        BY <2>1, <2>2, <4>2 DEF MemHas
    <3>3. CASE evict_done
      BY <1>1, <1>3, <3>1, <3>3, BlockIsOut
    <3>4. QED
      BY <1>2, <3>2, <3>3
  <2>6. ASSUME NEW w \in Ways, ~(p[2] = tv.req.set /\ w = v)
        PROVE  /\ Holds(p, w)' <=> Holds(p, w)
               /\ There(p, w)' <=> There(p, w)
               /\ Clean(stat_mem, p, w)' <=> Clean(stat_mem, p, w)
    <3>1. Holds(p, w)' <=> Holds(p, w)
      BY <1>1, <1>9, <1>10, <2>3, <2>6 DEF Holds
    <3>2. track_mem'[p[2]][w] = track_mem[p[2]][w]
      BY <1>0, <1>6, <2>3, <2>6 DEF TrackSet
    <3>3. There(p, w)' <=> There(p, w)
      BY <1>1, <3>2 DEF There, word_tracking_p
    <3>4. Clean(stat_mem, p, w)' <=> Clean(stat_mem, p, w)
      BY <1>7, <1>9, <2>3, <2>6 DEF Clean
    <3>5. QED
      BY <3>1, <3>3, <3>4
  <2>7. ASSUME v \in Ways, p[2] = tv.req.set
        PROVE  ~There(p, v)' /\ (Holds(p, v)' => InMemory(p)' = stored'[p])
    <3>1. track_mem'[p[2]][v] = {}
      BY <1>0, <1>5, <1>6, <2>3, <2>7 DEF TrackSet
    <3>2. ~There(p, v)'
      BY <1>1, <1>3, <3>1 DEF There, word_tracking_p
    <3>3. ASSUME Holds(p, v)' PROVE InMemory(p)' = stored'[p]
      <4>1. p[1] = tv.req.tag
        BY <1>9, <1>10, <2>3, <2>7, <3>3 DEF Holds
      <4>2. InMemory(p) = stored[p]
        BY <1>8, <2>1, <2>4, <2>7, <4>1 DEF NobodyHas
      <4>3. QED
        BY <2>2, <4>2
    <3>4. QED
      BY <3>2, <3>3
  <2>8. ASSUME NEW w \in Ways PROVE RamHas(p, w)' /\ MemHas(p, w)'
    <3>1. CASE p[2] = tv.req.set /\ w = v
      BY <2>7, <3>1 DEF RamHas, MemHas
    <3>2. CASE ~(p[2] = tv.req.set /\ w = v)
      <4>1. RamHas(p, w)'
        BY <1>1, <1>6, <2>1, <2>6, <3>2 DEF RamHas
      <4>2. MemHas(p, w)'
        BY <2>1, <2>2, <2>6, <3>2 DEF MemHas
      <4>3. QED
        BY <4>1, <4>2
    <3>3. QED
      BY <3>1, <3>2
  <2>9. NobodyHas(p)'
    <3> SUFFICES ASSUME \A w \in Ways : ~Holds(p, w)'
                 PROVE  InMemory(p)' = stored'[p]
      BY DEF NobodyHas
    <3>1. CASE \A w \in Ways : ~Holds(p, w)
      BY <2>1, <2>2, <2>4, <3>1 DEF NobodyHas
    <3>2. CASE \E w \in Ways : Holds(p, w)
      BY <2>5, <2>6, <3>2
    <3>3. QED
      BY <3>1, <3>2
  <2>10. QED
    BY <2>8, <2>9
<1>12. QED
  BY <1>1, <1>11, EmptiedWords

(* The last word of an eviction leaves: all of the block is in memory or on *)
(* its way there.                                                           *)
LEMMA WrittenBackWords ==
  ASSUME CacheInv, WayInv, DataInv,
         NEW in, NEW ack, NEW takes, NEW gives, NEW gets, Acts(in, ack, takes, gives, gets),
         ActsOnData(in, ack), Handled(ack), evict_done, ~st_allocate
  PROVE  WordInv'
<1>0. PICK v : v = dma_way
  OBVIOUS
<1>1. /\ tv' = tv /\ setting' = setting /\ Cleared /\ Cleared' /\ tv.req.set \in Sets
      /\ sbuf = <<>> /\ tbuf = <<>> /\ sbuf' = <<>> /\ tbuf' = <<>> /\ stored' = stored
      /\ ReadsTags(tv.req)
  BY HandledEdge
<1>2. miss.state = "SEND_EVICT_DATA" /\ ~st_tag_miss_op /\ ~tv.track_miss
  BY DEF st_allocate, evict_done, evict_word, CacheInv, MissInv, EvictStates
<1>3. miss'.state = IF goto_flush_op THEN "RECOVER" ELSE "GET_FILL_DATA"
  BY <1>2, HandlerMoves DEF Acts, CacheInv, MissInv
<1>4. /\ ~fill_allocate /\ ~fill_word /\ ~miss_tag_mem_v /\ ~Allocates
  BY <1>2 DEF fill_allocate, fill_word, CacheInv, MissInv, miss_tag_mem_v, Allocates
<1>5. /\ track_mem' = track_mem /\ data_mem' = data_mem /\ tag_mem' = tag_mem
      /\ \A s \in Sets : stat_mem'[s].dirty = stat_mem[s].dirty
  BY <1>2, <1>4, HandledEdge, HandledTags DEF TrackRead, DataRead
<1>6. \A p, w : There(p, w)' <=> There(p, w)
  BY <1>1, <1>5 DEF There, word_tracking_p
<1>7. miss'.chosen_way = miss.chosen_way /\ (goto_flush_op' <=> goto_flush_op)
  BY <1>1, <1>2, NamesMove DEF Acts, goto_flush_op
<1>8. \A s, w : /\ ~FlushedOut(s, w)' /\ ~Refilled(s, w)
                /\ FlushedOut(s, w) <=> goto_flush_op /\ s = tv.req.set /\ w = v
                /\ Refilled(s, w)' <=> ~goto_flush_op /\ s = tv.req.set /\ w = v
  BY <1>0, <1>1, <1>2, <1>3, <1>7 DEF FlushedOut, Refilled, EvictStates, dma_way
<1>9. /\ tag_mem[tv.req.set][v].tag = tv.tags[v].tag
      /\ ~goto_flush_op => tag_mem[tv.req.set] = tv.tags
  BY <1>0, <1>1, <1>2 DEF DataInv, EvictData, EvictStates, CacheInv, TagsInv, Unwritten
<1>10. \A p \in Places : p[1] = tv.tags[v].tag /\ p[2] = tv.req.set => InMemory(p)' = stored'[p]
  BY <1>0, <1>1, BlockIsOut
<1>11. ASSUME NEW p \in Places
       PROVE  (\A w \in Ways : RamHas(p, w)' /\ MemHas(p, w)') /\ NobodyHas(p)'
  <2>1. (\A w \in Ways : RamHas(p, w) /\ MemHas(p, w)) /\ NobodyHas(p)
    BY <1>1, EmptyWords DEF DataInv
  <2>2. InMemory(p) = stored[p] => InMemory(p)' = stored'[p]
    BY <1>1, WordsGoOut
  <2>3. p[2] \in Sets /\ ~Void(p)
    BY <1>2, PlaceIs DEF Void
  <2>4. ASSUME NEW w \in Ways, ~(p[2] = tv.req.set /\ w = v)
        PROVE  /\ Holds(p, w)' <=> Holds(p, w)
               /\ Clean(stat_mem, p, w)' <=> Clean(stat_mem, p, w)
    BY <1>1, <1>5, <1>8, <2>3, <2>4 DEF Holds, Clean
  <2>5. ASSUME p[2] = tv.req.set, Holds(p, v) PROVE InMemory(p)' = stored'[p]
    <3>1. p[1] = tv.tags[v].tag
      BY <1>8, <1>9, <2>5 DEF Holds
    <3>2. QED
      BY <1>10, <2>5, <3>1
  <2>6. ASSUME p[2] = tv.req.set, Holds(p, v)' PROVE Holds(p, v)
    BY <1>1, <1>5, <1>8, <1>9, <2>6 DEF Holds
  <2>7. ASSUME NEW w \in Ways PROVE RamHas(p, w)' /\ MemHas(p, w)'
    <3>1. Holds(p, w)' => Holds(p, w)
      BY <2>4, <2>6
    <3>2. RamHas(p, w)'
      BY <1>1, <1>5, <1>6, <2>1, <3>1 DEF RamHas
    <3>3. MemHas(p, w)'
      <4>1. CASE p[2] = tv.req.set /\ w = v
        BY <2>5, <3>1, <4>1 DEF MemHas
      <4>2. CASE ~(p[2] = tv.req.set /\ w = v)
        BY <1>6, <2>1, <2>2, <2>4, <4>2 DEF MemHas
      <4>3. QED
        BY <4>1, <4>2
    <3>4. QED
      BY <3>2, <3>3
  <2>8. NobodyHas(p)'
    <3> SUFFICES ASSUME \A w \in Ways : ~Holds(p, w)'
                 PROVE  InMemory(p)' = stored'[p]
      BY DEF NobodyHas
    <3>1. CASE \A w \in Ways : ~Holds(p, w)
      BY <2>1, <2>2, <2>3, <3>1 DEF NobodyHas
    <3>2. CASE \E w \in Ways : Holds(p, w)
      BY <2>4, <2>5, <3>2
    <3>3. QED
      BY <3>1, <3>2
  <2>9. QED
    BY <2>7, <2>8
<1>12. QED
  BY <1>1, <1>11, EmptiedWords

-----------------------------------------------------------------------------
(* What the handler knows when a word of a block comes in.                  *)
LEMMA WordComesIn ==
  ASSUME CacheInv, WayInv, DataInv,
         NEW in, NEW ack, NEW takes, NEW gives, NEW gets, Acts(in, ack, takes, gives, gets),
         ActsOnData(in, ack), Handled(ack), fill_word
  PROVE  /\ miss.state = "GET_FILL_DATA" /\ Filling /\ ~evict_word /\ ~st_allocate
         /\ tv.req.op \in {"LD", "ST", "AMO", "ALOCK"} /\ tv.req.tag \in Tags
         /\ Filled = dma.counter /\ Filled \in Words
         /\ ~goto_flush_op /\ dma_way = miss.chosen_way /\ miss.chosen_way \in Ways
         /\ \/ tv.track_miss /\ Filled \in dma.track[miss.chosen_way]
            \/ Head(in_fifo) = stored[Asked(Filled)]
         /\ tv.track_miss =>
              /\ word_tracking_p /\ tag_hit_found /\ miss.chosen_way = tag_hit_way_id
              /\ dma.track = track_mem[tv.req.set]
              /\ ReadsTrack(tv.req) /\ tv.req.word \notin dma.track[miss.chosen_way]
<1>1. ReadsTags(tv.req) /\ miss_v /\ tv.req.set \in Sets
  BY HandledEdge
<1>2. miss.state = "GET_FILL_DATA" /\ dma.state = "GET_FILL_DATA"
  BY DEF fill_word, CacheInv, MissInv
<1>3. ~goto_flush_op /\ ~goto_lock_op /\ ~st_tag_miss_op
  BY <1>2 DEF CacheInv, MissInv
<1>4. miss.chosen_way \in Ways
  BY DEF WayInv
<1>5. Filling /\ ~evict_word /\ ~st_allocate /\ dma_way = miss.chosen_way
  BY <1>2, <1>3 DEF Filling, evict_word, st_allocate, dma_way
<1>6. tv.track_miss => /\ tv.req.op \in {"LD", "ST", "AMO"} /\ tag_hit_found
                       /\ miss.chosen_way = tag_hit_way_id
  BY <1>1, <1>2 DEF CacheInv, TvInv, MissInv, tag_hit_found
<1>7. ASSUME tv.track_miss
      PROVE  /\ word_tracking_p /\ dma.track = track_mem[tv.req.set]
             /\ ReadsTrack(tv.req) /\ tv.req.word \notin dma.track[miss.chosen_way]
  <2>1. ReadsTrack(tv.req) /\ ~Tracked(tbuf, track_mem, Place(tv.req), tag_hit_way_id)
    BY <1>1, <1>2, <1>7 DEF DataInv, TvData
  <2>2. word_tracking_p /\ tv.req.word \notin track_mem[tv.req.set][tag_hit_way_id]
    BY <2>1 DEF Tracked, Place
  <2>3. dma.track = track_mem[tv.req.set]
    BY <1>2, <2>2 DEF DataInv, CopyInv
  <2>4. QED
    BY <1>6, <1>7, <2>1, <2>2, <2>3
<1>8. tv.req.op \in {"LD", "ST", "AMO", "ALOCK"}
  BY <1>2, <1>3, <1>6, AskedNotHeld
<1>9. tv.req.tag \in Tags
  BY <1>1, <1>8, TvRequest DEF CacheInv, Addressed
<1>10. Filled = dma.counter /\ Filled \in Words
  BY <1>2 DEF Filled, CacheInv, BurstInv, Words
<1>11. \/ tv.track_miss /\ Filled \in dma.track[miss.chosen_way]
       \/ Head(in_fifo) = stored[Asked(Filled)]
  <2>1. in_fifo # <<>> /\ IsSeq(in_fifo)
    BY DEF fill_word, CacheInv, BurstInv
  <2>2. Head(in_fifo) = in_fifo[1] /\ Len(in_fifo) \in Nat \ {0}
    BY <2>1, TailIs
  <2>3. 1 \in 1 .. Len(in_fifo) /\ Filled + 1 - 1 = Filled
    BY <1>10, <2>2 DEF Words
  <2>4. QED
    BY <1>5, <2>2, <2>3 DEF DataInv, FillData
<1>12. QED
  BY <1>2, <1>3, <1>4, <1>5, <1>6, <1>7, <1>8, <1>9, <1>10, <1>11

(* The words of the asked block that have come are in the way.              *)
LEMMA FilledHas ==
  ASSUME CacheInv, WayInv, DataInv,
         NEW in, NEW ack, NEW takes, NEW gives, NEW gets, Acts(in, ack, takes, gives, gets),
         ActsOnData(in, ack), Handled(ack), fill_word,
         NEW p \in Places, p[1] = tv.req.tag, p[2] = tv.req.set,
         p[3] < Filled \/ p[3] = Filled
  PROVE  data_mem'[p[2]][p[3]][miss.chosen_way] = stored[p]
<1>1. PICK v : v = miss.chosen_way
  OBVIOUS
<1>2. /\ miss.state = "GET_FILL_DATA" /\ v \in Ways /\ dma_way = v
      /\ Filled = dma.counter /\ Filled \in Words
      /\ \/ tv.track_miss /\ Filled \in dma.track[v]
         \/ Head(in_fifo) = stored[Asked(Filled)]
      /\ tv.track_miss => /\ word_tracking_p /\ tag_hit_found /\ v = tag_hit_way_id
                          /\ dma.track = track_mem[tv.req.set]
  BY <1>1, WordComesIn
<1>3. DataFilled /\ sbuf = <<>> /\ tbuf = <<>> /\ ReadsTags(tv.req)
  BY HandledEdge
<1>4. data_mem'[p[2]][p[3]][v] =
        IF p[3] = Filled /\ fill_mask THEN Head(in_fifo) ELSE data_mem[p[2]][p[3]][v]
  BY <1>2, <1>3 DEF DataFilled
<1>5. p = Asked(p[3]) /\ p[3] \in Words
  BY PlaceIs DEF Asked
<1>6. CASE p[3] < Filled
  <2>1. data_mem[p[2]][p[3]][v] = stored[p]
    BY <1>1, <1>2, <1>5, <1>6 DEF DataInv, FillData
  <2>2. p[3] # Filled
    BY <1>2, <1>6 DEF Words
  <2>3. QED
    BY <1>1, <1>4, <2>1, <2>2
<1>7. CASE p[3] = Filled /\ fill_mask
  <2>1. ~(tv.track_miss /\ Filled \in dma.track[v])
    BY <1>1, <1>2, <1>7 DEF fill_mask
  <2>2. QED
    BY <1>1, <1>2, <1>4, <1>5, <1>7, <2>1
<1>8. CASE p[3] = Filled /\ ~fill_mask
  <2>1. word_tracking_p /\ tv.track_miss /\ p[3] \in track_mem[tv.req.set][v]
    BY <1>2, <1>8 DEF fill_mask
  <2>2. Holds(p, v)
    BY <1>2, <1>3, <2>1, HitHolds
  <2>3. RamHas(p, v)
    BY <1>2, <1>3, EmptyWords DEF DataInv
  <2>4. QED
    BY <1>1, <1>4, <1>8, <2>1, <2>2, <2>3 DEF RamHas, There
<1>9. QED
  BY <1>6, <1>7, <1>8

(* The word that a load asked for is kept as it passes.                     *)
LEMMA SnoopHas ==
  ASSUME CacheInv, WayInv, DataInv,
         NEW in, NEW ack, NEW takes, NEW gives, NEW gets, Acts(in, ack, takes, gives, gets),
         ActsOnData(in, ack), Handled(ack), fill_word, Reads(tv.req),
         tv.req.word < Filled \/ tv.req.word = Filled
  PROVE  dma'.snoop_word = stored[Place(tv.req)]
<1>1. /\ miss.state = "GET_FILL_DATA" /\ Filled = dma.counter /\ Filled \in Words
      /\ \/ tv.track_miss /\ Filled \in dma.track[miss.chosen_way]
         \/ Head(in_fifo) = stored[Asked(Filled)]
      /\ tv.track_miss => tv.req.word \notin dma.track[miss.chosen_way]
  BY WordComesIn
<1>2. tv.req.word \in Words /\ Place(tv.req) = Asked(tv.req.word)
  BY HandledEdge, TvRequest DEF CacheInv, Reads, Place, Asked
<1>3. dma'.snoop_word = IF tv.req.word = Filled THEN Head(in_fifo) ELSE dma.snoop_word
  BY <1>1 DEF Acts, DmaEngine
<1>4. CASE tv.req.word = Filled
  BY <1>1, <1>2, <1>3, <1>4
<1>5. CASE tv.req.word < Filled
  <2>1. tv.req.word # Filled
    BY <1>1, <1>2, <1>5 DEF Words
  <2>2. QED
    BY <1>1, <1>3, <1>5, <2>1 DEF DataInv, FillData
<1>6. QED
  BY <1>4, <1>5

(* It comes to an end with the last word. *)
LEMMA LastWord ==
  ASSUME CacheInv, WayInv, DataInv,
         NEW in, NEW ack, NEW takes, NEW gives, NEW gets, Acts(in, ack, takes, gives, gets),
         ActsOnData(in, ack), Handled(ack), fill_allocate
  PROVE  /\ fill_word /\ miss_tag_mem_v /\ miss'.state = "RECOVER"
         /\ Filled \in Words /\ \A x \in Words : x < Filled \/ x = Filled
<1>1. fill_done /\ fill_word /\ miss.state = "GET_FILL_DATA" /\ miss_tag_mem_v
  BY DEF fill_allocate, fill_done, miss_tag_mem_v
<1>2. miss'.state = "RECOVER"
  BY <1>1, HandlerMoves DEF Acts, CacheInv, MissInv
<1>3. Filled = block_size_in_words_p - 1
  BY <1>1 DEF Filled, fill_done, fill_word
<1>4. Filled \in Words /\ \A x \in Words : x < Filled \/ x = Filled
  BY <1>3, CacheAssumption DEF Words
<1>5. QED
  BY <1>1, <1>2, <1>4

(* The last word of a block comes in: the tag is written, and the way has   *)
(* the block.                                                               *)
LEMMA FilledWords ==
  ASSUME CacheInv, WayInv, DataInv,
         NEW in, NEW ack, NEW takes, NEW gives, NEW gets, Acts(in, ack, takes, gives, gets),
         ActsOnData(in, ack), Handled(ack), fill_allocate
  PROVE  WordInv'
<1>1. /\ tv' = tv /\ setting' = setting /\ Cleared /\ Cleared' /\ tv.req.set \in Sets
      /\ sbuf = <<>> /\ tbuf = <<>> /\ sbuf' = <<>> /\ tbuf' = <<>> /\ stored' = stored
      /\ ReadsTags(tv.req) /\ (Allocates => TrackSet) /\ (~Allocates => TrackRead(in))
  BY HandledEdge
<1>2. PICK v : v = miss.chosen_way
  OBVIOUS
<1>3. /\ miss.state = "GET_FILL_DATA" /\ miss'.state = "RECOVER"
      /\ tv.req.op \in {"LD", "ST", "AMO", "ALOCK"}
      /\ fill_word /\ ~evict_word /\ ~st_allocate /\ miss_tag_mem_v
      /\ ~goto_flush_op /\ dma_way = v /\ v \in Ways
      /\ tv.track_miss => tag_hit_found /\ v = tag_hit_way_id
  BY <1>2, LastWord, WordComesIn
<1>4. \A s \in Sets, w \in Ways :
        track_mem'[s][w] = IF word_tracking_p /\ s = tv.req.set /\ w = v THEN Words
                           ELSE track_mem[s][w]
  BY <1>1, <1>2 DEF Allocates, TrackSet, TrackRead
<1>5. \A p \in Places, w \in Ways :
        ~(p[2] = tv.req.set /\ w = v) => data_mem'[p[2]][p[3]][w] = data_mem[p[2]][p[3]][w]
  BY <1>3, HandledEdge DEF DataFilled
<1>6. \A s \in Sets : stat_mem'[s].dirty =
        IF s = tv.req.set THEN Marked(stat_mem[s].dirty) ELSE stat_mem[s].dirty
  BY <1>3, HandledTags
<1>7. \A s, w : /\ ~FlushedOut(s, w) /\ ~FlushedOut(s, w)' /\ ~Refilled(s, w)'
                /\ Refilled(s, w) <=> ~tv.track_miss /\ s = tv.req.set /\ w = v
  BY <1>2, <1>3 DEF FlushedOut, Refilled, EvictStates
<1>8. \A s \in Sets, w \in Ways :
        IF s = tv.req.set /\ w = v
        THEN tag_mem'[s][w].valid /\ tag_mem'[s][w].tag = tv.req.tag
        ELSE tag_mem'[s][w] = tag_mem[s][w]
  <2>1. \A w \in Ways : HandlersTag(w) =
          IF w = v THEN [valid |-> TRUE, lock |-> tv.req.op = "ALOCK", tag |-> tv.req.tag]
          ELSE tag_mem[tv.req.set][w]
    BY <1>2, <1>3 DEF HandlersTag
  <2>2. QED
    BY <1>3, <2>1, HandledTags
<1>9. ASSUME NEW p \in Places
      PROVE  (\A w \in Ways : RamHas(p, w)' /\ MemHas(p, w)') /\ NobodyHas(p)'
  <2>1. (\A w \in Ways : RamHas(p, w) /\ MemHas(p, w)) /\ NobodyHas(p)
    BY <1>1, EmptyWords DEF DataInv
  <2>2. InMemory(p)' = InMemory(p)
    BY <1>3, WordsGoOut
  <2>3. p[2] \in Sets /\ ~Void(p)
    BY <1>3, PlaceIs DEF Void
  <2>4. ASSUME NEW w \in Ways, ~(p[2] = tv.req.set /\ w = v)
        PROVE  /\ Holds(p, w)' <=> Holds(p, w)
               /\ There(p, w)' <=> There(p, w)
               /\ Clean(stat_mem, p, w)' <=> Clean(stat_mem, p, w)
    <3>1. Holds(p, w)' <=> Holds(p, w)
      BY <1>1, <1>7, <1>8, <2>3, <2>4 DEF Holds
    <3>2. track_mem'[p[2]][w] = track_mem[p[2]][w]
      BY <1>4, <2>3, <2>4
    <3>3. There(p, w)' <=> There(p, w)
      BY <1>1, <3>2 DEF There, word_tracking_p
    <3>4. w \in stat_mem'[p[2]].dirty <=> w \in stat_mem[p[2]].dirty
      BY <1>2, <1>6, <2>3, <2>4 DEF Marked
    <3>5. Clean(stat_mem, p, w)' <=> Clean(stat_mem, p, w)
      BY <1>7, <3>4 DEF Clean
    <3>6. QED
      BY <3>1, <3>3, <3>5
  <2>5. p[2] = tv.req.set => (Holds(p, v)' <=> p[1] = tv.req.tag)
    BY <1>1, <1>3, <1>7, <1>8, <2>3 DEF Holds
  <2>6. ASSUME p[2] = tv.req.set, p[1] = tv.req.tag
        PROVE  RamHas(p, v)' /\ MemHas(p, v)'
    <3>1. RamHas(p, v)'
      <4>1. data_mem'[p[2]][p[3]][v] = stored[p]
        <5>1. p[3] < Filled \/ p[3] = Filled
          BY LastWord, PlaceIs
        <5>2. QED
          BY <1>2, <1>3, <2>6, <5>1, FilledHas
      <4>2. QED
        BY <1>1, <4>1 DEF RamHas
    <3>2. ASSUME There(p, v)' => Clean(stat_mem, p, v)' PROVE InMemory(p) = stored[p]
      <4>1. There(p, v)'
        BY <1>1, <1>3, <1>4, <2>3, <2>6, PlaceIs DEF There, word_tracking_p
      <4>2. Clean(stat_mem, p, v)'
        BY <3>2, <4>1
      <4>3. CASE tv.track_miss
        <5>1. Holds(p, v)
          BY <1>1, <1>3, <2>6, <4>3, HitHolds
        <5>2. v \notin stat_mem[p[2]].dirty
          BY <1>6, <2>3, <2>6, <4>2, <4>3 DEF Clean, Marked
        <5>3. Clean(stat_mem, p, v)
          BY <1>7, <5>2 DEF Clean
        <5>4. QED
          BY <1>3, <2>1, <5>1, <5>3 DEF MemHas
      <4>4. CASE ~tv.track_miss
        <5>1. \A w \in Ways : ~Holds(p, w)
          BY <1>3, <2>6, <4>4, AskedNotHeld
        <5>2. QED
          BY <2>1, <2>3, <5>1 DEF NobodyHas
      <4>5. QED
        BY <4>3, <4>4
    <3>3. MemHas(p, v)'
      BY <1>1, <2>2, <3>2 DEF MemHas
    <3>4. QED
      BY <3>1, <3>3
  <2>7. ASSUME NEW w \in Ways PROVE RamHas(p, w)' /\ MemHas(p, w)'
    <3>1. CASE p[2] = tv.req.set /\ w = v
      <4>1. CASE p[1] = tv.req.tag
        BY <2>6, <3>1, <4>1
      <4>2. CASE p[1] # tv.req.tag
        BY <2>5, <3>1, <4>2 DEF RamHas, MemHas
      <4>3. QED
        BY <4>1, <4>2
    <3>2. CASE ~(p[2] = tv.req.set /\ w = v)
      <4>1. RamHas(p, w)'
        BY <1>1, <1>5, <2>1, <2>4, <3>2 DEF RamHas
      <4>2. MemHas(p, w)'
        BY <1>1, <2>1, <2>2, <2>4, <3>2 DEF MemHas
      <4>3. QED
        BY <4>1, <4>2
    <3>3. QED
      BY <3>1, <3>2
  <2>8. NobodyHas(p)'
    <3> SUFFICES ASSUME \A w \in Ways : ~Holds(p, w)'
                 PROVE  InMemory(p)' = stored'[p]
      BY DEF NobodyHas
    <3>1. ASSUME NEW w \in Ways PROVE ~Holds(p, w)
      <4>1. CASE p[2] = tv.req.set /\ w = v
        <5>1. p[1] # tv.req.tag
          BY <2>5, <4>1
        <5>2. ~tv.track_miss => ~Holds(p, w)
          BY <1>7, <4>1 DEF Holds
        <5>3. tv.track_miss => tag_mem[p[2]][w].tag = tv.req.tag
          <6>1. tv.tags = tag_mem[tv.req.set]
            BY <1>1, <1>3 DEF CacheInv, TagsInv, Unwritten, MissStates, EvictStates
          <6>2. QED
            BY <1>1, <1>3, <4>1, <6>1, HitWay DEF CacheInv
        <5>4. QED
          BY <1>7, <5>1, <5>2, <5>3 DEF Holds
      <4>2. CASE ~(p[2] = tv.req.set /\ w = v)
        BY <2>4, <4>2
      <4>3. QED
        BY <4>1, <4>2
    <3>2. QED
      BY <1>1, <2>1, <2>2, <2>3, <3>1 DEF NobodyHas
  <2>9. QED
    BY <2>7, <2>8
<1>10. QED
  BY <1>1, <1>9, EmptiedWords

(* Whatever the handler does, no byte is lost. *)
LEMMA WordStays ==
  ASSUME CacheInv, WayInv, DataInv,
         NEW in, NEW ack, NEW takes, NEW gives, NEW gets, Acts(in, ack, takes, gives, gets),
         ActsOnData(in, ack)
  PROVE  WordInv'
<1>1. CASE miss.state = "START" \/ v_we(ack)
  BY <1>1, QuietWords
<1>2. CASE Handled(ack)
  <2>1. CASE miss.state = "LOCK_OP"
    BY <1>2, <2>1, LockWords
  <2>2. CASE miss.state = "FLUSH_OP"
    BY <1>2, <2>2, FlushWords
  <2>3. CASE st_allocate
    BY <1>2, <2>3, AllocatedWords
  <2>4. CASE fill_allocate
    BY <1>2, <2>4, FilledWords
  <2>5. CASE evict_done /\ ~st_allocate
    BY <1>2, <2>5, WrittenBackWords
  <2>6. CASE miss.state = "SEND_FILL_ADDR" /\ miss'.state = "GET_FILL_DATA" /\ ~tv.track_miss
    BY <1>2, <2>6, GivenUpWords
  <2>7. CASE /\ miss.state \notin {"LOCK_OP", "FLUSH_OP"} /\ ~st_allocate /\ ~fill_allocate
             /\ ~evict_done
             /\ ~(/\ miss.state = "SEND_FILL_ADDR" /\ miss'.state = "GET_FILL_DATA"
                  /\ ~tv.track_miss)
    <3>1. ~miss_tag_mem_v
      BY <2>7 DEF miss_tag_mem_v
    <3>2. miss'.state = "GET_FILL_DATA" => miss.state \in {"GET_FILL_DATA", "SEND_FILL_ADDR"}
      <4>1. miss.state \in MissStates /\ MissHandler(takes, ack)
        BY DEF CacheInv, MissInv, Acts
      <4>2. miss.state # "START"
        BY <1>2 DEF Handled
      <4>3. QED
        BY <2>7, <4>1, <4>2, HandlerMoves DEF MissStates, EvictStates
    <3>3. QED
      BY <1>2, <2>7, <3>1, <3>2, WordsWait
  <2>8. QED
    BY <2>1, <2>2, <2>3, <2>4, <2>5, <2>6, <2>7
<1>3. QED
  BY <1>1, <1>2 DEF Handled

-----------------------------------------------------------------------------
(* While the handler has not come to the end it has written no track bits, *)
(* unless it had to give a way to a new block.                             *)
LEMMA NotYetWritten ==
  ASSUME CacheInv, WayInv, DataInv,
         NEW in, NEW ack, NEW takes, NEW gives, NEW gets, Acts(in, ack, takes, gives, gets),
         ActsOnData(in, ack), Handled(ack), miss'.state \notin {"RECOVER", "DONE"}
  PROVE  /\ miss.state \notin {"START", "RECOVER", "DONE"} /\ ~st_allocate /\ ~fill_allocate
         /\ track_mem' = track_mem
         /\ stat_mem'[tv.req.set].dirty =
              IF miss.state = "FLUSH_OP" THEN stat_mem[tv.req.set].dirty \ Flushed
              ELSE stat_mem[tv.req.set].dirty
<1>1. miss.state \in MissStates /\ MissHandler(takes, ack) /\ ~ack /\ tv.req.set \in Sets
  BY HandledEdge DEF CacheInv, MissInv, Acts
<1>2. miss.state \notin {"START", "RECOVER", "DONE"}
  BY <1>1, HandlerMoves DEF Handled
<1>3. ~fill_allocate
  BY <1>1, HandlerMoves DEF fill_allocate
<1>4. ~st_allocate
  <2>1. CASE miss.state = "STORE_TAG_MISS_ALLOCATE"
    BY <1>1, <2>1, HandlerMoves
  <2>2. CASE miss.state = "SEND_EVICT_DATA" /\ evict_done /\ st_tag_miss_op
    BY <1>1, <2>2, HandlerMoves
  <2>3. QED
    BY <2>1, <2>2 DEF st_allocate
<1>5. track_mem' = track_mem
  BY <1>3, <1>4, HandledEdge DEF Allocates, TrackRead
<1>6. QED
  BY <1>1, <1>2, <1>3, <1>4, <1>5, HandledTags

(* What TV knows. *)
LEMMA TvKnows ==
  ASSUME CacheInv, WayInv, DataInv,
         NEW in, NEW ack, NEW takes, NEW gives, NEW gets, Acts(in, ack, takes, gives, gets),
         ActsOnData(in, ack)
  PROVE  TvData'
<1>1. CASE miss.state = "START" \/ v_we(ack)
  BY <1>1, QuietTv
<1>2. CASE Handled(ack)
  <2>1. /\ tv' = tv /\ setting' = setting /\ miss_v /\ miss_v' /\ ReadsTags(tv.req)
        /\ tbuf = <<>> /\ tbuf' = <<>>
    BY <1>2, HandledEdge DEF miss_v
  <2>2. tv.track_miss => ReadsTrack(tv.req)
    BY <2>1 DEF DataInv, TvData
  <2>3. ASSUME tv.track_miss, miss'.state \notin {"RECOVER", "DONE"}
        PROVE  ~Tracked(tbuf, track_mem, Place(tv.req), tag_hit_way_id)'
    <3>1. track_mem' = track_mem /\ miss.state \notin {"RECOVER", "DONE"}
      BY <1>2, <2>3, NotYetWritten
    <3>2. ~Tracked(tbuf, track_mem, Place(tv.req), tag_hit_way_id)
      BY <2>1, <2>3, <3>1 DEF DataInv, TvData
    <3>3. QED
      BY <2>1, <3>1, <3>2 DEF Tracked, word_tracking_p, tag_hit_way_id
  <2>4. QED
    BY <2>1, <2>2, <2>3 DEF TvData
<1>3. QED
  BY <1>1, <1>2 DEF Handled

(* When it starts, it reads the track bits of its row.                     *)
LEMMA StartReads ==
  ASSUME CacheInv, WayInv, DataInv,
         NEW in, NEW ack, NEW takes, NEW gives, NEW gets, Acts(in, ack, takes, gives, gets),
         ActsOnData(in, ack), start
  PROVE  /\ tv' = tv /\ ~ack /\ track_mem' = track_mem /\ sbuf' = <<>> /\ tbuf' = <<>>
         /\ stat_mem' = stat_mem /\ data_mem' = data_mem /\ stored' = stored
         /\ word_tracking_p => track_mem_data_lo' = track_mem[tv.req.set]
         /\ miss'.state \in {"FLUSH_OP", "LOCK_OP", "STORE_TAG_MISS", "SEND_FILL_ADDR"}
<1>1. miss.state = "START" /\ miss_v /\ sbuf = <<>> /\ tbuf = <<>>
  BY DEF start
<1>2. ~ack
  BY <1>1 DEF Acts, v_o
<1>3. ~v_we(ack) /\ tv' = tv
  <2>1. ~((miss.state = "START" /\ ~miss_v) \/ miss.state = "DONE")
    BY <1>1
  <2>2. QED
    BY <2>1, StartsOver
<1>4. Stores(ack) = <<>> /\ Tracks(ack) = <<>>
  BY <1>1, <1>2, OnlyWithAnAnswer
<1>5. ~Draining(in, ack) /\ ~Arriving(in, ack)
  BY <1>4 DEF Draining, Arriving
<1>6. DataRead(in) /\ TrackRead(in)
  BY <1>1, <1>5, EdgeDrains
<1>7. word_tracking_p => track_mem_data_lo' = track_mem[tv.req.set]
  BY <1>1, <1>6 DEF TrackRead, recover
<1>8. miss'.state \in {"FLUSH_OP", "LOCK_OP", "STORE_TAG_MISS", "SEND_FILL_ADDR"}
  <2>1. miss.state \in MissStates /\ MissHandler(takes, ack)
    BY DEF CacheInv, MissInv, Acts
  <2>2. QED
    BY <1>1, <2>1, HandlerMoves
<1>9. stat_mem' = stat_mem
  BY <1>1, StatRests DEF ActsOnData
<1>10. stored' = stored
  BY <1>2 DEF ActsOnData, Stored
<1>11. sbuf' = <<>> /\ tbuf' = <<>>
  BY <1>4 DEF Acts, Drained
<1>12. QED
  BY <1>2, <1>3, <1>6, <1>7, <1>8, <1>9, <1>10, <1>11 DEF DataRead, TrackRead

(* The engine's copy of the track bits. *)
LEMMA CopyStays ==
  ASSUME CacheInv, WayInv, DataInv,
         NEW in, NEW ack, NEW takes, NEW gives, NEW gets, Acts(in, ack, takes, gives, gets),
         ActsOnData(in, ack)
  PROVE  CopyInv'
<1>1. /\ MissHandler(takes, ack) /\ DmaEngine /\ setting' = setting
      /\ word_tracking_p' = word_tracking_p
  BY DEF Acts, word_tracking_p
<1>2. miss'.track_data_we = (word_tracking_p /\ start)
  BY <1>1 DEF MissHandler
<1>3. ASSUME miss'.track_data_we
      PROVE  /\ word_tracking_p' /\ track_mem_data_lo' = track_mem'[tv'.req.set]
             /\ miss'.state \in {"FLUSH_OP", "LOCK_OP", "STORE_TAG_MISS", "SEND_FILL_ADDR"}
  BY <1>1, <1>2, <1>3, StartReads
<1>4. ASSUME word_tracking_p, ~miss'.track_data_we,
             miss'.state \notin {"START", "RECOVER", "DONE"}
      PROVE  dma'.track = track_mem'[tv'.req.set]
  <2>1. ~start
    BY <1>2, <1>4
  <2>2. miss.state # "START"
    <3>1. miss.state \in MissStates
      BY DEF CacheInv, MissInv
    <3>2. QED
      BY <1>1, <1>4, <2>1, <3>1, HandlerMoves
  <2>3. Handled(ack)
    BY <1>4, <2>2, StartsOver DEF Handled
  <2>4. track_mem' = track_mem /\ miss.state \notin {"START", "RECOVER", "DONE"} /\ tv' = tv
    BY <1>4, <2>3, NotYetWritten, HandledEdge
  <2>5. dma'.track = IF miss.track_data_we THEN track_mem_data_lo ELSE dma.track
    BY <1>1 DEF DmaEngine
  <2>6. QED
    BY <1>4, <2>4, <2>5 DEF DataInv, CopyInv
<1>5. ASSUME dma'.state = "IDLE" PROVE dma'.counter = 0
  <2>1. dma'.state = dma_state_n /\ dma'.counter = dma_counter_n
    BY <1>1 DEF DmaEngine
  <2>2. CASE dma.state = "IDLE"
    <3>1. miss.state # "SEND_EVICT_DATA"
      BY <1>1, <1>5, <2>2, EngineMoves DEF CacheInv
    <3>2. QED
      BY <2>1, <2>2, <3>1 DEF dma_counter_n
  <2>3. CASE dma.state # "IDLE"
    <3>1. fill_done \/ evict_done
      BY <1>5, <2>1, <2>3 DEF dma_state_n
    <3>2. QED
      BY <2>1, <2>3, <3>1 DEF dma_counter_n
  <2>4. QED
    BY <2>2, <2>3
<1>6. QED
  BY <1>1, <1>3, <1>4, <1>5 DEF CopyInv

-----------------------------------------------------------------------------
(* The burst that memory reads. *)
LEMMA ReadingMoves ==
  ASSUME RowInv, NEW takes, NEW gives, NEW gets, Memory(takes, gives, gets),
         takes => TakesPacket, gives => GivesWord
  PROVE  LET b == memory.reading
             c == memory'.reading
             begins == takes /\ miss.state = "SEND_FILL_ADDR"
         IN  /\ begins => /\ ~Bursting(b) /\ ~gives /\ memory.writing.block # fill_block
                          /\ c = [block |-> fill_block, word |-> 0]
             /\ ~gives /\ ~begins => c = b
             /\ gives =>
                  /\ Bursting(b) /\ ~begins
                  /\ b.word = block_size_in_words_p - 1 => c = Idle
                  /\ b.word # block_size_in_words_p - 1 =>
                       c = [block |-> b.block, word |-> b.word + 1] /\ b.word + 1 \in Words
<1>1. PICK b, c : b = memory.reading /\ c = memory'.reading
  OBVIOUS
<1> DEFINE begins == takes /\ miss.state = "SEND_FILL_ADDR"
<1>2. begins => b = Idle /\ memory.writing.block # fill_block
  BY <1>1 DEF TakesPacket
<1>3. gives => Bursting(b)
  BY <1>1 DEF GivesWord
<1>4. c = IF begins THEN [block |-> fill_block, word |-> 0]
          ELSE IF gives THEN Advanced(b) ELSE b
  BY <1>1 DEF Memory
<1>5. ASSUME gives, b.word # block_size_in_words_p - 1
      PROVE  Advanced(b) = [block |-> b.block, word |-> b.word + 1] /\ b.word + 1 \in Words
  <2>1. b \in [block : Tags \X Sets, word : Words]
    BY <1>1, <1>3, <1>5 DEF RowInv
  <2>2. Advanced(b) = [b EXCEPT !.word = @ + 1]
    BY <1>5 DEF Advanced
  <2>3. Advanced(b) = [block |-> b.block, word |-> b.word + 1]
    BY <2>1, <2>2
  <2>4. b.word \in Words
    BY <2>1
  <2>5. b.word + 1 \in Words
    BY <1>5, <2>4, CacheAssumption DEF Words
  <2>6. QED
    BY <2>3, <2>5
<1>6. b.word = block_size_in_words_p - 1 => Advanced(b) = Idle
  BY DEF Advanced
<1>7. begins => ~gives /\ ~Bursting(b)
  BY <1>2, <1>3 DEF Bursting
<1> HIDE DEF begins
<1>8. /\ begins => ~Bursting(b) /\ ~gives /\ memory.writing.block # fill_block
                   /\ c = [block |-> fill_block, word |-> 0]
      /\ ~gives /\ ~begins => c = b
      /\ gives =>
           /\ Bursting(b) /\ ~begins
           /\ b.word = block_size_in_words_p - 1 => c = Idle
           /\ b.word # block_size_in_words_p - 1 =>
                c = [block |-> b.block, word |-> b.word + 1] /\ b.word + 1 \in Words
  BY <1>2, <1>3, <1>4, <1>5, <1>6, <1>7
<1>9. QED
  BY <1>1, <1>8 DEF begins

(* Memory reads and writes blocks with the addresses of the cache.          *)
LEMMA BurstsNamed ==
  ASSUME CacheInv, WayInv, DataInv,
         NEW in, NEW ack, NEW takes, NEW gives, NEW gets, Acts(in, ack, takes, gives, gets),
         ActsOnData(in, ack)
  PROVE  /\ DOMAIN memory'.data = Places
         /\ Bursting(memory'.writing) =>
              memory'.writing \in [block : Tags \X Sets, word : Words, mask : SUBSET Words]
         /\ Bursting(memory'.reading) => memory'.reading \in [block : Tags \X Sets, word : Words]
<1>1. /\ RowInv /\ Memory(takes, gives, gets)
      /\ (takes => TakesPacket) /\ (gives => GivesWord) /\ (gets => TakesWord)
  BY DEF DataInv, Acts
<1>2. DOMAIN memory'.data = Places
  BY <1>1, WritingMoves
<1>3. 0 \in Words
  BY CacheAssumption DEF Words
<1>4. ASSUME Bursting(memory'.writing)
      PROVE  memory'.writing \in [block : Tags \X Sets, word : Words, mask : SUBSET Words]
  <2>1. CASE takes /\ miss.state = "SEND_EVICT_ADDR"
    <3>1. memory'.writing = [block |-> evict_block, word |-> 0,
                             mask |-> IF word_tracking_p THEN dma.track[dma_way] ELSE Words]
      BY <1>1, <2>1, WritingMoves
    <3>2. dma_way \in Ways /\ tv.req.set \in Sets /\ tv.tags \in [Ways -> TagInfo]
      BY <2>1, EvictedHeld, AtWork DEF EvictStates
    <3>3. tv.tags[dma_way].tag \in Tags
      BY <3>2 DEF TagInfo
    <3>4. evict_block \in Tags \X Sets
      BY <3>2, <3>3 DEF evict_block
    <3>5. word_tracking_p => dma.track[dma_way] \in SUBSET Words
      <4>1. word_tracking_p => dma.track = track_mem[tv.req.set]
        BY <2>1 DEF DataInv, CopyInv
      <4>2. QED
        BY <1>1, <3>2, <4>1 DEF RowInv
    <3>6. QED
      BY <1>3, <3>1, <3>4, <3>5
  <2>2. CASE gets
    <3>1. PICK b : b = memory.writing
      OBVIOUS
    <3>2. Bursting(b)
      BY <1>1, <2>2, <3>1, WritingMoves
    <3>3. b \in [block : Tags \X Sets, word : Words, mask : SUBSET Words]
      BY <1>1, <3>1, <3>2 DEF RowInv
    <3>4. b.word # block_size_in_words_p - 1
      BY <1>1, <1>4, <2>2, <3>1, WritingMoves DEF Bursting
    <3>5. /\ memory'.writing = [block |-> b.block, word |-> b.word + 1, mask |-> b.mask]
          /\ memory'.writing.word \in Words
      BY <1>1, <2>2, <3>1, <3>4, WritingMoves
    <3>6. b.word + 1 \in Words
      BY <3>5
    <3>7. QED
      BY <3>3, <3>5, <3>6
  <2>3. CASE ~gets /\ ~(takes /\ miss.state = "SEND_EVICT_ADDR")
    <3>1. memory'.writing = memory.writing
      BY <1>1, <2>3, WritingMoves
    <3>2. QED
      BY <1>1, <1>4, <3>1 DEF RowInv
  <2>4. QED
    BY <2>1, <2>2, <2>3
<1>5. ASSUME Bursting(memory'.reading)
      PROVE  memory'.reading \in [block : Tags \X Sets, word : Words]
  <2>1. CASE takes /\ miss.state = "SEND_FILL_ADDR"
    <3>1. memory'.reading = [block |-> fill_block, word |-> 0]
      BY <1>1, <2>1, ReadingMoves
    <3>2. tv.req.set \in Sets /\ ReadsTags(tv.req) /\ ~goto_flush_op
      BY <2>1, AtWork DEF CacheInv, MissInv
    <3>3. tv.req.op \in Addressed
      <4>1. CASE tv.track_miss
        BY <3>2, <4>1 DEF CacheInv, TvInv, Addressed
      <4>2. CASE ~tv.track_miss
        BY <2>1, <3>2, <4>2, AskedNotHeld DEF Addressed
      <4>3. QED
        BY <4>1, <4>2
    <3>4. tv.req.tag \in Tags
      BY <3>2, <3>3, TvRequest DEF CacheInv
    <3>5. QED
      BY <1>3, <3>1, <3>2, <3>4 DEF fill_block
  <2>2. CASE gives
    <3>1. PICK b : b = memory.reading
      OBVIOUS
    <3>2. Bursting(b)
      BY <1>1, <2>2, <3>1, ReadingMoves
    <3>3. b \in [block : Tags \X Sets, word : Words]
      BY <1>1, <3>1, <3>2 DEF RowInv
    <3>4. b.word # block_size_in_words_p - 1
      BY <1>1, <1>5, <2>2, <3>1, ReadingMoves DEF Bursting
    <3>5. memory'.reading = [block |-> b.block, word |-> b.word + 1] /\ b.word + 1 \in Words
      BY <1>1, <2>2, <3>1, <3>4, ReadingMoves
    <3>6. QED
      BY <3>3, <3>5
  <2>3. CASE ~gives /\ ~(takes /\ miss.state = "SEND_FILL_ADDR")
    <3>1. memory'.reading = memory.reading
      BY <1>1, <2>3, ReadingMoves
    <3>2. QED
      BY <1>1, <1>5, <3>1 DEF RowInv
  <2>4. QED
    BY <2>1, <2>2, <2>3
<1>6. QED
  BY <1>2, <1>4, <1>5

(* The RAMs keep their rows. *)
LEMMA RowStays ==
  ASSUME CacheInv, WayInv, DataInv,
         NEW in, NEW ack, NEW takes, NEW gives, NEW gets, Acts(in, ack, takes, gives, gets),
         ActsOnData(in, ack)
  PROVE  RowInv'
<1>1. setting' = setting /\ (word_tracking_p' <=> word_tracking_p)
  BY DEF Acts, word_tracking_p
<1>2. ~word_tracking_p => \A w \in Ways : track_mem_data_lo[w] = Words
  BY DEF DataInv, RowInv
<1>3. /\ DOMAIN data_mem' = Sets /\ \A s \in Sets : DOMAIN data_mem'[s] = Words
      /\ track_mem' \in [Sets -> [Ways -> SUBSET Words]]
      /\ DOMAIN stored' = Places
      /\ ~word_tracking_p => tbuf' = <<>> /\ track_mem_data_lo' = track_mem_data_lo
  <2>1. CASE miss.state = "START" \/ v_we(ack)
    BY <2>1, EdgeDrains, EdgeStores
  <2>2. CASE Handled(ack)
    <3>1. ~word_tracking_p => ~Allocates
      BY DEF Allocates
    <3>2. DOMAIN stored = Places
      BY DEF DataInv, RowInv
    <3>3. ~word_tracking_p => track_mem_data_lo' = track_mem_data_lo
      BY <2>2, <3>1, HandledEdge DEF TrackRead
    <3>4. QED
      BY <2>2, <3>2, <3>3, HandledEdge
  <2>3. QED
    BY <2>1, <2>2 DEF Handled
<1>4. /\ DOMAIN memory'.data = Places
      /\ Bursting(memory'.writing) =>
           memory'.writing \in [block : Tags \X Sets, word : Words, mask : SUBSET Words]
      /\ Bursting(memory'.reading) => memory'.reading \in [block : Tags \X Sets, word : Words]
  BY BurstsNamed
<1>5. QED
  BY <1>1, <1>2, <1>3, <1>4 DEF RowInv, Bursting

-----------------------------------------------------------------------------
(* Away from the handler a block becomes dirty at most, and a word there.  *)
LEMMA QuietRow ==
  ASSUME CacheInv, WayInv, DataInv,
         NEW in, NEW ack, NEW takes, NEW gives, NEW gets, Acts(in, ack, takes, gives, gets),
         ActsOnData(in, ack), miss.state = "START" \/ v_we(ack), Cleared
  PROVE  /\ tag_mem' = tag_mem /\ Cleared'
         /\ tv.req.op # "TAGST" => \A s \in Sets : stat_mem[s].dirty \subseteq stat_mem'[s].dirty
<1>1. Cleared' /\ in # Clearing
  BY SweepGoes
<1>2. /\ ~miss_tag_mem_v /\ ~st_allocate /\ ~fill_allocate
      /\ miss.state \in {"START", "DONE"}
  BY QuietEdge, StartsOver DEF DataInv, CacheInv, MissInv
<1>3. tag_mem' = tag_mem
  BY <1>1, <1>2, TagPort DEF Acts, CacheInv, TagsRead, TagsCleared, TagsWritten
<1>4. ASSUME tv.req.op # "TAGST", NEW s \in Sets
      PROVE  stat_mem[s].dirty \subseteq stat_mem'[s].dirty
  <2>1. StatMem(ack) /\ stat_mem \in [Sets -> [dirty : SUBSET Ways, lru_bits : SUBSET Nodes]]
    BY DEF ActsOnData, WayInv
  <2>2. CASE tv.req = NoReq
    BY <2>1, <2>2 DEF StatMem
  <2>3. CASE ReadsTags(tv.req)
    <3>1. tv.req.set \in Sets
      BY <2>3, TvRequest DEF CacheInv
    <3>2. CASE Answering(ack)
      <4>1. PICK d : d = IF Writes(tv.req) THEN stat_mem[tv.req.set].dirty \cup tv.hits
                         ELSE stat_mem[tv.req.set].dirty
        OBVIOUS
      <4>2. StatRow(d, Touched(stat_mem[tv.req.set].lru_bits, tag_hit_way_id))
        BY <2>1, <2>3, <3>2, <4>1, StatPort DEF CacheInv
      <4>3. stat_mem[tv.req.set].dirty \subseteq d
        BY <4>1
      <4>4. QED
        BY <2>1, <3>1, <4>2, <4>3 DEF StatRow
    <3>3. CASE ~Answering(ack)
      <4>1. stat_mem' = [stat_mem EXCEPT ![tv.req.set] = stat_mem[tv.req.set]]
        BY <1>2, <2>1, <2>3, <3>3, StatPort DEF CacheInv
      <4>2. QED
        BY <2>1, <3>1, <4>1
    <3>4. QED
      BY <3>2, <3>3
  <2>4. QED
    BY <1>4, <2>2, <2>3, NoRequest DEF CacheInv, TypeInv, IsRequest, ReadsTags, Operations,
                                       Addressed
<1>5. QED
  BY <1>1, <1>3, <1>4

(* Of a clean block all words stay there. *)
LEMMA WholeStays ==
  ASSUME CacheInv, WayInv, DataInv,
         NEW in, NEW ack, NEW takes, NEW gives, NEW gets, Acts(in, ack, takes, gives, gets),
         ActsOnData(in, ack)
  PROVE  CleanIsWhole'
<1>1. setting' = setting /\ (word_tracking_p' <=> word_tracking_p)
  BY DEF Acts, word_tracking_p
<1> SUFFICES ASSUME word_tracking_p, KeepsNoFlushed(setting), Cleared',
                    NEW s \in Sets, NEW w \in Ways,
                    tag_mem'[s][w].valid, w \notin stat_mem'[s].dirty
             PROVE  track_mem'[s][w] = Words
  BY <1>1 DEF CleanIsWhole
<1>2. Cleared /\ tag_mem[s][w].valid /\ w \notin stat_mem[s].dirty => track_mem[s][w] = Words
  BY DEF DataInv, CleanIsWhole
<1>3. CASE miss.state = "START" \/ v_we(ack)
  <2>1. Cleared
    BY SweepGoes
  <2>2. tag_mem' = tag_mem
    BY <1>3, <2>1, QuietRow
  <2>3. tv.req.op # "TAGST"
    BY <2>1, <2>2 DEF DataInv, EarlyInv
  <2>4. track_mem[s][w] = Words
    BY <1>2, <1>3, <2>1, <2>2, <2>3, QuietRow
  <2>5. track_mem[s][w] \subseteq track_mem'[s][w] /\ track_mem' \in [Sets -> [Ways -> SUBSET Words]]
    BY <1>3, EdgeDrains
  <2>6. QED
    BY <2>4, <2>5
<1>4. CASE Handled(ack)
  <2>1. Cleared /\ tv.req.set \in Sets /\ (Allocates => TrackSet) /\ (~Allocates => TrackRead(in))
        /\ ReadsTags(tv.req)
    BY <1>4, HandledEdge
  <2>2. tv.req.op \notin {"AFL", "TAGFL"}
    BY <2>1, TvRequest DEF CacheInv, KeepsNoFlushed
  <2>3. \A t \in Sets, x \in Ways :
          track_mem'[t][x] = IF Allocates /\ t = tv.req.set /\ x = miss.chosen_way
                             THEN IF fill_allocate THEN Words ELSE {} ELSE track_mem[t][x]
    BY <2>1 DEF TrackSet, TrackRead
  <2>4. CASE s # tv.req.set
    <3>1. tag_mem'[s][w] = tag_mem[s][w] /\ stat_mem'[s].dirty = stat_mem[s].dirty
      BY <1>4, <2>4, HandledTags
    <3>2. QED
      BY <1>2, <2>1, <2>3, <2>4, <3>1
  <2>5. CASE s = tv.req.set /\ miss.state = "FLUSH_OP"
    <3>1. PICK v : v = flush_way_n
      OBVIOUS
    <3>2. Flushed = {v} /\ tag_mem[s][w].valid /\ w # v
      BY <1>4, <2>2, <2>5, <3>1, FlushNames
    <3>3. stat_mem'[s].dirty = stat_mem[s].dirty \ {v}
      BY <1>4, <2>5, <3>2, HandledTags
    <3>4. ~Allocates
      BY <2>5 DEF Allocates, st_allocate, fill_allocate
    <3>5. QED
      BY <1>2, <2>1, <2>3, <3>2, <3>3, <3>4
  <2>6. CASE s = tv.req.set /\ miss.state = "LOCK_OP"
    <3>1. ~st_allocate /\ ~fill_allocate /\ miss.state # "FLUSH_OP"
      BY <2>6 DEF st_allocate, fill_allocate
    <3>2. stat_mem'[s].dirty = stat_mem[s].dirty
      BY <1>4, <2>6, <3>1, HandledTags
    <3>3. tag_mem'[s][w] = IF miss_tag_mem_v THEN HandlersTag(w) ELSE tag_mem[s][w]
      BY <1>4, <2>6, HandledTags
    <3>4. tag_mem[s] \in [Ways -> TagInfo]
      BY DEF CacheInv, TypeInv
    <3>5. HandlersTag(w).valid = tag_mem[s][w].valid
      BY <2>6, <3>4 DEF HandlersTag, TagInfo
    <3>6. QED
      BY <1>2, <2>1, <2>3, <3>1, <3>2, <3>3, <3>5 DEF Allocates
  <2>7. CASE s = tv.req.set /\ miss.state \notin {"FLUSH_OP", "LOCK_OP"}
    <3>1. CASE st_allocate \/ fill_allocate
      <4>1. CASE w = miss.chosen_way
        <5>1. fill_allocate
          BY <1>4, <2>7, <3>1, <4>1, HandledTags
        <5>2. QED
          BY <2>3, <2>7, <4>1, <5>1 DEF Allocates
      <4>2. CASE w # miss.chosen_way
        <5>1. tag_mem'[s][w] = tag_mem[s][w]
          <6>1. HandlersTag(w) = tag_mem[s][w]
            BY <2>7, <4>2 DEF HandlersTag
          <6>2. QED
            BY <1>4, <2>7, <6>1, HandledTags
        <5>2. w \notin stat_mem[s].dirty
          BY <1>4, <2>7, <3>1, <4>2, HandledTags DEF Marked
        <5>3. QED
          BY <1>2, <2>1, <2>3, <4>2, <5>1, <5>2
      <4>3. QED
        BY <4>1, <4>2
    <3>2. CASE ~st_allocate /\ ~fill_allocate
      <4>1. ~miss_tag_mem_v /\ ~Allocates
        BY <2>7, <3>2 DEF miss_tag_mem_v, Allocates
      <4>2. tag_mem' = tag_mem /\ stat_mem'[s].dirty = stat_mem[s].dirty
        BY <1>4, <2>7, <3>2, <4>1, HandledTags
      <4>3. QED
        BY <1>2, <2>1, <2>3, <4>1, <4>2
    <3>3. QED
      BY <3>1, <3>2
  <2>8. QED
    BY <2>4, <2>5, <2>6, <2>7
<1>5. QED
  BY <1>3, <1>4 DEF Handled

-----------------------------------------------------------------------------
(* What a miss that is over has achieved: as in OverInv, of one state.     *)
Achieved ==
  /\ Reads(tv.req) => miss.select_snoop_data /\ dma.snoop_word = stored[Place(tv.req)]
  /\ tv.req.op \in {"LD", "ST", "AMO"} => Holds(Asked(0), miss.chosen_way)
  /\ ReadsTrack(tv.req) => Tracked(tbuf, track_mem, Place(tv.req), miss.chosen_way)
  /\ Writes(tv.req) => miss.chosen_way \in stat_mem[tv.req.set].dirty
  /\ tv.req.op = "AINV" => \A w \in Ways : ~Holds(Asked(0), w)

(* It stays so until the answer is taken. *)
LEMMA AchievedRests ==
  ASSUME CacheInv, WayInv, DataInv,
         NEW in, NEW ack, NEW takes, NEW gives, NEW gets, Acts(in, ack, takes, gives, gets),
         ActsOnData(in, ack), Handled(ack), miss.state \in {"RECOVER", "DONE"}
  PROVE  Achieved' /\ miss'.state = "DONE"
<1>1. /\ tv' = tv /\ ~ack /\ setting' = setting /\ stored' = stored /\ Cleared /\ Cleared'
      /\ tbuf = <<>> /\ tbuf' = <<>> /\ (~Allocates => TrackRead(in)) /\ tv.req.set \in Sets
  BY HandledEdge
<1>2. Achieved
  BY DEF DataInv, OverInv, Achieved
<1>3. /\ ~st_allocate /\ ~fill_allocate /\ ~fill_word /\ ~miss_tag_mem_v
  BY DEF st_allocate, fill_allocate, fill_word, miss_tag_mem_v, CacheInv, MissInv
<1>4. /\ miss'.state = "DONE" /\ miss'.chosen_way = miss.chosen_way
      /\ miss.select_snoop_data => miss'.select_snoop_data
      /\ dma'.snoop_word = dma.snoop_word
  <2>1. MissHandler(takes, ack) /\ DmaEngine /\ miss.state \in MissStates
    BY DEF Acts, CacheInv, MissInv
  <2>2. miss'.state = "DONE" /\ miss'.chosen_way = miss.chosen_way
    BY <1>1, <2>1, HandlerMoves, NamesMove
  <2>3. miss'.select_snoop_data = (fill_allocate \/ (miss.select_snoop_data
                                                     /\ ~(miss.state = "DONE" /\ ack)))
    BY <2>1 DEF MissHandler
  <2>5. miss.select_snoop_data => miss'.select_snoop_data
    BY <1>1, <2>3
  <2>6. dma'.snoop_word = dma.snoop_word
    BY <1>3, <2>1 DEF DmaEngine
  <2>7. QED
    BY <2>2, <2>5, <2>6
<1>5. /\ tag_mem' = tag_mem /\ track_mem' = track_mem
      /\ stat_mem'[tv.req.set].dirty = stat_mem[tv.req.set].dirty
  BY <1>1, <1>3, HandledTags DEF Allocates, TrackRead
<1>6. \A p, w : Holds(p, w)' <=> Holds(p, w)
  BY <1>1, <1>4, <1>5 DEF Holds, FlushedOut, Refilled, EvictStates
<1>7. \A p, w : Tracked(tbuf, track_mem, p, w)' <=> Tracked(tbuf, track_mem, p, w)
  BY <1>1, <1>5 DEF Tracked, word_tracking_p
<1>8. Asked(0)' = Asked(0)
  BY <1>1 DEF Asked
<1>9. QED
  BY <1>1, <1>2, <1>4, <1>5, <1>6, <1>7, <1>8 DEF Achieved

-----------------------------------------------------------------------------
(* A flush and a change of a lock. *)
LEMMA FlushAchieves ==
  ASSUME CacheInv, WayInv, DataInv,
         NEW in, NEW ack, NEW takes, NEW gives, NEW gets, Acts(in, ack, takes, gives, gets),
         ActsOnData(in, ack), Handled(ack), miss'.state = "RECOVER",
         \/ miss.state \in {"FLUSH_OP", "LOCK_OP"}
         \/ miss.state = "SEND_EVICT_DATA" /\ goto_flush_op
  PROVE  Achieved'
<1>1. tv' = tv /\ Cleared /\ Cleared' /\ tv.req.set \in Sets /\ ReadsTags(tv.req)
  BY HandledEdge
<1>2. tv.req.op \in {"TAGFL", "AINV", "AFL", "AFLINV", "AUNLOCK", "ALOCK"}
  BY DEF CacheInv, MissInv, goto_flush_op, goto_lock_op
<1>3. ASSUME tv.req.op = "AINV", NEW w \in Ways
      PROVE  ~Holds(Asked(0), w)'
  <2>1. miss.state = "FLUSH_OP"
    BY <1>3 DEF DataInv, EvictData, EvictStates, CacheInv, MissInv, goto_lock_op
  <2>2. PICK v : v = flush_way_n
    OBVIOUS
  <2>3. /\ v \in Ways /\ tv.tags[v].valid /\ tv.tags[v].tag = tv.req.tag
        /\ tag_mem[tv.req.set] = tv.tags
        /\ tag_mem'[tv.req.set][w].tag = tag_mem[tv.req.set][w].tag
        /\ tag_mem'[tv.req.set][w].valid <=> tag_mem[tv.req.set][w].valid /\ w # v
    BY <1>1, <1>3, <2>1, <2>2, FlushNames
  <2>4. Distinct(tv.tags)
    BY <1>1 DEF WayInv
  <2>5. ~(tag_mem'[tv.req.set][w].valid /\ tag_mem'[tv.req.set][w].tag = tv.req.tag)
    BY <2>3, <2>4 DEF Distinct
  <2>6. ~FlushedOut(tv.req.set, w)'
    BY DEF FlushedOut, EvictStates
  <2>7. Asked(0)' = <<tv.req.tag, tv.req.set, 0>>
    BY <1>1 DEF Asked
  <2>8. QED
    BY <1>1, <2>3, <2>5, <2>6, <2>7 DEF Holds
<1>4. QED
  BY <1>1, <1>2, <1>3 DEF Achieved, Reads, Writes, ReadsTrack, partial_st

(* A whole word gets a way. *)
LEMMA AllocationAchieves ==
  ASSUME CacheInv, WayInv, DataInv,
         NEW in, NEW ack, NEW takes, NEW gives, NEW gets, Acts(in, ack, takes, gives, gets),
         ActsOnData(in, ack), Handled(ack), st_allocate
  PROVE  Achieved'
<1>1. tv' = tv /\ Cleared /\ Cleared' /\ tv.req.set \in Sets /\ ReadsTags(tv.req)
  BY HandledEdge
<1>2. PICK v : v = miss.chosen_way
  OBVIOUS
<1>3. /\ miss.state = "STORE_TAG_MISS_ALLOCATE" \/ (miss.state = "SEND_EVICT_DATA" /\ evict_done)
      /\ st_tag_miss_op
  BY DEF st_allocate, CacheInv, MissInv
<1>4. tv.req.op = "ST" /\ tv.req.full /\ ~ReadsTrack(tv.req) /\ ~Reads(tv.req)
  BY <1>3 DEF st_tag_miss_op, ReadsTrack, Reads, partial_st
<1>5. miss'.state = "RECOVER" /\ miss'.chosen_way = v /\ v \in Ways /\ miss_tag_mem_v
      /\ miss.state \notin {"FLUSH_OP", "LOCK_OP"}
  BY <1>2, <1>3, HandlerMoves, NamesMove DEF Acts, CacheInv, MissInv, WayInv, miss_tag_mem_v
<1>6. v \in stat_mem'[tv.req.set].dirty
  BY <1>1, <1>2, <1>5, HandledTags
<1>7. tag_mem'[tv.req.set][v].valid /\ tag_mem'[tv.req.set][v].tag = tv.req.tag
  <2>1. HandlersTag(v) = [valid |-> TRUE, lock |-> tv.req.op = "ALOCK", tag |-> tv.req.tag]
    BY <1>2, <1>5 DEF HandlersTag
  <2>2. tag_mem'[tv.req.set][v] = HandlersTag(v)
    BY <1>1, <1>5, HandledTags
  <2>3. QED
    BY <2>1, <2>2
<1>8. Holds(Asked(0), v)'
  <2>1. ~FlushedOut(tv.req.set, v)' /\ ~Refilled(tv.req.set, v)'
    BY <1>5 DEF FlushedOut, Refilled, EvictStates
  <2>2. Asked(0)' = <<tv.req.tag, tv.req.set, 0>>
    BY <1>1 DEF Asked
  <2>3. QED
    BY <1>1, <1>7, <2>1, <2>2 DEF Holds
<1>9. QED
  BY <1>1, <1>4, <1>5, <1>6, <1>8 DEF Achieved

(* A block comes in, or the words of it that were missing.                 *)
LEMMA FillAchieves ==
  ASSUME CacheInv, WayInv, DataInv, Matched(setting),
         NEW in, NEW ack, NEW takes, NEW gives, NEW gets, Acts(in, ack, takes, gives, gets),
         ActsOnData(in, ack), Handled(ack), fill_allocate
  PROVE  Achieved'
<1>1. /\ tv' = tv /\ Cleared /\ Cleared' /\ tv.req.set \in Sets /\ ReadsTags(tv.req)
      /\ stored' = stored /\ sbuf = <<>> /\ tbuf = <<>> /\ tbuf' = <<>> /\ setting' = setting
      /\ (Allocates => TrackSet)
  BY HandledEdge
<1>2. PICK v : v = miss.chosen_way
  OBVIOUS
<1>3. /\ miss.state = "GET_FILL_DATA" /\ miss'.state = "RECOVER"
      /\ fill_word /\ ~st_allocate /\ miss_tag_mem_v /\ v \in Ways
      /\ tv.req.op \in {"LD", "ST", "AMO", "ALOCK"}
      /\ \A x \in Words : x < Filled \/ x = Filled
      /\ tv.track_miss =>
           /\ word_tracking_p /\ tag_hit_found /\ v = tag_hit_way_id
           /\ ReadsTrack(tv.req) /\ tv.req.word \notin track_mem[tv.req.set][v]
  BY <1>2, LastWord, WordComesIn
<1>4. /\ tv.req \in setting.requests
      /\ tv.req.op \in {"LD", "ST", "AMO"} => tv.req.word \in Words
  BY <1>1, TvRequest DEF CacheInv
<1>5. miss'.chosen_way = v /\ miss'.select_snoop_data
  BY <1>2, <1>3, NamesMove DEF Acts, MissHandler
<1>6. ASSUME Reads(tv.req) PROVE dma'.snoop_word = stored[Place(tv.req)]
  BY <1>3, <1>4, <1>6, SnoopHas DEF Reads
<1>7. tag_mem'[tv.req.set][v].valid /\ tag_mem'[tv.req.set][v].tag = tv.req.tag
  BY <1>1, <1>2, <1>3, HandledTags DEF HandlersTag
<1>8. Holds(Asked(0), v)'
  <2>1. ~FlushedOut(tv.req.set, v)' /\ ~Refilled(tv.req.set, v)'
    BY <1>3 DEF FlushedOut, Refilled, EvictStates
  <2>2. Asked(0)' = <<tv.req.tag, tv.req.set, 0>>
    BY <1>1 DEF Asked
  <2>3. QED
    BY <1>1, <1>7, <2>1, <2>2 DEF Holds
<1>9. ASSUME ReadsTrack(tv.req) PROVE Tracked(tbuf, track_mem, Place(tv.req), v)'
  <2>1. tv.req.word \in Words /\ Place(tv.req)' = <<tv.req.tag, tv.req.set, tv.req.word>>
    BY <1>1, <1>4, <1>9 DEF ReadsTrack, Reads, partial_st, Place
  <2>2. word_tracking_p => track_mem'[tv.req.set][v] = Words
    BY <1>1, <1>2, <1>3 DEF Allocates, TrackSet
  <2>3. word_tracking_p' <=> word_tracking_p
    BY <1>1 DEF word_tracking_p
  <2>4. QED
    BY <2>1, <2>2, <2>3 DEF Tracked
<1>10. ASSUME Writes(tv.req) PROVE v \in stat_mem'[tv.req.set].dirty
  <2>1. stat_mem'[tv.req.set].dirty = Marked(stat_mem[tv.req.set].dirty)
    BY <1>1, <1>3, HandledTags
  <2>2. CASE ~tv.track_miss
    BY <1>2, <1>10, <2>1, <2>2 DEF Marked
  <2>3. CASE tv.track_miss
    <3>1. ~NoPartial(setting)
      BY <1>3, <1>4, <1>10, <2>3 DEF NoPartial
    <3>2. word_tracking_p /\ KeepsNoFlushed(setting)
      BY <1>3, <2>3, <3>1 DEF Matched, word_tracking_p
    <3>3. tag_mem[tv.req.set][v].valid
      <4>1. tv.tags = tag_mem[tv.req.set]
        BY <1>1, <1>3 DEF CacheInv, TagsInv, Unwritten, MissStates, EvictStates
      <4>2. QED
        BY <1>1, <1>3, <2>3, <4>1, HitWay DEF CacheInv
    <3>4. track_mem[tv.req.set][v] # Words
      BY <1>3, <1>4, <1>10, <2>3 DEF Writes
    <3>5. v \in stat_mem[tv.req.set].dirty
      BY <1>1, <1>3, <3>2, <3>3, <3>4 DEF DataInv, CleanIsWhole
    <3>6. QED
      BY <2>1, <2>3, <3>5 DEF Marked
  <2>4. QED
    BY <2>2, <2>3
<1>11. QED
  BY <1>1, <1>3, <1>5, <1>6, <1>8, <1>9, <1>10 DEF Achieved, Place

(* When a miss is over its work is done. *)
LEMMA OverStays ==
  ASSUME CacheInv, WayInv, DataInv, Matched(setting),
         NEW in, NEW ack, NEW takes, NEW gives, NEW gets, Acts(in, ack, takes, gives, gets),
         ActsOnData(in, ack)
  PROVE  OverInv'
<1>1. MissHandler(takes, ack) /\ miss.state \in MissStates
  BY DEF Acts, CacheInv, MissInv
<1>2. miss'.select_snoop_data => miss'.state \in {"RECOVER", "DONE"}
  <2>1. miss'.select_snoop_data =>
          fill_allocate \/ (miss.select_snoop_data /\ ~(miss.state = "DONE" /\ ack))
    BY <1>1 DEF MissHandler
  <2>2. fill_allocate => miss'.state = "RECOVER"
    BY <1>1, HandlerMoves DEF fill_allocate
  <2>3. miss.select_snoop_data => miss.state \in {"RECOVER", "DONE"}
    BY DEF DataInv, OverInv
  <2>4. miss.state = "DONE" /\ ~ack => miss'.state = "DONE"
    BY <1>1, HandlerMoves
  <2>5. miss.state = "RECOVER" => miss'.state = "DONE"
    BY <1>1, HandlerMoves
  <2>6. QED
    BY <2>1, <2>2, <2>3, <2>4, <2>5
<1>3. ASSUME miss'.state \in {"RECOVER", "DONE"} PROVE Achieved'
  <2>1. Handled(ack)
    BY <1>3, QuietEdge DEF Handled, DataInv
  <2>2. CASE miss.state \in {"RECOVER", "DONE"}
    BY <2>1, <2>2, AchievedRests
  <2>3. CASE miss.state \in {"FLUSH_OP", "LOCK_OP"}
    BY <1>1, <1>3, <2>1, <2>3, FlushAchieves, HandlerMoves
  <2>4. CASE st_allocate
    BY <2>1, <2>4, AllocationAchieves
  <2>5. CASE fill_allocate
    BY <2>1, <2>5, FillAchieves
  <2>6. CASE /\ miss.state \notin {"RECOVER", "DONE", "FLUSH_OP", "LOCK_OP"}
             /\ ~st_allocate /\ ~fill_allocate
    <3>1. miss.state \notin {"START", "SEND_FILL_ADDR", "SEND_EVICT_ADDR", "STORE_TAG_MISS",
                             "STORE_TAG_MISS_ALLOCATE", "GET_FILL_DATA"}
      <4>1. miss.state # "STORE_TAG_MISS_ALLOCATE"
        BY <2>6 DEF st_allocate
      <4>2. miss.state # "GET_FILL_DATA"
        BY <1>1, <1>3, <2>6, HandlerMoves DEF fill_allocate
      <4>3. miss.state # "START"
        BY <2>1 DEF Handled
      <4>4. miss.state \notin {"SEND_FILL_ADDR", "SEND_EVICT_ADDR", "STORE_TAG_MISS"}
        BY <1>1, <1>3, HandlerMoves
      <4>5. QED
        BY <4>1, <4>2, <4>3, <4>4
    <3>2. miss.state = "SEND_EVICT_DATA"
      BY <1>1, <2>6, <3>1 DEF MissStates, EvictStates
    <3>3. miss'.state = "RECOVER" /\ goto_flush_op
      BY <1>1, <1>3, <2>6, <3>2, HandlerMoves DEF st_allocate
    <3>4. QED
      BY <2>1, <3>2, <3>3, FlushAchieves
  <2>7. QED
    BY <2>2, <2>3, <2>4, <2>5, <2>6
<1>4. QED
  BY <1>2, <1>3 DEF OverInv, Achieved

-----------------------------------------------------------------------------
(* A block that is coming in is the one that was asked for, and is not on  *)
(* its way out.                                                            *)
LEMMA BurstsStay ==
  ASSUME CacheInv, WayInv, DataInv,
         NEW in, NEW ack, NEW takes, NEW gives, NEW gets, Acts(in, ack, takes, gives, gets),
         ActsOnData(in, ack), Bursting(memory'.reading)
  PROVE  memory'.reading.block = fill_block' /\ memory'.writing.block # fill_block'
<1>1. /\ RowInv /\ Memory(takes, gives, gets) /\ CacheInv
      /\ (takes => TakesPacket) /\ (gives => GivesWord) /\ (gets => TakesWord)
  BY DEF DataInv, Acts
<1>2. tv' = tv => fill_block' = fill_block
  BY DEF fill_block
<1>3. Idle.block # fill_block
  BY DEF Idle, fill_block
<1>4. gets => memory'.writing.block \in {memory.writing.block, Idle.block}
  <2>1. PICK b, c : b = memory.writing /\ c = memory'.writing
    OBVIOUS
  <2>2. gets => /\ b.word = block_size_in_words_p - 1 => c = Idle
                /\ b.word # block_size_in_words_p - 1 =>
                     c = [block |-> b.block, word |-> b.word + 1, mask |-> b.mask]
    BY <1>1, <2>1, WritingMoves
  <2>3. gets => c.block \in {b.block, Idle.block}
    BY <2>2
  <2>4. QED
    BY <2>1, <2>3
<1>5. CASE takes /\ miss.state = "SEND_FILL_ADDR"
  <2>1. tv' = tv
    BY <1>5, StartsOver
  <2>2. memory'.reading.block = fill_block /\ memory.writing.block # fill_block
    <3>1. PICK c : c = memory'.reading
      OBVIOUS
    <3>2. c = [block |-> fill_block, word |-> 0] /\ memory.writing.block # fill_block
      BY <1>1, <1>5, <3>1, ReadingMoves
    <3>3. QED
      BY <3>1, <3>2
  <2>3. memory'.writing.block # fill_block
    <3>1. ~(takes /\ miss.state = "SEND_EVICT_ADDR")
      BY <1>5
    <3>2. ~gets => memory'.writing = memory.writing
      BY <1>1, <3>1, WritingMoves
    <3>3. QED
      BY <1>3, <1>4, <2>2, <3>2
  <2>4. QED
    BY <1>2, <2>1, <2>2, <2>3
<1>6. CASE ~(takes /\ miss.state = "SEND_FILL_ADDR")
  <2>1. /\ Bursting(memory.reading) /\ memory'.reading.block = memory.reading.block
    <3>1. CASE gives
      <4>1. memory.reading.word # block_size_in_words_p - 1
        BY <1>1, <3>1, ReadingMoves DEF Bursting
      <4>2. PICK b, c : b = memory.reading /\ c = memory'.reading
        OBVIOUS
      <4>3. c = [block |-> b.block, word |-> b.word + 1] /\ Bursting(b)
        BY <1>1, <3>1, <4>1, <4>2, ReadingMoves
      <4>4. QED
        BY <4>2, <4>3
    <3>2. CASE ~gives
      BY <1>1, <1>6, <3>2, ReadingMoves
    <3>3. QED
      BY <3>1, <3>2
  <2>2. Filling
    BY <2>1 DEF CacheInv, BurstInv
  <2>3. tv' = tv
    BY <2>2, StartsOver DEF Filling, EvictStates
  <2>4. memory.reading.block = fill_block /\ memory.writing.block # fill_block
    BY <2>1 DEF DataInv, FillData
  <2>5. memory'.writing.block # fill_block
    <3>1. CASE takes /\ miss.state = "SEND_EVICT_ADDR"
      <4>1. memory.reading.block # evict_block
        BY <1>1, <3>1 DEF TakesPacket
      <4>2. memory'.writing.block = evict_block
        BY <1>1, <3>1, WritingMoves
      <4>3. QED
        BY <2>4, <4>1, <4>2
    <3>2. CASE ~(takes /\ miss.state = "SEND_EVICT_ADDR")
      <4>1. ~gets => memory'.writing = memory.writing
        BY <1>1, <3>2, WritingMoves
      <4>2. QED
        BY <1>3, <1>4, <2>4, <4>1
    <3>3. QED
      BY <3>1, <3>2
  <2>6. QED
    BY <1>2, <2>1, <2>3, <2>4, <2>5
<1>7. QED
  BY <1>5, <1>6

(* The queue moves up, and takes the word that memory gives.               *)
LEMMA InFifoWords ==
  ASSUME IsSeq(in_fifo), NEW takes, NEW gives, NEW gets, Memory(takes, gives, gets)
  PROVE  LET gone == IF fill_word THEN 1 ELSE 0
             left == Len(in_fifo) - gone
         IN  /\ left \in Nat
             /\ \A i \in 1 .. left : in_fifo'[i] = in_fifo[i + gone]
             /\ gives => in_fifo'[left + 1] = memory.data[At(memory.reading)]
             /\ Len(in_fifo') = IF gives THEN left + 1 ELSE left
<1>1. PICK q, e : /\ q = IF fill_word THEN Tail(in_fifo) ELSE in_fifo
                  /\ e = memory.data[At(memory.reading)]
  OBVIOUS
<1>2. PICK gone : gone = IF fill_word THEN 1 ELSE 0
  OBVIOUS
<1>3. in_fifo' = q \o (IF gives THEN <<e>> ELSE <<>>)
  BY <1>1 DEF Memory
<1>4. /\ IsSeq(q) /\ Len(q) \in Nat /\ Len(q) = Len(in_fifo) - gone
      /\ \A i \in 1 .. Len(q) : q[i] = in_fifo[i + gone]
  <2>1. CASE fill_word
    <3>1. in_fifo # <<>>
      BY <2>1 DEF fill_word
    <3>2. /\ Len(in_fifo) \in Nat \ {0} /\ Len(Tail(in_fifo)) = Len(in_fifo) - 1
          /\ IsSeq(Tail(in_fifo))
          /\ \A i \in 1 .. Len(in_fifo) - 1 : Tail(in_fifo)[i] = in_fifo[i + 1]
      BY <3>1, TailIs
    <3>3. q = Tail(in_fifo) /\ gone = 1
      BY <1>1, <1>2, <2>1
    <3>4. QED
      BY <3>2, <3>3
  <2>2. CASE ~fill_word
    <3>1. q = in_fifo /\ gone = 0 /\ Len(in_fifo) \in Nat
      BY <1>1, <1>2, <2>2, DomainIs
    <3>2. QED
      BY <3>1
  <2>3. QED
    BY <2>1, <2>2
<1>5. /\ Len(q \o <<e>>) = Len(q) + 1 /\ Len(q \o <<>>) = Len(q)
      /\ \A i \in 1 .. Len(q) : (q \o <<e>>)[i] = q[i] /\ (q \o <<>>)[i] = q[i]
      /\ (q \o <<e>>)[Len(q) + 1] = e
  BY <1>4, SeqMore, BehindIs
<1>6. /\ \A i \in 1 .. Len(q) : in_fifo'[i] = in_fifo[i + gone]
      /\ gives => in_fifo'[Len(q) + 1] = e
      /\ Len(in_fifo') = IF gives THEN Len(q) + 1 ELSE Len(q)
  <2>1. CASE gives
    <3>1. in_fifo' = q \o <<e>>
      BY <1>3, <2>1
    <3>2. QED
      BY <1>4, <1>5, <2>1, <3>1
  <2>2. CASE ~gives
    <3>1. in_fifo' = q \o <<>>
      BY <1>3, <2>2
    <3>2. QED
      BY <1>4, <1>5, <2>2, <3>1
  <2>3. QED
    BY <2>1, <2>2
<1>7. QED
  BY <1>1, <1>2, <1>4, <1>6

-----------------------------------------------------------------------------
(* The word that memory gives is the next of the block, and what was       *)
(* stored there last, unless the way has the word already.                 *)
LEMMA GivenWord ==
  ASSUME CacheInv, WayInv, DataInv, Bursting(memory.reading)
  PROVE  LET x == Filled + Len(in_fifo)
         IN  \/ tv.track_miss /\ x \in dma.track[miss.chosen_way]
             \/ memory.data[At(memory.reading)] = stored[Asked(x)]
<1>1. PICK b : b = memory.reading
  OBVIOUS
<1>2. /\ Filling /\ b.word = Filled + Len(in_fifo)
      /\ b.block = fill_block /\ memory.writing.block # fill_block
      /\ b \in [block : Tags \X Sets, word : Words]
  BY <1>1 DEF CacheInv, BurstInv, DataInv, FillData, RowInv
<1>3. miss.state \in {"GET_FILL_DATA"} \cup EvictStates /\ ~goto_flush_op
  BY <1>2 DEF Filling, CacheInv, MissInv, EvictStates
<1>4. /\ miss_v /\ ReadsTags(tv.req) /\ tv.req.set \in Sets
  BY <1>3, AtWork DEF EvictStates
<1>5. PICK p : p = Asked(b.word)
  OBVIOUS
<1>6. At(b) = p /\ p \in Places /\ p[1] = tv.req.tag /\ p[2] = tv.req.set /\ p[3] = b.word
  <2>1. fill_block \in Tags \X Sets /\ b.word \in Words
    BY <1>2
  <2>2. tv.req.tag \in Tags /\ tv.req.set \in Sets
    BY <2>1 DEF fill_block
  <2>3. At(b) = p
    BY <1>2, <1>5 DEF At, fill_block, Asked
  <2>4. QED
    BY <1>5, <2>1, <2>2, <2>3 DEF Asked, Places
<1>7. InMemory(p) = memory.data[p]
  <2>1. memory.writing.block # <<p[1], p[2]>>
    BY <1>2, <1>6 DEF fill_block
  <2>2. QED
    BY <2>1 DEF InMemory
<1>8. sbuf = <<>> /\ tbuf = <<>>
  BY <1>3 DEF DataInv, WordInv, EvictStates
<1>9. (\A w \in Ways : RamHas(p, w) /\ MemHas(p, w)) /\ NobodyHas(p) /\ ~Void(p)
  BY <1>3, <1>6, <1>8, EmptyWords DEF DataInv, Void, EvictStates
<1>10. CASE ~tv.track_miss
  <2>1. \A w \in Ways : ~Holds(p, w)
    BY <1>3, <1>6, <1>10, AskedNotHeld
  <2>2. InMemory(p) = stored[p]
    BY <1>9, <2>1 DEF NobodyHas
  <2>3. QED
    BY <1>1, <1>2, <1>5, <1>6, <1>7, <2>2
<1>11. CASE tv.track_miss /\ b.word \notin dma.track[miss.chosen_way]
  <2>1. miss.state = "GET_FILL_DATA" /\ tag_hit_found /\ miss.chosen_way = tag_hit_way_id
        /\ miss.chosen_way \in Ways
    BY <1>3, <1>4, <1>11 DEF CacheInv, MissInv, TvInv, tag_hit_found, WayInv
  <2>2. Holds(p, miss.chosen_way)
    BY <1>4, <1>6, <1>11, <2>1, HitHolds
  <2>3. ~There(p, miss.chosen_way)
    <3>1. word_tracking_p
      BY <1>4, <1>11, <2>1 DEF DataInv, TvData, Tracked
    <3>2. dma.track = track_mem[tv.req.set]
      BY <2>1, <3>1 DEF DataInv, CopyInv
    <3>3. QED
      BY <1>6, <1>11, <3>1, <3>2 DEF There
  <2>4. InMemory(p) = stored[p]
    BY <1>9, <2>1, <2>2, <2>3 DEF MemHas
  <2>5. QED
    BY <1>1, <1>2, <1>5, <1>6, <1>7, <2>4
<1>12. QED
  BY <1>1, <1>2, <1>10, <1>11

(* The words of the block on their way in. *)
LEMMA ComingWords ==
  ASSUME CacheInv, WayInv, DataInv,
         NEW in, NEW ack, NEW takes, NEW gives, NEW gets, Acts(in, ack, takes, gives, gets),
         ActsOnData(in, ack), Filling'
  PROVE  \A i \in 1 .. Len(in_fifo') :
           \/ tv'.track_miss /\ Filled' + i - 1 \in dma'.track[miss'.chosen_way]
           \/ in_fifo'[i] = stored'[<<tv'.req.tag, tv'.req.set, Filled' + i - 1>>]
<1>1. IsSeq(in_fifo) /\ Memory(takes, gives, gets) /\ (gives => GivesWord) /\ DmaEngine
  BY DEF CacheInv, BurstInv, Acts
<1>2. CASE takes /\ miss.state = "SEND_FILL_ADDR"
  <2>1. ~Filling
    BY <1>2, FillingMoves
  <2>2. ~Bursting(memory.reading) /\ Len(in_fifo) = 0
    BY <2>1 DEF CacheInv, BurstInv
  <2>3. ~gives /\ ~fill_word
    BY <1>1, <1>2, <2>2 DEF GivesWord, fill_word, CacheInv, MissInv
  <2>4. Len(in_fifo') = 0
    BY <1>1, <2>2, <2>3, InFifoMoves
  <2>5. QED
    BY <2>4
<1>3. CASE ~(takes /\ miss.state = "SEND_FILL_ADDR")
  <2>1. Filling /\ ~fill_done
    BY <1>3, FillingMoves
  <2>2. miss.state \in {"GET_FILL_DATA"} \cup EvictStates
    BY <2>1 DEF Filling
  <2>3. Handled(ack)
    BY <2>2, StartsOver DEF Handled, EvictStates
  <2>4. tv' = tv /\ stored' = stored
    BY <2>3, HandledEdge
  <2>5. miss'.chosen_way = miss.chosen_way
    BY <2>2, NamesMove DEF Acts, EvictStates
  <2>6. dma'.track = dma.track
    <3>1. ~miss.track_data_we
      BY <2>2 DEF DataInv, CopyInv, EvictStates
    <3>2. QED
      BY <1>1, <3>1 DEF DmaEngine
  <2>7. PICK gone : gone = IF fill_word THEN 1 ELSE 0
    OBVIOUS
  <2>8. PICK f, g, left, c :
          f = Filled /\ g = Filled' /\ left = Len(in_fifo) - gone /\ c = in_fifo'
    OBVIOUS
  <2>9. g = f + gone /\ f \in Nat /\ g \in Nat /\ gone \in {0, 1} /\ Len(in_fifo) \in Nat
    <3>1. f \in 0 .. block_size_in_words_p - 1
      BY <1>1, <2>8, CounterMoves
    <3>2. fill_word => Filled' = Filled + 1
      BY <1>1, <2>1, CounterMoves
    <3>3. ~fill_word => Filled' = Filled
      BY <1>1, CounterMoves
    <3>4. Len(in_fifo) \in Nat
      BY <1>1, DomainIs
    <3>5. CASE fill_word
      <4>1. g = f + 1 /\ gone = 1
        BY <2>7, <2>8, <3>2, <3>5
      <4>2. QED
        BY <3>1, <3>4, <4>1
    <3>6. CASE ~fill_word
      <4>1. g = f /\ gone = 0
        BY <2>7, <2>8, <3>3, <3>6
      <4>2. QED
        BY <3>1, <3>4, <4>1
    <3>7. QED
      BY <3>5, <3>6
  <2>10. /\ left \in Nat
         /\ \A i \in 1 .. left : c[i] = in_fifo[i + gone]
         /\ gives => c[left + 1] = memory.data[At(memory.reading)]
         /\ Len(c) = IF gives THEN left + 1 ELSE left
    BY <1>1, <2>7, <2>8, InFifoWords
  <2>11. \A i \in 1 .. Len(in_fifo) :
           \/ tv.track_miss /\ f + i - 1 \in dma.track[miss.chosen_way]
           \/ in_fifo[i] = stored[Asked(f + i - 1)]
    BY <2>1, <2>8 DEF DataInv, FillData
  <2>12. gives => \/ tv.track_miss /\ f + Len(in_fifo) \in dma.track[miss.chosen_way]
                  \/ memory.data[At(memory.reading)] = stored[Asked(f + Len(in_fifo))]
    BY <1>1, <2>1, <2>8, GivenWord DEF GivesWord
  <2>13. ASSUME NEW i \in 1 .. Len(c)
         PROVE  \/ tv.track_miss /\ g + i - 1 \in dma.track[miss.chosen_way]
                \/ c[i] = stored[Asked(g + i - 1)]
    <3>1. CASE i \in 1 .. left
      <4>1. i + gone \in 1 .. Len(in_fifo) /\ f + (i + gone) - 1 = g + i - 1
        BY <2>8, <2>9, <2>10, <3>1
      <4>2. QED
        BY <2>10, <2>11, <3>1, <4>1
    <3>2. CASE i \notin 1 .. left
      <4>1. gives /\ i = left + 1 /\ f + Len(in_fifo) = g + i - 1
        BY <2>8, <2>9, <2>10, <3>2
      <4>2. QED
        BY <2>10, <2>12, <4>1
    <3>3. QED
      BY <3>1, <3>2
  <2>14. QED
    BY <2>4, <2>5, <2>6, <2>8, <2>13 DEF Asked
<1>4. QED
  BY <1>2, <1>3

-----------------------------------------------------------------------------
(* The words of the block that have come in. *)
LEMMA ComeWords ==
  ASSUME CacheInv, WayInv, DataInv,
         NEW in, NEW ack, NEW takes, NEW gives, NEW gets, Acts(in, ack, takes, gives, gets),
         ActsOnData(in, ack), miss'.state = "GET_FILL_DATA"
  PROVE  /\ \A x \in Words : x < Filled' =>
              data_mem'[tv'.req.set][x][miss'.chosen_way] = stored'[<<tv'.req.tag, tv'.req.set, x>>]
         /\ Reads(tv'.req) /\ tv'.req.word < Filled' =>
              dma'.snoop_word = stored'[Place(tv'.req)]
<1>1. MissHandler(takes, ack) /\ DmaEngine /\ miss.state \in MissStates
  BY DEF Acts, CacheInv, MissInv
<1>2. Handled(ack)
  BY QuietEdge DEF Handled, DataInv
<1>3. tv' = tv /\ stored' = stored /\ ReadsTags(tv.req) /\ tv.req.set \in Sets
  BY <1>2, HandledEdge
<1>4. Reads(tv.req) => tv.req.word \in Words
  BY <1>3, TvRequest DEF CacheInv, Reads
<1>5. CASE miss.state # "GET_FILL_DATA"
  <2>1. dma.state # "GET_FILL_DATA"
    BY <1>5 DEF CacheInv, MissInv
  <2>2. Filled = 0 /\ ~fill_word
    BY <2>1 DEF Filled, fill_word
  <2>3. Filled' = 0
    BY <1>1, <2>2, CounterMoves
  <2>4. \A x \in Words : ~(x < 0)
    BY DEF Words
  <2>5. QED
    BY <1>3, <1>4, <2>3, <2>4
<1>6. CASE miss.state = "GET_FILL_DATA"
  <2>1. ~fill_done
    BY <1>1, <1>6, HandlerMoves
  <2>2. miss'.chosen_way = miss.chosen_way
    BY <1>1, <1>6, NamesMove
  <2>3. PICK f, g : f = Filled /\ g = Filled'
    OBVIOUS
  <2>4. CASE fill_word
    <3>1. g = f + 1 /\ f \in 0 .. block_size_in_words_p - 1
      <4>1. Filled' = Filled + 1 /\ Filled \in 0 .. block_size_in_words_p - 1
        BY <1>1, <2>1, <2>4, CounterMoves
      <4>2. QED
        BY <2>3, <4>1
    <3>2. \A x \in Words : x < g => x < f \/ x = f
      BY <3>1 DEF Words
    <3>3. tv.req.tag \in Tags
      BY <1>2, <2>4, WordComesIn
    <3>4. ASSUME NEW x \in Words, x < g
          PROVE  data_mem'[tv.req.set][x][miss.chosen_way] = stored[<<tv.req.tag, tv.req.set, x>>]
      <4>1. PICK p : p = <<tv.req.tag, tv.req.set, x>>
        OBVIOUS
      <4>2. p \in Places /\ p[1] = tv.req.tag /\ p[2] = tv.req.set /\ p[3] = x
        BY <1>3, <3>3, <4>1 DEF Places
      <4>3. p[3] < Filled \/ p[3] = Filled
        BY <2>3, <3>2, <3>4, <4>2
      <4>4. data_mem'[p[2]][p[3]][miss.chosen_way] = stored[p]
        BY <1>2, <2>4, <4>2, <4>3, FilledHas
      <4>5. QED
        BY <4>1, <4>2, <4>4
    <3>5. ASSUME Reads(tv.req), tv.req.word < g
          PROVE  dma'.snoop_word = stored[Place(tv.req)]
      <4>1. tv.req.word < Filled \/ tv.req.word = Filled
        BY <1>4, <2>3, <3>2, <3>5
      <4>2. QED
        BY <1>2, <2>4, <3>5, <4>1, SnoopHas
    <3>6. QED
      BY <1>3, <2>2, <2>3, <3>4, <3>5 DEF Place
  <2>5. CASE ~fill_word
    <3>1. g = f
      BY <1>1, <2>3, <2>5, CounterMoves
    <3>2. data_mem' = data_mem /\ dma'.snoop_word = dma.snoop_word
      BY <1>1, <1>2, <2>5, HandledEdge DEF DataRead, DmaEngine
    <3>3. /\ \A x \in Words : x < f => data_mem[tv.req.set][x][miss.chosen_way] = stored[Asked(x)]
          /\ Reads(tv.req) /\ tv.req.word < f => dma.snoop_word = stored[Place(tv.req)]
      BY <1>6, <2>3 DEF DataInv, FillData
    <3>4. QED
      BY <1>3, <2>2, <2>3, <3>1, <3>2, <3>3 DEF Asked, Place
  <2>6. QED
    BY <2>4, <2>5
<1>7. QED
  BY <1>5, <1>6

(* Nothing of a block is mistaken as it comes in. *)
LEMMA FillDataStays ==
  ASSUME CacheInv, WayInv, DataInv,
         NEW in, NEW ack, NEW takes, NEW gives, NEW gets, Acts(in, ack, takes, gives, gets),
         ActsOnData(in, ack)
  PROVE  FillData'
<1>1. Bursting(memory.reading)' =>
        memory'.reading.block = fill_block' /\ memory'.writing.block # fill_block'
  BY BurstsStay DEF Bursting
<1>2. Filling' => \A i \in 1 .. Len(in_fifo') :
           \/ tv'.track_miss /\ Filled' + i - 1 \in dma'.track[miss'.chosen_way]
           \/ in_fifo'[i] = stored'[<<tv'.req.tag, tv'.req.set, Filled' + i - 1>>]
  BY ComingWords
<1>3. miss'.state = "GET_FILL_DATA" =>
        /\ \A x \in Words : x < Filled' =>
             data_mem'[tv'.req.set][x][miss'.chosen_way] = stored'[<<tv'.req.tag, tv'.req.set, x>>]
        /\ Reads(tv'.req) /\ tv'.req.word < Filled' =>
             dma'.snoop_word = stored'[Place(tv'.req)]
  BY ComeWords
<1>4. QED
  BY <1>1, <1>2, <1>3 DEF FillData, Asked, Words

-----------------------------------------------------------------------------
(* The block that is to be evicted is in the way, and worth it.            *)
LEMMA EvictedNames ==
  ASSUME CacheInv, WayInv, DataInv,
         NEW in, NEW ack, NEW takes, NEW gives, NEW gets, Acts(in, ack, takes, gives, gets),
         ActsOnData(in, ack), miss'.state \in EvictStates
  PROVE  /\ tag_mem'[tv'.req.set][dma_way'].tag = tv'.tags[dma_way'].tag
         /\ ~goto_flush_op' => tv'.tags[miss'.chosen_way].valid
         /\ tv'.req.op # "AINV"
         /\ miss.state \in EvictStates => dma_way' = dma_way
         /\ Handled(ack) /\ tv' = tv
<1>1. MissHandler(takes, ack) /\ miss.state \in MissStates
  BY DEF Acts, CacheInv, MissInv
<1>2. Handled(ack)
  BY QuietEdge DEF Handled, DataInv, EvictStates
<1>3. tv' = tv /\ (goto_flush_op' <=> goto_flush_op) /\ tv.req.set \in Sets /\ ReadsTags(tv.req)
  BY <1>2, HandledEdge DEF goto_flush_op
<1>4. ~st_allocate /\ ~fill_allocate
  BY <1>2, NotYetWritten DEF EvictStates
<1>5. PICK v, u : v = miss'.chosen_way /\ u = miss'.flush_way
  OBVIOUS
<1>6. dma_way' = IF goto_flush_op THEN u ELSE v
  BY <1>3, <1>5 DEF dma_way
<1>7. miss.state \in EvictStates \cup {"SEND_FILL_ADDR", "STORE_TAG_MISS", "FLUSH_OP"}
  BY <1>1, <1>2, HandlerMoves DEF Handled, MissStates, EvictStates
<1>8. miss'.state = miss_state_n(takes, ack) /\ v = chosen_way_n
  BY <1>1, <1>5 DEF MissHandler
<1>9. CASE miss.state \in EvictStates
  <2>1. ~miss_tag_mem_v
    BY <1>4, <1>9 DEF miss_tag_mem_v, EvictStates
  <2>2. tag_mem' = tag_mem
    BY <1>2, <2>1, HandledTags
  <2>3. v = miss.chosen_way /\ u = miss.flush_way
    BY <1>1, <1>5, <1>9, NamesMove DEF EvictStates
  <2>4. dma_way' = dma_way
    BY <1>6, <2>3 DEF dma_way
  <2>5. QED
    BY <1>2, <1>3, <1>5, <1>9, <2>2, <2>3, <2>4 DEF DataInv, EvictData
<1>10. CASE miss.state \in {"SEND_FILL_ADDR", "STORE_TAG_MISS"}
  <2>1. ~miss_tag_mem_v /\ ~goto_flush_op
    BY <1>4, <1>10 DEF miss_tag_mem_v, CacheInv, MissInv, st_tag_miss_op, goto_flush_op
  <2>2. tag_mem' = tag_mem
    BY <1>2, <2>1, HandledTags
  <2>3. tv.tags = tag_mem[tv.req.set]
    BY <1>3, <1>10 DEF CacheInv, TagsInv, Unwritten, MissStates, EvictStates
  <2>4. dirty_and_valid(v)
    <3>1. CASE miss.state = "SEND_FILL_ADDR"
      BY <1>8, <3>1 DEF miss_state_n, EvictStates
    <3>2. CASE miss.state = "STORE_TAG_MISS"
      BY <1>8, <3>2 DEF miss_state_n, EvictStates
    <3>3. QED
      BY <1>10, <3>1, <3>2
  <2>5. tv.req.op # "AINV"
    BY <2>1 DEF goto_flush_op
  <2>6. QED
    BY <1>2, <1>3, <1>5, <1>10, <2>2, <2>3, <2>4, <2>5 DEF dirty_and_valid, EvictStates
<1>11. CASE miss.state = "FLUSH_OP"
  <2>1. u = flush_way_n
    BY <1>1, <1>5 DEF MissHandler
  <2>2. /\ u \in Ways /\ tag_mem[tv.req.set] = tv.tags
        /\ tag_mem'[tv.req.set][u].tag = tag_mem[tv.req.set][u].tag
        /\ tv.req.op # "AINV"
    BY <1>2, <1>3, <1>11, <2>1, FlushNames DEF EvictStates
  <2>3. goto_flush_op
    BY <1>11 DEF CacheInv, MissInv
  <2>4. QED
    BY <1>2, <1>3, <1>6, <1>11, <2>2, <2>3 DEF EvictStates
<1>12. QED
  BY <1>7, <1>9, <1>10, <1>11

(* A way that a store takes without an eviction holds nothing to evict.     *)
LEMMA NothingToEvict ==
  ASSUME CacheInv, WayInv, DataInv,
         NEW in, NEW ack, NEW takes, NEW gives, NEW gets, Acts(in, ack, takes, gives, gets),
         ActsOnData(in, ack), miss'.state = "STORE_TAG_MISS_ALLOCATE"
  PROVE  ~(tv'.tags[miss'.chosen_way].valid
           /\ miss'.chosen_way \in stat_mem'[tv'.req.set].dirty)
<1>1. MissHandler(takes, ack) /\ miss.state \in MissStates
  BY DEF Acts, CacheInv, MissInv
<1>2. Handled(ack)
  BY QuietEdge DEF Handled, DataInv
<1>3. tv' = tv
  BY <1>2, HandledEdge
<1>4. miss.state = "STORE_TAG_MISS"
  BY <1>1, <1>2, HandlerMoves DEF Handled, MissStates, EvictStates
<1>5. PICK v : v = miss'.chosen_way
  OBVIOUS
<1>6. miss'.state = miss_state_n(takes, ack) /\ v = chosen_way_n
  BY <1>1, <1>5 DEF MissHandler
<1>7. ~dirty_and_valid(v)
  BY <1>4, <1>6 DEF miss_state_n
<1>8. stat_mem'[tv.req.set].dirty = stat_mem[tv.req.set].dirty /\ stat_mem_data_lo = stat_mem[tv.req.set]
  BY <1>2, <1>4, NotYetWritten DEF WayInv
<1>9. QED
  BY <1>3, <1>5, <1>7, <1>8 DEF dirty_and_valid

-----------------------------------------------------------------------------
(* The burst that memory writes is that of the block, and of those words   *)
(* of it that the way has.                                                 *)
LEMMA EvictedBurst ==
  ASSUME CacheInv, WayInv, DataInv,
         NEW in, NEW ack, NEW takes, NEW gives, NEW gets, Acts(in, ack, takes, gives, gets),
         ActsOnData(in, ack), miss'.state = "SEND_EVICT_DATA"
  PROVE  /\ memory'.writing.block = evict_block'
         /\ memory'.writing.mask = IF word_tracking_p' THEN dma'.track[dma_way'] ELSE Words
         /\ miss.state = "SEND_EVICT_DATA" => memory'.writing.mask = memory.writing.mask
         /\ miss.state \in EvictStates /\ dma_way' = dma_way /\ Handled(ack) /\ tv' = tv
         /\ miss.state # "SEND_EVICT_DATA" => Sent' = 0
<1>1. /\ RowInv /\ Memory(takes, gives, gets) /\ MissHandler(takes, ack) /\ DmaEngine
      /\ (takes => TakesPacket) /\ (gets => TakesWord) /\ miss.state \in MissStates
  BY DEF DataInv, Acts, CacheInv, MissInv
<1>2. Handled(ack) /\ tv' = tv
  BY EvictedNames DEF EvictStates
<1>3. miss.state \in EvictStates
  BY <1>1, <1>2, HandlerMoves DEF Handled, MissStates, EvictStates
<1>4. dma_way' = dma_way /\ evict_block' = evict_block
  <2>1. dma_way' = dma_way
    BY <1>3, EvictedNames DEF EvictStates
  <2>2. QED
    BY <1>2, <2>1 DEF evict_block
<1>5. dma'.track = dma.track /\ (word_tracking_p' <=> word_tracking_p)
  BY <1>1, <1>3 DEF DataInv, CopyInv, EvictStates, DmaEngine, Acts, word_tracking_p
<1>6. PICK b, c : b = memory.writing /\ c = memory'.writing
  OBVIOUS
<1>7. CASE miss.state = "SEND_EVICT_ADDR"
  <2>1. takes
    BY <1>1, <1>7, HandlerMoves
  <2>2. c = [block |-> evict_block, word |-> 0,
             mask |-> IF word_tracking_p THEN dma.track[dma_way] ELSE Words]
    BY <1>1, <1>6, <1>7, <2>1, WritingMoves
  <2>3. c.block = evict_block /\ c.mask = IF word_tracking_p THEN dma.track[dma_way] ELSE Words
    BY <2>2
  <2>4. Sent' = 0
    <3>1. dma.state # "SEND_EVICT_DATA"
      BY <1>7 DEF CacheInv, MissInv
    <3>2. Sent = 0 /\ ~evict_word
      BY <3>1 DEF Sent, evict_word
    <3>3. QED
      BY <1>1, <3>2, CounterMoves
  <2>5. QED
    BY <1>2, <1>3, <1>4, <1>5, <1>6, <1>7, <2>3, <2>4
<1>8. CASE miss.state = "SEND_EVICT_DATA"
  <2>1. b.block = evict_block /\ b.mask = IF word_tracking_p THEN dma.track[dma_way] ELSE Words
    BY <1>6, <1>8 DEF DataInv, EvictData
  <2>2. c.block = b.block /\ c.mask = b.mask
    <3>1. CASE gets
      <4>1. Bursting(c)
        BY <1>6, EvictionStays DEF Bursting
      <4>2. /\ b.word = block_size_in_words_p - 1 => c = Idle
            /\ b.word # block_size_in_words_p - 1 =>
                 c = [block |-> b.block, word |-> b.word + 1, mask |-> b.mask]
        BY <1>1, <1>6, <3>1, WritingMoves
      <4>3. c = [block |-> b.block, word |-> b.word + 1, mask |-> b.mask]
        BY <4>1, <4>2 DEF Bursting
      <4>4. QED
        BY <4>3
    <3>2. CASE ~gets
      BY <1>1, <1>6, <1>8, <3>2, WritingMoves
    <3>3. QED
      BY <3>1, <3>2
  <2>3. QED
    BY <1>2, <1>3, <1>4, <1>5, <1>6, <1>8, <2>1, <2>2
<1>9. QED
  BY <1>3, <1>7, <1>8 DEF EvictStates

(* The words that have left are in memory or on their way there.           *)
LEMMA GoneWords ==
  ASSUME CacheInv, WayInv, DataInv,
         NEW in, NEW ack, NEW takes, NEW gives, NEW gets, Acts(in, ack, takes, gives, gets),
         ActsOnData(in, ack), miss'.state = "SEND_EVICT_DATA",
         NEW x \in memory'.writing.mask, x < Sent'
  PROVE  InMemory(Evicted(x))' = stored'[Evicted(x)']
<1>1. DmaEngine /\ Handled(ack) /\ tv' = tv /\ dma_way' = dma_way /\ miss.state \in EvictStates
  BY EvictedBurst DEF Acts
<1>2. stored' = stored
  BY <1>1, HandledEdge
<1>3. x \in Words
  <2>1. memory'.writing \in [block : Tags \X Sets, word : Words, mask : SUBSET Words]
    BY BurstsNamed, EvictionStays DEF Bursting
  <2>2. QED
    BY <2>1
<1>4. ~(x < 0)
  BY <1>3 DEF Words
<1>5. miss.state = "SEND_EVICT_DATA" /\ x \in memory.writing.mask
  BY <1>4, EvictedBurst
<1>6. PICK p : p = Evicted(x)
  OBVIOUS
<1>7. p \in Places /\ Evicted(x)' = p
  BY <1>1, <1>3, <1>6, EvictedHeld DEF Evicted
<1>8. InMemory(p)' = stored[p]
  <2>1. PICK m, n : m = Sent /\ n = Sent'
    OBVIOUS
  <2>2. CASE evict_word
    <3>1. ~evict_done
      BY <1>5, HandlerMoves DEF Acts, CacheInv, MissInv
    <3>2. n = m + 1 /\ m \in 0 .. block_size_in_words_p - 1
      <4>1. Sent' = Sent + 1 /\ Sent \in 0 .. block_size_in_words_p - 1
        BY <1>1, <2>2, <3>1, CounterMoves
      <4>2. QED
        BY <2>1, <4>1
    <3>3. x <= m
      BY <1>3, <2>1, <3>2 DEF Words
    <3>4. QED
      BY <1>1, <1>3, <1>6, <1>7, <2>1, <2>2, <3>3, WordsGoOut
  <2>3. CASE ~evict_word
    <3>1. n = m
      BY <1>1, <2>1, <2>3, CounterMoves
    <3>2. InMemory(p) = stored[p]
      BY <1>5, <1>6, <2>1, <3>1 DEF DataInv, EvictData
    <3>3. QED
      BY <1>1, <1>7, <2>3, <3>2, WordsGoOut
  <2>4. QED
    BY <2>2, <2>3
<1>9. InMemory(Evicted(x))' = InMemory(p)'
  BY <1>7 DEF InMemory
<1>10. QED
  BY <1>2, <1>7, <1>8, <1>9

(* The word that is to leave next has been read from the data RAM.         *)
LEMMA NextWordRead ==
  ASSUME CacheInv, WayInv, DataInv,
         NEW in, NEW ack, NEW takes, NEW gives, NEW gets, Acts(in, ack, takes, gives, gets),
         ActsOnData(in, ack), dma'.state = "SEND_EVICT_DATA", Sent' \in memory'.writing.mask
  PROVE  data_mem_data_lo'[dma_way'] = data_mem'[tv'.req.set][Sent'][dma_way']
<1>1. /\ DmaEngine /\ MissHandler(takes, ack) /\ miss.state \in MissStates /\ Entering(in, ack)
      /\ MissInv
  BY DEF Acts, CacheInv, MissInv
<1>2. miss.state = "SEND_EVICT_DATA" /\ ~evict_done
  BY <1>1, EngineMoves DEF CacheInv, MissInv
<1>3. miss'.state = "SEND_EVICT_DATA"
  BY <1>1, <1>2, HandlerMoves
<1>4. /\ dma_way' = dma_way /\ Handled(ack) /\ tv' = tv
      /\ memory'.writing.mask = memory.writing.mask
  BY <1>2, <1>3, EvictedBurst
<1>5. memory.writing.mask = IF word_tracking_p THEN dma.track[dma_way] ELSE Words
  BY <1>2 DEF DataInv, EvictData
<1>6. ~fill_word /\ DataRead(in) /\ ~recover
  <2>1. ~fill_word /\ ~recover
    BY <1>2 DEF fill_word, recover, CacheInv, MissInv
  <2>2. QED
    BY <1>4, <2>1, HandledEdge
<1>7. CASE dma.state = "IDLE"
  <2>1. dma.counter = 0 /\ Sent = 0 /\ ~evict_word
    BY <1>7 DEF DataInv, CopyInv, Sent, evict_word
  <2>2. Sent' = 0
    BY <1>1, <2>1, CounterMoves
  <2>3. evict_read
    BY <1>2, <1>4, <1>5, <1>7, <2>1, <2>2 DEF evict_read
  <2>4. QED
    BY <1>4, <1>6, <2>1, <2>2, <2>3 DEF DataRead
<1>8. CASE dma.state = "SEND_EVICT_DATA" /\ evict_word
  <2>1. Sent' = dma.counter
    <3>1. Sent' = Sent + 1
      BY <1>1, <1>2, <1>8, CounterMoves
    <3>2. Sent = dma.counter - 1 /\ dma.counter \in 1 .. block_size_in_words_p
      BY <1>8 DEF Sent, CacheInv, BurstInv
    <3>3. QED
      BY <3>1, <3>2
  <2>2. evict_read
    BY <1>2, <1>4, <1>5, <1>8, <2>1 DEF evict_read
  <2>3. QED
    BY <1>4, <1>6, <2>1, <2>2 DEF DataRead
<1>9. CASE dma.state = "SEND_EVICT_DATA" /\ ~evict_word
  <2>1. Sent' = Sent
    BY <1>1, <1>9, CounterMoves
  <2>2. ~evict_read
    BY <1>9 DEF evict_read
  <2>3. in = NoReq /\ ~Reads(in)
    BY <1>1, <1>4, <1>9, HandledEdge, NoRequest DEF Entering, dma_evict_o, Reads
  <2>4. data_mem' = data_mem /\ data_mem_data_lo' = data_mem_data_lo
    BY <1>6, <2>2, <2>3 DEF DataRead
  <2>5. data_mem_data_lo[dma_way] = data_mem[tv.req.set][Sent][dma_way]
    BY <1>4, <1>9, <2>1 DEF DataInv, EvictData
  <2>6. QED
    BY <1>4, <2>1, <2>4, <2>5
<1>10. dma.state \in {"IDLE", "SEND_EVICT_DATA"}
  BY <1>1, <1>2 DEF MissInv
<1>11. QED
  BY <1>7, <1>8, <1>9, <1>10

(* Nothing of a block is lost as it leaves. *)
LEMMA EvictDataStays ==
  ASSUME CacheInv, WayInv, DataInv,
         NEW in, NEW ack, NEW takes, NEW gives, NEW gets, Acts(in, ack, takes, gives, gets),
         ActsOnData(in, ack)
  PROVE  EvictData'
<1>1. miss'.state \in EvictStates =>
        /\ tag_mem'[tv'.req.set][dma_way'].tag = tv'.tags[dma_way'].tag
        /\ ~goto_flush_op' => tv'.tags[miss'.chosen_way].valid
        /\ tv'.req.op # "AINV"
  BY EvictedNames
<1>2. miss'.state = "STORE_TAG_MISS_ALLOCATE" =>
        ~(tv'.tags[miss'.chosen_way].valid /\ miss'.chosen_way \in stat_mem'[tv'.req.set].dirty)
  BY NothingToEvict
<1>3. miss'.state = "SEND_EVICT_DATA" =>
        /\ memory'.writing.block = evict_block'
        /\ memory'.writing.mask = IF word_tracking_p' THEN dma'.track[dma_way'] ELSE Words
  BY EvictedBurst
<1>4. miss'.state = "SEND_EVICT_DATA" =>
        \A x \in memory'.writing.mask : x < Sent' => InMemory(Evicted(x))' = stored'[Evicted(x)']
  BY GoneWords
<1>5. dma'.state = "SEND_EVICT_DATA" /\ Sent' \in memory'.writing.mask =>
        data_mem_data_lo'[dma_way'] = data_mem'[tv'.req.set][Sent'][dma_way']
  BY NextWordRead
<1>6. QED
  BY <1>1, <1>2, <1>3, <1>4, <1>5 DEF EvictData

-----------------------------------------------------------------------------
(* No byte has been stored when the client begins. *)
LEMMA DataBegins == Init => DataInv
<1> SUFFICES ASSUME Init PROVE DataInv
  OBVIOUS
<1>1. sets_p \in Nat \ {0} /\ ways_p \in Nat \ {0} /\ block_size_in_words_p \in Nat \ {0}
  BY CacheAssumption
<1>2. ~Cleared
  <2>1. sets_p * ways_p \in Nat \ {0}
    BY <1>1
  <2>2. QED
    BY <2>1 DEF Init, Cleared
<1>3. /\ tl = NoReq /\ tv.req = NoReq /\ ~tv.miss /\ sbuf = <<>> /\ tbuf = <<>>
      /\ miss.state = "START" /\ dma.state = "IDLE" /\ dma.counter = 0
      /\ ~miss.select_snoop_data /\ ~miss.track_data_we
      /\ memory.data = InitialMemory /\ stored = InitialMemory
      /\ memory.reading = Idle /\ memory.writing = Idle
  BY NoRequest DEF Init
<1>4. /\ ~ReadsTags(NoReq) /\ ~Reads(NoReq) /\ ~Writes(NoReq) /\ ~ReadsTrack(NoReq)
      /\ NoReq.op = "none"
  BY NoRequest DEF Reads, Writes, ReadsTrack, partial_st, NoReq
<1>5. \A p, w : ~Holds(p, w)
  BY <1>2 DEF Holds
<1>6. WordInv
  <2>1. Coherent(sbuf, tbuf, data_mem, track_mem, stat_mem, stored)
    BY <1>3, <1>5, CoherentNone
  <2>2. \A p \in Places : InMemory(p) = stored[p]
    <3>1. \A p : memory.writing.block # <<p[1], p[2]>>
      BY <1>3 DEF Idle
    <3>2. QED
      BY <1>3, <3>1 DEF InMemory
  <2>3. QED
    BY <1>3, <2>1, <2>2 DEF WordInv, Elsewhere
<1>7. CleanIsWhole
  BY <1>2 DEF CleanIsWhole
<1>8. EarlyInv
  BY <1>2, <1>3, <1>4 DEF EarlyInv
<1>9. RowInv
  <2>1. data_mem = [s \in Sets |-> [x \in Words |-> [w \in Ways |-> Unknown]]]
    BY DEF Init
  <2>2. track_mem = [s \in Sets |-> [w \in Ways |-> Words]]
        /\ track_mem_data_lo = [w \in Ways |-> Words]
    BY DEF Init
  <2>3. track_mem \in [Sets -> [Ways -> SUBSET Words]]
    BY <2>2
  <2>4. ~Bursting(memory.reading) /\ ~Bursting(memory.writing)
    BY <1>3 DEF Bursting
  <2>5. DOMAIN memory.data = Places /\ DOMAIN stored = Places
    BY <1>3, CacheAssumption
  <2>6. QED
    BY <1>3, <2>1, <2>2, <2>3, <2>4, <2>5 DEF RowInv
<1>10. TlData
  BY <1>3, <1>4 DEF TlData
<1>11. TvData
  BY <1>3, <1>4 DEF TvData
<1>12. CopyInv
  BY <1>3 DEF CopyInv
<1>13. FillData
  BY <1>3 DEF FillData, Filling, EvictStates, Bursting
<1>14. EvictData
  BY <1>3 DEF EvictData, EvictStates
<1>15. OverInv
  BY <1>3 DEF OverInv
<1>16. QED
  BY <1>6, <1>7, <1>8, <1>9, <1>10, <1>11, <1>12, <1>13, <1>14, <1>15 DEF DataInv

(* It depends on nothing but the variables. *)
LEMMA DataRests ==
  ASSUME DataInv, UNCHANGED vars
  PROVE  DataInv'
<1>1. /\ setting' = setting /\ swept' = swept /\ tl' = tl /\ tv' = tv
      /\ tag_mem' = tag_mem /\ data_mem' = data_mem /\ track_mem' = track_mem
      /\ stat_mem' = stat_mem /\ tag_mem_data_lo' = tag_mem_data_lo
      /\ data_mem_data_lo' = data_mem_data_lo /\ track_mem_data_lo' = track_mem_data_lo
      /\ sbuf' = sbuf /\ tbuf' = tbuf /\ miss' = miss /\ dma' = dma
      /\ in_fifo' = in_fifo /\ out_fifo' = out_fifo /\ memory' = memory /\ stored' = stored
  BY DEF vars, pipeline, rams, outputs
<1>2. /\ (Cleared' <=> Cleared) /\ (word_tracking_p' <=> word_tracking_p)
      /\ (goto_flush_op' <=> goto_flush_op) /\ (Filling' <=> Filling)
      /\ Filled' = Filled /\ Sent' = Sent /\ dma_way' = dma_way
      /\ fill_block' = fill_block /\ tag_hit_way_id' = tag_hit_way_id /\ (miss_v' <=> miss_v)
  BY <1>1 DEF Cleared, word_tracking_p, goto_flush_op, Filling, st_tag_miss_op, tag_hit_found,
              Filled, Sent, dma_way, fill_block, tag_hit_way_id, miss_v
<1>3. evict_block' = evict_block
  BY <1>1, <1>2 DEF evict_block
<1>4. /\ \A s, w : (FlushedOut(s, w)' <=> FlushedOut(s, w)) /\ (Refilled(s, w)' <=> Refilled(s, w))
      /\ \A p, w : Holds(p, w)' <=> Holds(p, w)
  BY <1>1, <1>2 DEF Holds, FlushedOut, Refilled
<1>5. /\ \A p : InMemory(p)' = InMemory(p) /\ (Void(p)' <=> Void(p))
      /\ \A p, w : Tracked(tbuf, track_mem, p, w)' <=> Tracked(tbuf, track_mem, p, w)
      /\ \A p, w : Clean(stat_mem, p, w)' <=> Clean(stat_mem, p, w)
      /\ \A p : Pending(sbuf, p)' <=> Pending(sbuf, p)
      /\ \A x : Asked(x)' = Asked(x) /\ Evicted(x)' = Evicted(x)
  BY <1>1, <1>2, <1>4 DEF InMemory, Void, Tracked, Clean, Pending, Asked, Evicted
<1>6. WordInv'
  <2>1. Entries(sbuf, tbuf, track_mem, stat_mem, stored)' /\ Arrivals(tbuf)'
    BY <1>1, <1>4, <1>5 DEF DataInv, WordInv, Coherent, Entries, Arrivals, Newest
  <2>2. InRam(sbuf, tbuf, data_mem, track_mem, stored)'
    BY <1>1, <1>4, <1>5 DEF DataInv, WordInv, Coherent, InRam
  <2>3. BehindRam(tbuf, track_mem, stat_mem, stored)' /\ Elsewhere(stored)'
    BY <1>1, <1>4, <1>5 DEF DataInv, WordInv, Coherent, BehindRam, Elsewhere
  <2>4. QED
    BY <1>1, <2>1, <2>2, <2>3 DEF DataInv, WordInv, Coherent
<1>7. CleanIsWhole' /\ EarlyInv' /\ RowInv'
  BY <1>1, <1>2 DEF DataInv, CleanIsWhole, EarlyInv, RowInv
<1>8. TlData' /\ TvData' /\ CopyInv'
  BY <1>1, <1>2, <1>5 DEF DataInv, TlData, TvData, CopyInv
<1>9. FillData'
  BY <1>1, <1>2, <1>5 DEF DataInv, FillData
<1>10. EvictData'
  BY <1>1, <1>2, <1>3, <1>5 DEF DataInv, EvictData
<1>11. OverInv'
  BY <1>1, <1>4, <1>5 DEF DataInv, OverInv
<1>12. QED
  BY <1>6, <1>7, <1>8, <1>9, <1>10, <1>11 DEF DataInv

(* Every step keeps it. *)
LEMMA DataStays ==
  ASSUME CacheInv, WayInv, DataInv, Matched(setting), Next
  PROVE  DataInv'
<1>1. PICK in, ack, takes, gives, gets :
        Acts(in, ack, takes, gives, gets) /\ ActsOnData(in, ack)
  BY NextActs DEF CacheInv
<1>2. WordInv' /\ CleanIsWhole'
  BY <1>1, WordStays, WholeStays
<1>3. EarlyInv' /\ RowInv'
  BY <1>1, EarlyStays, RowStays DEF DataInv
<1>4. TlData' /\ TvData'
  BY <1>1, TlStays, TvKnows
<1>5. CopyInv' /\ FillData'
  BY <1>1, CopyStays, FillDataStays
<1>6. EvictData' /\ OverInv'
  BY <1>1, EvictDataStays, OverStays
<1>7. QED
  BY <1>2, <1>3, <1>4, <1>5, <1>6 DEF DataInv

(* For any number of sets, ways and words in a block, any tags, any        *)
(* contents of memory and any requests, what a load or an atomic answers   *)
(* is the byte that was stored there last: from the data RAM, past the     *)
(* store buffer, or as it passes on its way in, after any evictions,       *)
(* flushes and fetches of the words that were missing.  A client with word *)
(* tracking flushes no block that it keeps, or writes no part of a word.   *)
THEOREM LoadsAreRight ==
  ASSUME NamesEnabledWay, \A s \in Settings : Matched(s)
  PROVE  Spec => []LoadsSeeLastStore
<1>1. CacheInv => Matched(setting)
  BY DEF CacheInv, TypeInv
<1>2. CacheInv /\ WayInv /\ [Next]_vars => WayInv'
  <2>1. ASSUME CacheInv, WayInv, Next PROVE WayInv'
    BY <2>1, NextActs, WayStays DEF CacheInv
  <2>2. QED
    BY <2>1, WaysRest
<1>3. CacheInv /\ WayInv /\ DataInv /\ [Next]_vars => DataInv'
  BY <1>1, DataStays, DataRests
<1>4. CacheInv /\ DataInv => LoadsSeeLastStore
  <2> SUFFICES ASSUME CacheInv, DataInv, v_o, Reads(tv.req)
               PROVE  ld_data = stored[Place(tv.req)]
    BY DEF LoadsSeeLastStore
  <2>1. CASE miss_v
    <3>1. miss.state = "DONE"
      BY <2>1 DEF v_o
    <3>2. miss.select_snoop_data /\ dma.snoop_word = stored[Place(tv.req)]
      BY <3>1 DEF DataInv, OverInv
    <3>3. QED
      BY <3>2 DEF ld_data
  <2>2. CASE ~miss_v
    <3>1. miss.state = "START"
      BY <2>2 DEF CacheInv, MissInv, miss_v
    <3>2. ~miss.select_snoop_data
      BY <3>1 DEF DataInv, OverInv
    <3>3. (IF tv.bypass_mask THEN tv.bypass_data ELSE tv.data[tag_hit_way_id])
             = stored[Place(tv.req)]
      BY <2>2 DEF DataInv, TvData
    <3>4. QED
      BY <3>2, <3>3 DEF ld_data
  <2>3. QED
    BY <2>1, <2>2
<1>5. Spec => []WayInv
  BY WaysBegin, CacheInvariant, <1>2, PTL DEF Spec
<1>6. Spec => []DataInv
  BY DataBegins, CacheInvariant, <1>3, <1>5, PTL DEF Spec
<1>7. QED
  BY CacheInvariant, <1>4, <1>6, PTL

-----------------------------------------------------------------------------
(* How long a request has waited when the handler gets to each of its      *)
(* states, if memory does not stall: while the buffers drain, one cycle    *)
(* may go to a request that enters TL and reads the RAMs; a packet is      *)
(* taken at once; then a word passes in every cycle.                       *)
ToDrain ==
  IF sbuf = <<>> /\ tbuf = <<>> THEN 0
  ELSE (IF Len(sbuf) < Len(tbuf) THEN Len(tbuf) ELSE Len(sbuf))
         + (IF tl = NoReq THEN 1 ELSE 0)

TimeInv ==
  /\ waited \in Nat
  /\ ~prompt_memory => waited = 0
  /\ miss.state = "START" => IF miss_v THEN waited + ToDrain <= 3 ELSE waited = 0
  /\ miss.state \in {"SEND_FILL_ADDR", "FLUSH_OP", "LOCK_OP", "STORE_TAG_MISS"} => waited <= 4
  /\ miss.state \in {"SEND_EVICT_ADDR", "STORE_TAG_MISS_ALLOCATE"} => waited <= 5
  /\ miss.state = "SEND_EVICT_DATA" =>
       waited <= 6 + (IF dma.state = "IDLE" THEN 0 ELSE dma.counter)
  /\ miss.state = "GET_FILL_DATA" =>
       waited <= block_size_in_words_p + 7
                   + (IF dma.state = "IDLE" THEN 0 ELSE 1 + dma.counter)
  /\ miss.state = "RECOVER" => waited <= 2 * block_size_in_words_p + 8
  /\ waited <= 2 * block_size_in_words_p + 9

(* A block is evicted from a way that holds another than the one fetched.  *)
OtherInv ==
  /\ Bursting(memory.reading) =>
       "block" \in DOMAIN memory.reading /\ memory.reading.block = fill_block
  /\ miss.state \in EvictStates /\ ~goto_flush_op => tv.tags[miss.chosen_way].valid

(* Without stalls the queue to memory holds one word at most, and none     *)
(* once the eviction is over; the words of a fill come as they are wanted. *)
PromptInv ==
  prompt_memory =>
    /\ Len(out_fifo) <= 1
    /\ out_fifo # <<>> => \/ miss.state \in {"SEND_EVICT_DATA", "RECOVER"}
                          \/ miss.state = "GET_FILL_DATA" /\ dma.state = "IDLE"
    /\ dma.state = "GET_FILL_DATA" => in_fifo # <<>>

(* The queue from memory has room for a block.                             *)
LEMMA RoomForBlock ==
  /\ block_size_in_words_p \in Nat \ {0}
  /\ \A n \in Nat : n < block_size_in_words_p => n < Max({2, block_size_in_words_p})
<1> DEFINE B == block_size_in_words_p
<1>1. B \in Nat \ {0}
  BY CacheAssumption
<1> HIDE DEF B
<1>2. \E x \in {2, B} : \A y \in {2, B} : x >= y
  BY <1>1
<1>3. PICK room : room = Max({2, B})
  OBVIOUS
<1>4. room \in {2, B} /\ \A y \in {2, B} : room >= y
  BY <1>2, <1>3 DEF Max
<1>5. \A n \in Nat : n < B => n < room
  BY <1>1, <1>4
<1>6. QED
  BY <1>1, <1>3, <1>5 DEF B

(* What replaces a block misses in all ways.                               *)
LEMMA ReplacesOnMiss ==
  ASSUME CacheInv, miss.state \in EvictStates, ~goto_flush_op
  PROVE  tv.hits = {}
<1>1. ~goto_lock_op /\ ~tv.track_miss /\ tv.miss
  BY DEF CacheInv, MissInv, EvictStates
<1>2. ReadsTags(tv.req) /\ tv.miss = misses(tv.req, tv.tags, tv.hits, tv.track_miss)
  BY <1>1, MissIsRequest DEF CacheInv, TvInv, miss_v
<1>3. QED
  BY <1>1, <1>2 DEF misses, goto_flush_op, goto_lock_op, tag_hit_found

(* Nothing is being written to memory when the queue to it is empty.       *)
LEMMA NothingUnderWay ==
  ASSUME CacheInv, out_fifo = <<>>, miss.state # "SEND_EVICT_DATA"
  PROVE  memory.writing = Idle
<1>1. Len(out_fifo) = 0
  BY SeqNone DEF CacheInv, BurstInv
<1>2. Bursting(memory.writing) => Len(out_fifo) = block_size_in_words_p - memory.writing.word
  BY DEF CacheInv, BurstInv
<1>3. Bursting(memory.writing) => memory.writing.word \in 0 .. block_size_in_words_p - 1
  BY DEF CacheInv, BurstInv, IsBurst
<1>4. ~Bursting(memory.writing)
  <2>1. PICK w, B, n : w = memory.writing.word /\ B = block_size_in_words_p /\ n = Len(out_fifo)
    OBVIOUS
  <2>2. Bursting(memory.writing) => n = 0 /\ n = B - w /\ w \in 0 .. B - 1 /\ B \in Nat
    BY <1>1, <1>2, <1>3, <2>1, CacheAssumption
  <2>3. QED
    BY <2>2
<1>5. QED
  BY <1>4 DEF Bursting

(* So a packet is taken when it is offered.                                *)
LEMMA PacketsTaken ==
  ASSUME CacheInv, WayInv, OtherInv, PromptInv, prompt_memory,
         miss.state \in {"SEND_FILL_ADDR", "SEND_EVICT_ADDR"}
  PROVE  TakesPacket
<1> USE DEF CacheInv
<1>1. dma_pkt_v_o
  <2>1. dma.state = "IDLE"
    BY DEF MissInv
  <2>2. QED
    BY <2>1 DEF dma_pkt_v_o
<1>2. memory.writing = Idle
  BY NothingUnderWay DEF PromptInv
<1>3. Idle.block = <<>> /\ Idle.block # fill_block /\ Idle.block # evict_block
  BY DEF Idle, fill_block, evict_block
<1>4. CASE miss.state = "SEND_FILL_ADDR"
  <2>1. ~Filling
    BY <1>4 DEF Filling, EvictStates
  <2>2. memory.reading = Idle
    BY <2>1 DEF BurstInv, Bursting
  <2>3. QED
    BY <1>1, <1>2, <1>3, <1>4, <2>2 DEF TakesPacket
<1>5. CASE miss.state = "SEND_EVICT_ADDR"
  <2>1. CASE memory.reading = Idle
    BY <1>1, <1>2, <1>3, <1>5, <2>1 DEF TakesPacket
  <2>2. CASE Bursting(memory.reading)
    <3>1. ~goto_flush_op
      BY <1>5, <2>2 DEF BurstInv, Filling
    <3>2. tv.hits = {} /\ tv.tags[miss.chosen_way].valid /\ dma_way = miss.chosen_way
      BY <1>5, <3>1, ReplacesOnMiss DEF OtherInv, EvictStates, dma_way
    <3>3. ReadsTags(tv.req) /\ tv.hits = tag_hits(tv.req, tv.tags)
      BY <1>5, AtWork DEF TvInv
    <3>4. tv.req.op \notin {"TAGST", "TAGFL", "TAGLV", "TAGLA"}
      <4>1. miss_v /\ tv.miss = misses(tv.req, tv.tags, tv.hits, tv.track_miss)
        BY <1>5, <3>3, AtWork DEF TvInv
      <4>2. QED
        BY <3>1, <4>1 DEF misses, miss_v, goto_flush_op
    <3>5. miss.chosen_way \in Ways
      BY DEF WayInv
    <3>6. tv.tags[miss.chosen_way].tag # tv.req.tag
      BY <3>2, <3>3, <3>4, <3>5 DEF tag_hits
    <3>7. memory.reading.block = fill_block
      BY <2>2 DEF OtherInv
    <3>8. fill_block # evict_block
      BY <3>2, <3>6 DEF fill_block, evict_block
    <3>9. QED
      BY <1>1, <1>2, <1>5, <3>7, <3>8 DEF TakesPacket
  <2>3. QED
    BY <2>1, <2>2 DEF Bursting
<1>6. QED
  BY <1>4, <1>5

(* A word passes on either side whenever the engine is at work.            *)
LEMMA WordsPass ==
  ASSUME CacheInv, PromptInv, prompt_memory
  PROVE  /\ dma.state = "GET_FILL_DATA" => fill_word
         /\ dma.state = "SEND_EVICT_DATA" => evict_word
         /\ miss.state = "SEND_EVICT_DATA" /\ out_fifo # <<>> => TakesWord
         /\ Bursting(memory.reading) => GivesWord
<1> USE DEF CacheInv
<1>1. dma.state = "GET_FILL_DATA" => fill_word
  BY DEF PromptInv, fill_word
<1>2. dma.state = "SEND_EVICT_DATA" => evict_word
  <2>1. Len(out_fifo) \in Nat /\ Len(out_fifo) <= 1
    BY SeqMore DEF PromptInv, BurstInv
  <2>2. out_fifo_ready
    BY <2>1 DEF out_fifo_ready
  <2>3. QED
    BY <2>2 DEF evict_word
<1>3. miss.state = "SEND_EVICT_DATA" /\ out_fifo # <<>> => TakesWord
  BY DEF BurstInv, TakesWord
<1>4. ASSUME Bursting(memory.reading)
      PROVE  GivesWord
  <2>1. PICK w, f, n, B : /\ w = memory.reading.word /\ f = Filled /\ n = Len(in_fifo)
                          /\ B = block_size_in_words_p
    OBVIOUS
  <2>2. w \in 0 .. B - 1 /\ w = f + n
    BY <1>4, <2>1 DEF BurstInv, IsBurst
  <2>3. n \in Nat /\ B \in Nat
    BY <2>1, SeqMore, RoomForBlock DEF BurstInv
  <2>4. f \in Nat
    <3>1. Filled \in Nat
      BY RoomForBlock DEF BurstInv, Filled
    <3>2. QED
      BY <2>1, <3>1
  <2>5. n < B
    BY <2>2, <2>3, <2>4
  <2>6. dma_data_ready
    BY <2>1, <2>3, <2>5, RoomForBlock DEF dma_data_ready
  <2>7. QED
    BY <1>4, <2>6 DEF GivesWord
<1>5. QED
  BY <1>1, <1>2, <1>3, <1>4

(* The block asked for stays the one that is read.                         *)
LEMMA OtherStays ==
  ASSUME CacheInv, WayInv, OtherInv,
         NEW in, NEW ack, NEW takes, NEW gives, NEW gets, Acts(in, ack, takes, gives, gets)
  PROVE  OtherInv'
<1> USE DEF CacheInv
<1>1. IF v_we(ack) THEN /\ miss'.state = "START" /\ miss.state \in {"START", "DONE"}
      ELSE tv' = tv
  BY StartsOver
<1>2. MissHandler(takes, ack) /\ Memory(takes, gives, gets) /\ DmaEngine
      /\ (takes => TakesPacket) /\ (gives => GivesWord)
  BY DEF Acts
<1>3. ASSUME Bursting(memory'.reading)
      PROVE  /\ "block" \in DOMAIN memory'.reading
             /\ memory'.reading.block = <<tv'.req.tag, tv'.req.set>>
  <2>1. Filling'
    <3>1. BurstInv'
      BY FillStays, EvictionStays, CounterMoves DEF Acts, BurstInv
    <3>2. QED
      BY <1>3, <3>1 DEF BurstInv
  <2>2. miss'.state # "START" /\ tv' = tv
    BY <1>1, <2>1 DEF Filling, EvictStates
  <2>3. CASE takes /\ miss.state = "SEND_FILL_ADDR"
    <3>1. memory'.reading = [block |-> fill_block, word |-> 0]
      BY <1>2, <2>3 DEF Memory
    <3>2. QED
      BY <2>2, <3>1 DEF fill_block
  <2>4. CASE ~(takes /\ miss.state = "SEND_FILL_ADDR")
    <3>1. PICK b : b = memory.reading
      OBVIOUS
    <3>2. memory'.reading = IF gives THEN Advanced(b) ELSE b
      BY <1>2, <2>4, <3>1 DEF Memory
    <3>3. Bursting(b)
      BY <1>2, <1>3, <3>1, <3>2 DEF GivesWord
    <3>4. "block" \in DOMAIN b /\ b.block = fill_block
      BY <3>1, <3>3 DEF OtherInv
    <3>5. CASE gives /\ b.word # block_size_in_words_p - 1
      <4>1. memory'.reading = [b EXCEPT !.word = @ + 1]
        BY <3>2, <3>5 DEF Advanced
      <4>2. QED
        BY <2>2, <3>4, <4>1 DEF fill_block
    <3>6. CASE gives /\ b.word = block_size_in_words_p - 1
      BY <1>3, <3>2, <3>6 DEF Advanced, Bursting
    <3>7. CASE ~gives
      BY <2>2, <3>2, <3>4, <3>7 DEF fill_block
    <3>8. QED
      BY <3>5, <3>6, <3>7
  <2>5. QED
    BY <2>3, <2>4
<1>4. ASSUME miss'.state \in EvictStates, ~goto_flush_op'
      PROVE  tv'.tags[miss'.chosen_way].valid
  <2>1. tv' = tv /\ ~goto_flush_op
    BY <1>1, <1>4 DEF EvictStates, goto_flush_op
  <2>2. miss.state \in EvictStates \cup {"SEND_FILL_ADDR", "STORE_TAG_MISS", "FLUSH_OP"}
    BY <1>2, <1>4, HandlerMoves DEF MissInv, MissStates, EvictStates
  <2>3. miss.state # "FLUSH_OP"
    BY <2>1 DEF MissInv
  <2>4. miss'.chosen_way = chosen_way_n /\ miss'.state = miss_state_n(takes, ack)
    BY <1>2 DEF MissHandler
  <2>5. CASE miss.state \in EvictStates
    <3>1. miss'.chosen_way = miss.chosen_way
      BY <2>4, <2>5 DEF chosen_way_n, EvictStates
    <3>2. QED
      BY <2>1, <2>5, <3>1 DEF OtherInv
  <2>6. CASE miss.state \in {"SEND_FILL_ADDR", "STORE_TAG_MISS"}
    <3>1. dirty_and_valid(chosen_way_n)
      BY <1>4, <2>4, <2>6 DEF miss_state_n, EvictStates
    <3>2. QED
      BY <2>1, <2>4, <3>1 DEF dirty_and_valid
  <2>7. QED
    BY <2>2, <2>3, <2>5, <2>6
<1>5. QED
  BY <1>3, <1>4 DEF OtherInv, fill_block

(* Without stalls the queues stay as short.                                *)
LEMMA PromptStays ==
  ASSUME CacheInv, PromptInv,
         NEW in, NEW ack, NEW takes, NEW gives, NEW gets, Acts(in, ack, takes, gives, gets),
         ActsInTime(in, ack, takes, gives, gets)
  PROVE  PromptInv'
<1> USE DEF CacheInv
<1> SUFFICES ASSUME prompt_memory'
             PROVE  /\ Len(out_fifo') <= 1
                    /\ out_fifo' # <<>> =>
                         \/ miss'.state \in {"SEND_EVICT_DATA", "RECOVER"}
                         \/ miss'.state = "GET_FILL_DATA" /\ dma'.state = "IDLE"
                    /\ dma'.state = "GET_FILL_DATA" => in_fifo' # <<>>
  BY DEF PromptInv
<1>1. prompt_memory /\ (gets <=> TakesWord) /\ (gives <=> GivesWord)
  BY DEF ActsInTime, Acts, prompt_memory
<1>2. Len(out_fifo) \in Nat /\ Len(out_fifo) <= 1 /\ (out_fifo = <<>> <=> Len(out_fifo) = 0)
  BY <1>1, SeqMore, SeqNone DEF PromptInv, BurstInv
<1>3. /\ Memory(takes, gives, gets) /\ MissHandler(takes, ack) /\ DmaEngine
      /\ gets => TakesWord
  BY DEF Acts
<1>4. miss.state # "SEND_EVICT_DATA" /\ out_fifo # <<>> => gets
  <2>1. ASSUME miss.state # "SEND_EVICT_DATA", out_fifo # <<>>
        PROVE  Bursting(memory.writing)
    BY <1>2, <2>1 DEF BurstInv
  <2>2. QED
    BY <1>1, <2>1 DEF TakesWord
<1>5. miss.state = "SEND_EVICT_DATA" /\ out_fifo # <<>> => gets
  BY <1>1, WordsPass
<1>6. PICK m, n : m = Len(out_fifo) /\ n = Len(out_fifo')
  OBVIOUS
<1>7. /\ gets => m # 0
      /\ gets /\ evict_word => n = m
      /\ gets /\ ~evict_word => n = m - 1
      /\ ~gets /\ evict_word => n = m + 1
      /\ ~gets /\ ~evict_word => n = m
  BY <1>3, <1>6, OutFifoMoves DEF BurstInv
<1>8. m \in {0, 1} /\ (gets <=> m = 1)
  BY <1>1, <1>2, <1>4, <1>5, <1>6 DEF TakesWord
<1>9. n \in {0, 1} /\ (n = 1 => evict_word)
  BY <1>7, <1>8
<1>10. out_fifo' # <<>> => n # 0
  BY <1>3, <1>6, OutFifoMoves, SeqNone DEF BurstInv
<1>11. ASSUME out_fifo' # <<>>
       PROVE  \/ miss'.state \in {"SEND_EVICT_DATA", "RECOVER"}
              \/ miss'.state = "GET_FILL_DATA" /\ dma'.state = "IDLE"
  <2>1. evict_word
    BY <1>9, <1>10, <1>11
  <2>2. dma.state = "SEND_EVICT_DATA" /\ miss.state = "SEND_EVICT_DATA"
    BY <2>1 DEF evict_word, MissInv
  <2>3. evict_done => dma'.state = "IDLE"
    BY <1>3, EngineMoves
  <2>4. QED
    BY <1>3, <2>2, <2>3, HandlerMoves DEF MissInv
<1>12. ASSUME dma'.state = "GET_FILL_DATA"
       PROVE  in_fifo' # <<>>
  <2>1. /\ dma.state \in {"IDLE", "GET_FILL_DATA"} /\ miss.state = "GET_FILL_DATA"
        /\ ~fill_done
    BY <1>3, <1>12, EngineMoves DEF MissInv
  <2>2. Filling
    BY <2>1 DEF Filling
  <2>3. PICK l, k, f, w, B :
          /\ l = Len(in_fifo) /\ k = Len(in_fifo') /\ f = Filled /\ w = memory.reading.word
          /\ B = block_size_in_words_p
    OBVIOUS
  <2>4. /\ l \in Nat /\ IsSeq(in_fifo')
        /\ fill_word => l # 0
        /\ fill_word /\ gives => k = l
        /\ fill_word /\ ~gives => k = l - 1
        /\ ~fill_word /\ gives => k = l + 1
        /\ ~fill_word /\ ~gives => k = l
    BY <1>3, <2>3, InFifoMoves DEF BurstInv
  <2>5. Bursting(memory.reading) => gives
    BY <1>1, WordsPass
  <2>6. ~Bursting(memory.reading) => l = B - f
    BY <2>2, <2>3 DEF BurstInv
  <2>7. f \in 0 .. B - 1 /\ (fill_word => f # B - 1) /\ B \in Nat \ {0}
    BY <1>3, <2>1, <2>3, CounterMoves, RoomForBlock
  <2>8. k # 0
    BY <2>4, <2>5, <2>6, <2>7
  <2>9. QED
    BY <2>3, <2>4, <2>8, SeqNone
<1>13. QED
  BY <1>6, <1>9, <1>11, <1>12

(* The buffers take at most three cycles to drain.                         *)
DrainsInThree == ToDrain \in 0 .. 3

LEMMA DrainsSoon == BufInv => DrainsInThree
<1> SUFFICES ASSUME BufInv PROVE ToDrain \in 0 .. 3
  BY DEF DrainsInThree
<1>1. PICK s, t : s = Len(sbuf) /\ t = Len(tbuf)
  OBVIOUS
<1>2. s \in Nat /\ t \in Nat /\ s <= 2
  BY <1>1, SeqMore DEF BufInv
<1>3. t <= 2
  <2>1. FullStore(tl) \in {0, 1} /\ FullStore(tv.req) \in {0, 1}
    BY DEF FullStore
  <2>2. t + FullStore(tl) + FullStore(tv.req) <= 2
    BY <1>1 DEF BufInv
  <2>3. QED
    BY <1>2, <2>1, <2>2
<1>4. PICK e : e = IF tl = NoReq THEN 1 ELSE 0
  OBVIOUS
<1>5. ToDrain = 0 \/ ToDrain = (IF s < t THEN t ELSE s) + e
  BY <1>1, <1>4 DEF ToDrain
<1>6. 0 \in 0 .. 3 /\ (IF s < t THEN t ELSE s) + e \in 0 .. 3
  BY <1>2, <1>3, <1>4
<1>7. QED
  BY <1>5, <1>6

(* In every cycle of the wait either a request enters an empty TL, or both *)
(* buffers drain.                                                          *)
LEMMA DrainsOn ==
  ASSUME CacheInv,
         NEW in, NEW ack, NEW takes, NEW gives, NEW gets, Acts(in, ack, takes, gives, gets),
         ActsInTime(in, ack, takes, gives, gets),
         miss.state = "START", miss_v, ~start
  PROVE  ToDrain' + 1 <= ToDrain
<1> USE DEF CacheInv
<1>1. ~v_o /\ ~ack /\ ~v_we(ack)
  <2>1. ~v_o
    BY DEF v_o
  <2>2. QED
    BY <2>1, MissIsRequest DEF Acts, v_we
<1>2. Stores(ack) = sbuf /\ Tracks(ack) = tbuf
  BY <1>1, OnlyWithAnAnswer
<1>3. ~(sbuf = <<>> /\ tbuf = <<>>)
  BY DEF start
<1>4. dma.state = "IDLE" /\ ~dma_data_mem_v /\ ~miss_track_mem_v
  <2>1. dma.state = "IDLE"
    BY DEF MissInv
  <2>2. QED
    BY <2>1 DEF dma_data_mem_v, fill_word, evict_read, evict_word, miss_track_mem_v,
                st_allocate, fill_allocate
<1>5. PICK s, t, s1, t1 : s = Len(sbuf) /\ t = Len(tbuf) /\ s1 = Len(sbuf') /\ t1 = Len(tbuf')
  OBVIOUS
<1>6. /\ s \in Nat /\ (sbuf = <<>> <=> s = 0) /\ s1 \in Nat /\ (sbuf' = <<>> <=> s1 = 0)
      /\ s1 = IF sbuf_yumi(in, ack) /\ s # 0 THEN s - 1 ELSE s
  <2>1. sbuf' = Drained(sbuf, sbuf_yumi(in, ack)) /\ IsSeq(sbuf)
    BY <1>2 DEF Acts, BufInv
  <2>2. CASE sbuf_yumi(in, ack)
    <3>1. sbuf' = Drained(sbuf, TRUE)
      BY <2>1, <2>2 DEF Drained
    <3>2. QED
      BY <1>5, <2>1, <2>2, <3>1, DrainedLength
  <2>3. CASE ~sbuf_yumi(in, ack)
    <3>1. sbuf' = sbuf
      BY <2>1, <2>3 DEF Drained
    <3>2. QED
      BY <1>5, <2>1, <2>3, <3>1, DrainedLength
  <2>4. QED
    BY <2>2, <2>3
<1>7. /\ t \in Nat /\ (tbuf = <<>> <=> t = 0) /\ t1 \in Nat /\ (tbuf' = <<>> <=> t1 = 0)
      /\ t1 = IF tbuf_yumi(in, ack) /\ t # 0 THEN t - 1 ELSE t
  <2>1. tbuf' = Drained(tbuf, tbuf_yumi(in, ack)) /\ IsSeq(tbuf)
    BY <1>2 DEF Acts, BufInv
  <2>2. CASE tbuf_yumi(in, ack)
    <3>1. tbuf' = Drained(tbuf, TRUE)
      BY <2>1, <2>2 DEF Drained
    <3>2. QED
      BY <1>5, <2>1, <2>2, <3>1, DrainedLength
  <2>3. CASE ~tbuf_yumi(in, ack)
    <3>1. tbuf' = tbuf
      BY <2>1, <2>3 DEF Drained
    <3>2. QED
      BY <1>5, <2>1, <2>3, <3>1, DrainedLength
  <2>4. QED
    BY <2>2, <2>3
<1> DEFINE longer == IF s < t THEN t ELSE s
           longer1 == IF s1 < t1 THEN t1 ELSE s1
<1>11. ToDrain = longer + (IF tl = NoReq THEN 1 ELSE 0)
  BY <1>3, <1>5 DEF ToDrain
<1>12. ToDrain' = IF s1 = 0 /\ t1 = 0 THEN 0 ELSE longer1 + (IF tl' = NoReq THEN 1 ELSE 0)
  BY <1>5, <1>6, <1>7 DEF ToDrain
<1>13. longer \in Nat \ {0}
  BY <1>3, <1>6, <1>7
<1>8. CASE in # NoReq
  <2>1. tl = NoReq /\ tl' # NoReq
    BY <1>1, <1>8 DEF Acts, Entering
  <2>2. longer1 \in Nat /\ longer1 <= longer
    BY <1>6, <1>7
  <2>3. ToDrain = longer + 1 /\ (ToDrain' = 0 \/ ToDrain' = longer1)
    BY <1>11, <1>12, <2>1, <2>2
  <2> HIDE DEF longer, longer1
  <2>4. QED
    BY <1>13, <2>2, <2>3
<1>9. CASE in = NoReq
  <2>1. tl' = tl
    BY <1>1, <1>9 DEF ActsInTime
  <2>2. ~Reads(in) /\ ~ReadsTrack(in)
    BY <1>9, NoRequest DEF Reads, ReadsTrack, partial_st
  <2>3. sbuf_yumi(in, ack) /\ tbuf_yumi(in, ack)
    BY <1>4, <2>2 DEF sbuf_yumi, tbuf_yumi
  <2>4. longer1 \in Nat /\ longer1 + 1 = longer
    BY <1>3, <1>6, <1>7, <2>3
  <2>5. PICK e \in {0, 1} : e = IF tl = NoReq THEN 1 ELSE 0
    OBVIOUS
  <2>6. ToDrain = longer + e /\ (ToDrain' = 0 \/ ToDrain' = longer1 + e)
    BY <1>11, <1>12, <2>1, <2>5
  <2> HIDE DEF longer, longer1
  <2>7. QED
    BY <1>13, <2>4, <2>5, <2>6
<1>10. QED
  BY <1>8, <1>9

(* The handler's time in the states in which it sends no words.            *)
LEMMA TimeStays ==
  ASSUME CacheInv, CacheInv', WayInv, OtherInv, PromptInv, TimeInv,
         NEW in, NEW ack, NEW takes, NEW gives, NEW gets, Acts(in, ack, takes, gives, gets),
         ActsInTime(in, ack, takes, gives, gets)
  PROVE  TimeInv'
<1> USE DEF CacheInv
<1>1. /\ MissHandler(takes, ack) /\ DmaEngine /\ miss.state \in MissStates
      /\ miss'.state \in MissStates
      /\ waited' = IF tv.req = NoReq \/ v_o \/ ~prompt_memory THEN 0 ELSE waited + 1
      /\ prompt_memory' <=> prompt_memory
  BY DEF Acts, ActsInTime, Waited, MissInv, prompt_memory
<1>2. PICK B, u, u1, c, c1 :
        /\ B = block_size_in_words_p /\ u = waited /\ u1 = waited'
        /\ c = dma.counter /\ c1 = dma'.counter
  OBVIOUS
<1>3. B \in Nat \ {0} /\ u \in Nat /\ u1 \in Nat
  BY <1>1, <1>2, RoomForBlock DEF TimeInv
<1>4. /\ dma.state = "GET_FILL_DATA" => c \in 0 .. B - 1
      /\ dma.state = "SEND_EVICT_DATA" => c \in 1 .. B
      /\ dma'.state = "GET_FILL_DATA" => c1 \in 0 .. B - 1
      /\ dma'.state = "SEND_EVICT_DATA" => c1 \in 1 .. B
      /\ dma.state \in {"IDLE", "GET_FILL_DATA", "SEND_EVICT_DATA"}
      /\ dma'.state \in {"IDLE", "GET_FILL_DATA", "SEND_EVICT_DATA"}
  BY <1>2 DEF BurstInv, MissInv
<1>5. ToDrain \in 0 .. 3 /\ ToDrain' \in 0 .. 3
  <2>1. BufInv' => DrainsInThree'
    BY DrainsSoon, PTL
  <2>2. QED
    BY <2>1, DrainsSoon DEF DrainsInThree
<1>6. CASE u1 = 0
  <2>1. dma'.state # "IDLE" => c1 \in Nat
    BY <1>3, <1>4
  <2>2. waited' = 0 /\ waited' \in Nat /\ waited' + ToDrain' <= 3
    <3>1. PICK x : x = ToDrain'
      OBVIOUS
    <3>2. x \in 0 .. 3
      BY <1>5, <3>1
    <3>3. u1 + x <= 3
      BY <1>6, <3>2
    <3>4. QED
      BY <1>2, <1>6, <3>1, <3>3
  <2>3. /\ 0 <= 6 + (IF dma'.state = "IDLE" THEN 0 ELSE c1)
        /\ 0 <= B + 7 + (IF dma'.state = "IDLE" THEN 0 ELSE 1 + c1)
        /\ 0 <= 2 * B + 8 /\ 0 <= 2 * B + 9
    BY <1>3, <2>1
  <2>4. QED
    BY <1>2, <2>2, <2>3 DEF TimeInv
<1>7. CASE u1 # 0
  <2>1. prompt_memory /\ tv.req # NoReq /\ ~v_o /\ u1 = u + 1
    BY <1>1, <1>2, <1>7
  <2>2. ~ack /\ ~v_we(ack) /\ tv' = tv /\ miss_v /\ miss_v' /\ miss.state # "DONE"
    BY <2>1 DEF Acts, v_we, v_o, miss_v
  <2>3. miss.state \in {"SEND_FILL_ADDR", "SEND_EVICT_ADDR"} => takes
    BY <2>1, PacketsTaken DEF ActsInTime
  <2>4. /\ dma.state = "GET_FILL_DATA" => fill_word
        /\ dma.state = "SEND_EVICT_DATA" => evict_word
    BY <2>1, WordsPass
  <2>5. PICK s, d, s1, d1 : s = miss.state /\ d = dma.state /\ s1 = miss'.state /\ d1 = dma'.state
    OBVIOUS
  <2>6. CASE s = "START"
    <3>1. CASE start
      <4>1. s1 \in {"FLUSH_OP", "LOCK_OP", "STORE_TAG_MISS", "SEND_FILL_ADDR"}
        BY <1>1, <2>5, <2>6, <3>1, HandlerMoves
      <4>2. u <= 3
        BY <1>2, <1>3, <1>5, <2>2, <2>5, <2>6 DEF TimeInv
      <4>3. u1 <= 4
        BY <1>3, <2>1, <4>2
      <4>4. QED
        BY <1>2, <1>3, <2>1, <1>1, <2>5, <4>1, <4>3 DEF TimeInv
    <3>2. CASE ~start
      <4>1. s1 = "START"
        BY <1>1, <2>5, <2>6, <3>2, HandlerMoves
      <4>2. ToDrain' + 1 <= ToDrain
        BY <2>2, <2>5, <2>6, <3>2, DrainsOn
      <4>3. u + ToDrain <= 3
        BY <1>2, <2>2, <2>5, <2>6 DEF TimeInv
      <4>4. PICK x, x1 : x = ToDrain /\ x1 = ToDrain'
        OBVIOUS
      <4>5. x \in 0 .. 3 /\ x1 \in 0 .. 3 /\ x1 + 1 <= x /\ u + x <= 3
        BY <1>5, <4>2, <4>3, <4>4
      <4>6. u1 + x1 <= 3 /\ u1 <= 3
        BY <1>3, <2>1, <4>5
      <4>7. QED
        BY <1>1, <1>2, <1>3, <2>1, <2>2, <2>5, <4>1, <4>4, <4>6 DEF TimeInv
    <3>3. QED
      BY <3>1, <3>2
  <2>7. CASE s \in {"SEND_FILL_ADDR", "FLUSH_OP", "LOCK_OP", "STORE_TAG_MISS"}
    <3>1. s1 \in {"SEND_EVICT_ADDR", "STORE_TAG_MISS_ALLOCATE", "GET_FILL_DATA", "RECOVER"}
      BY <1>1, <2>3, <2>5, <2>7, HandlerMoves
    <3>2. u1 <= 5
      BY <1>2, <1>3, <2>1, <2>5, <2>7 DEF TimeInv
    <3>3. d1 = "IDLE"
      BY <1>1, <2>5, <2>7, EngineMoves DEF Acts, MissInv
    <3>4. QED
      BY <1>1, <1>2, <1>3, <2>1, <2>5, <3>1, <3>2, <3>3 DEF TimeInv
  <2>8. CASE s \in {"SEND_EVICT_ADDR", "STORE_TAG_MISS_ALLOCATE"}
    <3>1. s1 \in {"SEND_EVICT_DATA", "RECOVER"}
      BY <1>1, <2>3, <2>5, <2>8, HandlerMoves
    <3>2. u1 <= 6
      BY <1>2, <1>3, <2>1, <2>5, <2>8 DEF TimeInv
    <3>3. d1 = "IDLE"
      BY <1>1, <2>5, <2>8, EngineMoves DEF Acts, MissInv
    <3>4. QED
      BY <1>1, <1>2, <1>3, <2>1, <2>5, <3>1, <3>2, <3>3 DEF TimeInv
  <2>9. CASE s = "SEND_EVICT_DATA" /\ d = "IDLE"
    <3>1. s1 = "SEND_EVICT_DATA" /\ d1 = "SEND_EVICT_DATA" /\ c1 = 1
      <4>1. ~evict_done
        BY <2>5, <2>9 DEF evict_done, evict_word
      <4>2. s1 = "SEND_EVICT_DATA" /\ d1 = "SEND_EVICT_DATA"
        BY <1>1, <2>5, <2>9, <4>1, HandlerMoves, EngineMoves
      <4>3. c1 = dma_counter_n
        BY <1>1, <1>2 DEF DmaEngine
      <4>5. dma_counter_n = 1
        BY <2>5, <2>9 DEF dma_counter_n, fill_done, fill_word, evict_done, evict_word
      <4>4. QED
        BY <4>2, <4>3, <4>5
    <3>2. u1 <= 7
      BY <1>2, <1>3, <2>1, <2>5, <2>9 DEF TimeInv
    <3>3. QED
      BY <1>1, <1>2, <1>3, <2>1, <2>5, <3>1, <3>2 DEF TimeInv
  <2>10. CASE s = "SEND_EVICT_DATA" /\ d # "IDLE"
    <3>1. d = "SEND_EVICT_DATA" /\ evict_word
      BY <2>4, <2>5, <2>10 DEF MissInv
    <3>2. u <= 6 + c /\ c \in 1 .. B
      BY <1>2, <1>4, <2>5, <2>10, <3>1 DEF TimeInv
    <3>3. CASE c = B
      <4>1. evict_done
        BY <1>2, <3>1, <3>3 DEF evict_done
      <4>2. s1 \in {"RECOVER", "GET_FILL_DATA"} /\ d1 = "IDLE"
        BY <1>1, <2>5, <2>10, <3>1, <4>1, HandlerMoves, EngineMoves
      <4>3. u1 <= B + 7
        BY <1>3, <2>1, <3>2, <3>3
      <4>4. QED
        BY <1>1, <1>2, <1>3, <2>1, <2>5, <4>2, <4>3 DEF TimeInv
    <3>4. CASE c # B
      <4>1. ~evict_done
        BY <1>2, <3>4 DEF evict_done
      <4>2. s1 = "SEND_EVICT_DATA" /\ d1 = "SEND_EVICT_DATA"
        BY <1>1, <2>5, <2>10, <3>1, <4>1, HandlerMoves, EngineMoves
      <4>3. c1 = c + 1
        <5>1. ~fill_done
          BY <2>5, <3>1 DEF fill_done, fill_word
        <5>2. QED
          BY <1>1, <1>2, <2>5, <3>1, <4>1, <5>1 DEF DmaEngine, dma_counter_n
      <4>4. u1 <= 6 + c1 /\ u1 <= B + 6 /\ c1 \in Nat
        BY <1>3, <2>1, <3>2, <3>4, <4>3
      <4>5. QED
        BY <1>1, <1>2, <1>3, <2>1, <2>5, <4>2, <4>4 DEF TimeInv
    <3>5. QED
      BY <3>3, <3>4
  <2>11. CASE s = "GET_FILL_DATA" /\ d = "IDLE"
    <3>1. s1 = "GET_FILL_DATA" /\ d1 = "GET_FILL_DATA" /\ c1 = 0
      <4>1. ~fill_done
        BY <2>5, <2>11 DEF fill_done, fill_word
      <4>2. s1 = "GET_FILL_DATA" /\ d1 = "GET_FILL_DATA"
        BY <1>1, <2>5, <2>11, <4>1, HandlerMoves, EngineMoves
      <4>3. c1 = 0
        BY <1>1, <1>2, <2>5, <2>11 DEF DmaEngine, dma_counter_n
      <4>4. QED
        BY <4>2, <4>3
    <3>2. u1 <= B + 8
      BY <1>2, <1>3, <2>1, <2>5, <2>11 DEF TimeInv
    <3>3. QED
      BY <1>1, <1>2, <1>3, <2>1, <2>5, <3>1, <3>2 DEF TimeInv
  <2>12. CASE s = "GET_FILL_DATA" /\ d # "IDLE"
    <3>1. d = "GET_FILL_DATA" /\ fill_word
      BY <2>4, <2>5, <2>12 DEF MissInv
    <3>2. u <= B + 7 + (1 + c) /\ c \in 0 .. B - 1
      BY <1>2, <1>4, <2>5, <2>12, <3>1 DEF TimeInv
    <3>3. CASE c = B - 1
      <4>1. fill_done
        BY <1>2, <3>1, <3>3 DEF fill_done
      <4>2. s1 = "RECOVER"
        BY <1>1, <2>5, <2>12, <4>1, HandlerMoves
      <4>3. u1 <= 2 * B + 8
        BY <1>3, <2>1, <3>2, <3>3
      <4>4. QED
        BY <1>1, <1>2, <1>3, <2>1, <2>5, <4>2, <4>3 DEF TimeInv
    <3>4. CASE c # B - 1
      <4>1. ~fill_done
        BY <1>2, <3>4 DEF fill_done
      <4>2. s1 = "GET_FILL_DATA" /\ d1 = "GET_FILL_DATA"
        BY <1>1, <2>5, <2>12, <3>1, <4>1, HandlerMoves, EngineMoves
      <4>3. c1 = c + 1
        <5>1. ~evict_done
          BY <2>5, <3>1 DEF evict_done, evict_word
        <5>2. QED
          BY <1>1, <1>2, <2>5, <3>1, <4>1, <5>1 DEF DmaEngine, dma_counter_n
      <4>4. u1 <= B + 7 + (1 + c1) /\ u1 <= 2 * B + 7
        BY <1>3, <2>1, <3>2, <3>4, <4>3
      <4>5. QED
        BY <1>1, <1>2, <1>3, <2>1, <2>5, <4>2, <4>4 DEF TimeInv
    <3>5. QED
      BY <3>3, <3>4
  <2>13. CASE s = "RECOVER"
    <3>1. s1 = "DONE"
      BY <1>1, <2>5, <2>13, HandlerMoves
    <3>2. u1 <= 2 * B + 9
      BY <1>2, <1>3, <2>1, <2>5, <2>13 DEF TimeInv
    <3>3. QED
      BY <1>1, <1>2, <1>3, <2>1, <2>5, <3>1, <3>2 DEF TimeInv
  <2>14. QED
    BY <1>1, <2>2, <2>5, <2>6, <2>7, <2>8, <2>9, <2>10, <2>11, <2>12, <2>13
       DEF MissStates, EvictStates
<1>8. QED
  BY <1>6, <1>7

(* They hold at first. *)
LEMMA TimeBegins == Init => OtherInv /\ PromptInv /\ TimeInv
<1> SUFFICES ASSUME Init PROVE OtherInv /\ PromptInv /\ TimeInv
  OBVIOUS
<1>1. /\ miss.state = "START" /\ dma.state = "IDLE" /\ ~miss_v /\ waited = 0
      /\ out_fifo = <<>> /\ ~Bursting(memory.reading)
  BY NoRequest DEF Init, miss_v, Bursting
<1>2. OtherInv
  BY <1>1 DEF OtherInv, EvictStates
<1>3. PromptInv
  BY <1>1, SeqNone DEF PromptInv
<1>4. TimeInv
  BY <1>1, RoomForBlock DEF TimeInv
<1>5. QED
  BY <1>2, <1>3, <1>4

(* And rest when nothing moves. *)
LEMMA TimeRests ==
  ASSUME OtherInv, PromptInv, TimeInv, UNCHANGED vars
  PROVE  OtherInv' /\ PromptInv' /\ TimeInv'
<1>1. /\ setting' = setting /\ tl' = tl /\ tv' = tv /\ sbuf' = sbuf /\ tbuf' = tbuf
      /\ miss' = miss /\ dma' = dma /\ in_fifo' = in_fifo /\ out_fifo' = out_fifo
      /\ memory' = memory /\ waited' = waited
  BY DEF vars, pipeline
<1>2. OtherInv'
  BY <1>1 DEF OtherInv, fill_block, goto_flush_op
<1>3. PromptInv' /\ TimeInv'
  BY <1>1 DEF PromptInv, TimeInv, prompt_memory, miss_v, ToDrain
<1>4. QED
  BY <1>2, <1>3

(* For any number of sets, ways and words in a block, any tags and any     *)
(* requests, a request that misses is answered, while memory does not      *)
(* stall, within the cycles that the words of an eviction and of a fill    *)
(* take, and nine more: three for the buffers and six for the handler and  *)
(* its engine to get from one thing to the next.                           *)
THEOREM MissesEndInTime ==
  ASSUME NamesEnabledWay
  PROVE  Spec => []AnsweredInTime
<1>1. CacheInv /\ WayInv /\ [Next]_vars => WayInv'
  <2>1. ASSUME CacheInv, WayInv, Next PROVE WayInv'
    BY <2>1, NextActs, WayStays DEF CacheInv
  <2>2. QED
    BY <2>1, WaysRest
<1>2. Spec => []WayInv
  BY WaysBegin, CacheInvariant, <1>1, PTL DEF Spec
<1>3. CacheInv /\ CacheInv' /\ WayInv /\ OtherInv /\ PromptInv /\ TimeInv /\ [Next]_vars
        => OtherInv' /\ PromptInv' /\ TimeInv'
  <2>1. ASSUME CacheInv, CacheInv', WayInv, OtherInv, PromptInv, TimeInv, Next
        PROVE  OtherInv' /\ PromptInv' /\ TimeInv'
    <3>1. PICK in, ack, takes, gives, gets :
            /\ Acts(in, ack, takes, gives, gets)
            /\ ActsInTime(in, ack, takes, gives, gets)
      BY <2>1, NextActs DEF CacheInv
    <3>2. QED
      BY <2>1, <3>1, OtherStays, PromptStays, TimeStays
  <2>2. QED
    BY <2>1, TimeRests
<1>4. TimeInv => AnsweredInTime
  BY DEF TimeInv, AnsweredInTime
<1>5. QED
  BY TimeBegins, CacheInvariant, <1>2, <1>3, <1>4, PTL DEF Spec
=============================================================================
