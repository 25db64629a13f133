------------------------------ MODULE MCCache ------------------------------
(***************************************************************************)
(* The cache with two sets, two ways and two words to a block, under       *)
(* clients each of which makes a few requests in any order.  To replace a  *)
(* block of a set takes requests for two others.                           *)
(***************************************************************************)
EXTENDS Cache, TLC

CONSTANTS A, B, C, d0, d1, junk

Memory0 == [p \in Places |-> IF p[1] = A /\ p[2] = 0 THEN d0 ELSE junk]

(* Requests for word w of the block with tag t in set 0.  `Sb' stores the   *)
(* byte and no other of its word, `Sx' the others of the word but not it;   *)
(* the atomic operation exchanges d0 and d1.                                *)
On(op, t) == [op |-> op, tag |-> t, set |-> 0, word |-> 0]
Word(w, r) == [r EXCEPT !.word = w]
InSet1(r) == [r EXCEPT !.set = 1]
Ld(t) == On("LD", t)
Store(t, full, lane, d) ==
  [op |-> "ST", tag |-> t, set |-> 0, word |-> 0, full |-> full, lane |-> lane, data |-> d]
St(t, d) == Store(t, TRUE, TRUE, d)
Sb(t, d) == Store(t, FALSE, TRUE, d)
Sx(t) == Store(t, FALSE, FALSE, junk)
Amo(t) ==
  [op |-> "AMO", tag |-> t, set |-> 0, word |-> 0, full |-> TRUE, lane |-> TRUE,
   alu |-> (d0 :> d1 @@ d1 :> d0 @@ junk :> junk)]
Tagfl(w) == [op |-> "TAGFL", set |-> 0, way |-> w]

Client(tracking, stalls, requests) ==
  [word_tracking_p |-> tracking, stalls |-> stalls, requests |-> requests]

(* Tags B and C are alike to every client, and memory holds the same there. *)
Others == {Ld(B), Ld(C)}
Interchangeable == Permutations({B, C})

(* Several clients come with word_tracking_p set and some without; under    *)
(* some every handshake takes place as soon as it can, under others one     *)
(* side or all of memory stalls.                                            *)
Checked == {
  Client(TRUE, {"client"}, Others \cup {Ld(A), St(A, d0), St(A, d1)}),
  Client(FALSE, {"packets", "fills", "evictions"}, Others \cup {Ld(A), St(A, d1)}),
  Client(FALSE, {"packets", "fills", "evictions", "offers"}, Others \cup {St(A, d1)}),
  \* part of a word
  Client(TRUE, {}, Others \cup {Word(1, Ld(A)), St(A, d1), Word(1, Sb(A, d1))}),
  Client(FALSE, {"client"}, Others \cup {Ld(A), Sb(A, d1), Sx(A)}),
  \* atomic operations, and a full store buffer
  Client(TRUE, {}, Others \cup {Amo(A)}),
  Client(FALSE, {}, {Amo(A), Amo(B), Amo(C)}),
  Client(TRUE, {"client", "offers"},
         {St(A, d1), Sb(A, d0), Amo(A), Word(1, St(A, d1))}),
  \* flushes and invalidations
  Client(FALSE, {"client"}, Others \cup {Ld(A), St(A, d1), Tagfl(0)}),
  Client(TRUE, {}, Others \cup {Ld(A), St(A, d1), On("AFL", A)}),
  Client(TRUE, {}, Others \cup {Ld(A), Word(1, St(A, d1)), On("AFLINV", A), On("AINV", A)}),
  \* locks
  Client(FALSE, {}, Others \cup {Ld(A), St(A, d1), On("ALOCK", A), On("AUNLOCK", A)}),
  Client(TRUE, {}, Others \cup {Word(1, Ld(A)), St(A, d1), On("ALOCK", A)}),
  \* two sets
  Client(TRUE, {}, Others \cup {St(A, d1), InSet1(Ld(A)), InSet1(St(A, junk))})
}

(* Flushes of a block, and stores to a part of a word of it. *)
Flusher ==
  {Client(TRUE, {},
          Others \cup {Ld(A), Word(1, St(A, d1)), Sb(A, d1), On("AFL", A)})}

(* The replacement of four ways: the way used last is not the next victim,  *)
(* and the backup finder replaces a victim that is disabled by one that is  *)
(* not and leaves the others alone.                                         *)
Four == INSTANCE CacheLru WITH ways_p <- 4

(* Two ways and four: the bits lead to a way that may be replaced. *)
ASSUME VictimsFound == NamesEnabledWay /\ Four!NamesEnabledWay

ASSUME LruOfFour ==
  \A bits \in SUBSET Four!Nodes :
    /\ \A way \in Four!Ways : Four!lru_way_id(Four!Touched(bits, way)) # way
    /\ \A disabled \in (SUBSET Four!Ways) \ {Four!Ways} :
         LET victim_of(b) == Four!lru_way_id(b)
             backup == victim_of(Four!Backed(bits, disabled))
         IN  IF victim_of(bits) \in disabled THEN backup \notin disabled
             ELSE backup = victim_of(bits)
=============================================================================
