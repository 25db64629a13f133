------------------------- MODULE AsyncCreditCounter -------------------------
(***************************************************************************)
(* bsg_async_credit_counter: tokens arrive on the w_ clock, each worth     *)
(* 2^lg_credit_to_token_decimation_p credits, and credits are spent on the *)
(* r_ clock.  The number of tokens received crosses as an AsyncPtrGray;    *)
(* the spender counts what it spent, from minus what it starts with.       *)
(***************************************************************************)
EXTENDS Integers

CONSTANTS
  w_counter_width_lp,               \* bits of the token counter
  lg_credit_to_token_decimation_p,
  start_tokens,                     \* max_tokens_p * start_full_p
  prepaid_tokens                    \* tokens the far end may give unasked

CreditsPerToken == 2^lg_credit_to_token_decimation_p
Capacity == (start_tokens + prepaid_tokens) * CreditsPerToken

(* A counter of width $clog2(max_tokens_p + 1) plus the margin bits.       *)
WidthAssumption ==
  /\ w_counter_width_lp \in Nat \ {0}
  /\ lg_credit_to_token_decimation_p \in Nat
  /\ start_tokens \in Nat /\ prepaid_tokens \in Nat
  /\ start_tokens + prepaid_tokens < 2^w_counter_width_lp

VARIABLES
  (* clock w_clk_i *)
  w_ptr_r, w_ptr_p1_r, w_counter_gray_r,    \* tokens received
  (* clock r_clk_i *)
  w_sync1, w_counter_gray_r_rsync,          \* the same, as it arrives
  r_counter_r,                              \* credits spent
  r_reset_i,
  (* history *)
  r_flush,      \* progress of the reset procedure
  owed          \* credits spent or prepaid and not yet returned as tokens

wregs == <<w_ptr_r, w_ptr_p1_r, w_counter_gray_r>>
sync == <<w_sync1, w_counter_gray_r_rsync>>
vars == <<wregs, sync, r_counter_r, r_reset_i, r_flush, owed>>

bapg == INSTANCE AsyncPtrGray WITH
          lg_size_p <- w_counter_width_lp,
          bsg_SYNC_LNCH_r <- w_counter_gray_r,
          bsg_SYNC_1_r <- w_sync1,
          bsg_SYNC_2_r <- w_counter_gray_r_rsync

Modulus == 2^w_counter_width_lp * CreditsPerToken     \* of r_counter_r
RCounters == 0 .. Modulus - 1

(* Minus the starting tokens, in the width of the counter. *)
r_counter_reset == (-start_tokens * CreditsPerToken) % Modulus

-----------------------------------------------------------------------------
(* The counter's high bits against the synchronised token count; the low   *)
(* bits are what is left of the token being spent.                         *)
r_counter_r_hi_bits == r_counter_r \div CreditsPerToken
r_counter_r_lo_bits_nonzero == r_counter_r % CreditsPerToken # 0

r_credits_avail_o ==
  \/ r_counter_r_lo_bits_nonzero
  \/ bapg!Gray(r_counter_r_hi_bits, w_counter_width_lp) # w_counter_gray_r_rsync

(* The reset procedure: r_reset_i up, w_reset_i pulsed with w_clk_i quiet, *)
(* then four edges of r_clk_i.                                             *)
ResetEdges == 4
Flushed == ResetEdges + 1
live == r_flush = Flushed

Init ==
  /\ w_ptr_r = 0 /\ w_ptr_p1_r = 1 % 2^w_counter_width_lp /\ w_counter_gray_r = {}
  /\ w_sync1 \in bapg!Words /\ w_counter_gray_r_rsync \in bapg!Words
  /\ r_counter_r \in RCounters
  /\ r_reset_i = TRUE
  /\ r_flush = 1
  /\ owed = prepaid_tokens * CreditsPerToken

-----------------------------------------------------------------------------
(* A token comes back only for a whole token's worth of credits owed, and  *)
(* not before reset is over; a credit is spent only if one is available.   *)
WSide(inc) ==
  /\ inc => live /\ owed >= CreditsPerToken
  /\ bapg!WEdge(FALSE, inc)

(* Seeded fault: the spender starts with a credit too many. *)
MutGenerous(reset_i, dec) ==
  r_counter_r' = IF reset_i THEN (r_counter_reset - 1) % Modulus
                 ELSE (r_counter_r + IF dec THEN 1 ELSE 0) % Modulus

Count(reset_i, dec) ==
  r_counter_r' = IF reset_i THEN r_counter_reset
                 ELSE (r_counter_r + IF dec THEN 1 ELSE 0) % Modulus

RSide(dec) ==
  /\ dec => r_credits_avail_o /\ ~r_reset_i
  /\ Count(r_reset_i, dec)
  /\ r_flush' = IF r_flush \in 1 .. ResetEdges THEN r_flush + 1 ELSE r_flush

Owed(inc, dec) ==
  owed + (IF dec THEN 1 ELSE 0) - (IF inc THEN CreditsPerToken ELSE 0)

WClk ==
  \E inc \in BOOLEAN :
    /\ WSide(inc)
    /\ bapg!RHold
    /\ owed' = Owed(inc, FALSE)
    /\ UNCHANGED <<r_counter_r, r_reset_i, r_flush>>

RClk ==
  \E dec \in BOOLEAN :
    /\ RSide(dec)
    /\ bapg!WHold
    /\ bapg!REdge
    /\ owed' = Owed(FALSE, dec)
    /\ UNCHANGED r_reset_i

BothClks ==
  \E inc, dec \in BOOLEAN :
    /\ WSide(inc)
    /\ RSide(dec)
    /\ bapg!REdge
    /\ owed' = Owed(inc, dec)
    /\ UNCHANGED r_reset_i

(* Step 1: r_reset_i is raised, at any time. *)
AssertReset ==
  /\ ~r_reset_i
  /\ r_reset_i' = TRUE
  /\ r_flush' = 0
  /\ UNCHANGED <<wregs, sync, r_counter_r, owed>>

(* Step 2: w_reset_i is pulsed, which clears the pointer without an edge   *)
(* of w_clk_i.  The far end is in reset with this one and owes nothing.    *)
PulseWReset ==
  /\ r_reset_i
  /\ bapg!WEdge(TRUE, FALSE)
  /\ r_flush' = 1
  /\ owed' = prepaid_tokens * CreditsPerToken
  /\ UNCHANGED <<sync, r_counter_r, r_reset_i>>

(* Step 4, after the edges of step 3. *)
DeassertReset ==
  /\ live /\ r_reset_i
  /\ r_reset_i' = FALSE
  /\ UNCHANGED <<wregs, sync, r_counter_r, r_flush, owed>>

Next == WClk \/ RClk \/ BothClks \/ AssertReset \/ PulseWReset \/ DeassertReset

Spec == Init /\ [][Next]_vars

(* The spender's clock keeps running: while the synchroniser is not up to  *)
(* date its next edge eventually comes, spending or not.                   *)
Stale == sync # <<w_counter_gray_r, w_sync1>>

FairSpec ==
  /\ Spec
  /\ WF_vars(Stale /\ (RClk \/ BothClks))

-----------------------------------------------------------------------------
(* Credits are never overdrawn: although the token count the spender sees  *)
(* is old and may be caught mid-change, an available credit is one the far *)
(* end has room for.                                                       *)
NeverOverdrawn == live /\ ~r_reset_i /\ r_credits_avail_o => owed < Capacity

(* Returned credits become available: none is lost in the crossing.        *)
CreditsReturn == (live /\ owed < Capacity) ~> (r_credits_avail_o \/ ~live)

=============================================================================
