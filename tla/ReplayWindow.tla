---------------------------- MODULE ReplayWindow ----------------------------
(***************************************************************************)
(* The sliding replay window of the data channel (src/src/session.c, the   *)
(* replay_* functions).  A window remembers which of the last W counters   *)
(* have been accepted: one bit per counter, in a ring indexed by the       *)
(* counter modulo W.  The ring is reused as the window slides, so one slot *)
(* stands for many counters over time.                                     *)
(*                                                                         *)
(* The three fields of session_t the window uses form a record here; the   *)
(* byte array replay_window is the set of the slots whose bit is 1.        *)
(***************************************************************************)
EXTENDS Naturals

CONSTANT W   \* SESSION_REPLAY_WINDOW_BITS

ASSUME WAssumption == W \in Nat \ {0}

Slots == 0 .. W - 1

ReplayState == [have_received_any : BOOLEAN,
                highest_rx_counter : Nat,
                replay_window : SUBSET Slots]

\* What memset in session_init leaves.
ZeroReplayState == [have_received_any |-> FALSE,
                    highest_rx_counter |-> 0,
                    replay_window |-> {}]

\* What session_start_handshake does to it: the highest counter stays.
ResetReplay(r) == [r EXCEPT !.have_received_any = FALSE, !.replay_window = {}]

\* Mutant: the counter itself indexes the ring.
SlotUnreduced(counter) == counter
Slot(counter) == counter % W

replay_bit_get(window, counter) == Slot(counter) \in window
replay_bit_set(window, counter) == window \union {Slot(counter)}

\* Mutant: the loop starts one counter too late.
ClearRangeLate(window, first, last) ==
  window \ {Slot(c) : c \in first + 1 .. last}
\* The window after replay_bit_clear for each counter of the range.
ClearRange(window, first, last) == window \ {Slot(c) : c \in first .. last}

-----------------------------------------------------------------------------
(***************************************************************************)
(* replay_check_and_mark: what it returns, and the state it leaves.        *)
(***************************************************************************)

ReplayAccepts(r, counter) ==
  \/ ~ r.have_received_any
  \/ counter > r.highest_rx_counter
  \/ /\ r.highest_rx_counter - counter < W
     /\ ~ replay_bit_get(r.replay_window, counter)

\* Mutant: a jump beyond the window leaves its bits as they are.
SlideKeepsBits(r, counter) ==
  IF counter - r.highest_rx_counter >= W
  THEN r.replay_window
  ELSE ClearRange(r.replay_window, r.highest_rx_counter + 1, counter - 1)
\* The window when it moves up to a counter above the highest one.
Slide(r, counter) ==
  IF counter - r.highest_rx_counter >= W
  THEN {}
  ELSE ClearRange(r.replay_window, r.highest_rx_counter + 1, counter - 1)

\* Mutant: an accepted late packet moves the window back.
ReplayMarkLowers(r, counter) ==
  IF ~ ReplayAccepts(r, counter) THEN r
  ELSE LET ahead  == r.have_received_any /\ counter > r.highest_rx_counter
           window == IF ahead THEN Slide(r, counter) ELSE r.replay_window
       IN  [have_received_any  |-> TRUE,
            highest_rx_counter |-> counter,
            replay_window      |-> replay_bit_set(window, counter)]
ReplayMark(r, counter) ==
  IF ~ ReplayAccepts(r, counter) THEN r
  ELSE LET ahead  == r.have_received_any /\ counter > r.highest_rx_counter
           window == IF ahead THEN Slide(r, counter) ELSE r.replay_window
       IN  [have_received_any  |-> TRUE,
            highest_rx_counter |-> IF ahead \/ ~ r.have_received_any
                                   THEN counter ELSE r.highest_rx_counter,
            replay_window      |-> replay_bit_set(window, counter)]

-----------------------------------------------------------------------------
(***************************************************************************)
(* When a window is right about the set of the counters accepted so far.   *)
(***************************************************************************)

\* highest_rx_counter is the largest of them, once there is one.
ExactHighest(r, accepted) ==
  /\ r.have_received_any <=> accepted # {}
  /\ r.have_received_any =>
       /\ r.highest_rx_counter \in accepted
       /\ \A c \in accepted : c <= r.highest_rx_counter

\* Among the last W counters, the bits that are 1 are those of the accepted.
ExactBits(r, accepted) ==
  /\ ~ r.have_received_any => r.replay_window = {}
  /\ r.have_received_any =>
       \A c \in 0 .. r.highest_rx_counter :
         r.highest_rx_counter - c < W
           => (replay_bit_get(r.replay_window, c) <=> c \in accepted)

ExactWindow(r, accepted) == ExactHighest(r, accepted) /\ ExactBits(r, accepted)
=============================================================================
