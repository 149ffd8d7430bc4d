--------------------------- MODULE ReplayReceiver ---------------------------
(***************************************************************************)
(* The receiving end of the data channel, seen from its replay window:     *)
(* authentic packets arrive in any order and any number of times           *)
(* (session_open_data after crypto_open succeeded), and a new handshake    *)
(* resets the window (session_start_handshake).                            *)
(***************************************************************************)
EXTENDS ReplayWindow, Integers

CONSTANT Counters   \* the counters authentic packets may carry

ASSUME CountersAssumption == Counters \subseteq Nat

VARIABLES replay,    \* the window's fields of session_t
          accepted,  \* history: the counters accepted since the last reset
          last       \* the packet handled last and the answer it got

vars == <<replay, accepted, last>>

Init ==
  /\ replay = ResetReplay(ZeroReplayState)
  /\ accepted = {}
  /\ last = [counter |-> 0, accepted |-> FALSE]

\* session_open_data from its call of replay_check_and_mark on.
OpenData(c) ==
  /\ replay' = ReplayMark(replay, c)
  /\ accepted' = IF ReplayAccepts(replay, c) THEN accepted \union {c}
                                             ELSE accepted
  /\ last' = [counter |-> c, accepted |-> ReplayAccepts(replay, c)]

\* A new handshake starts: other keys, so the old counters are void.
StartHandshake ==
  /\ replay' = ResetReplay(replay)
  /\ accepted' = {}
  /\ UNCHANGED last

Next == StartHandshake \/ \E c \in Counters : OpenData(c)

Spec == Init /\ [][Next]_vars

-----------------------------------------------------------------------------
(***************************************************************************)
(* Properties                                                              *)
(***************************************************************************)

\* The window's fields have their types, and the history holds counters.
TypeOK ==
  /\ replay \in ReplayState
  /\ accepted \in SUBSET Nat
  /\ last \in [counter : Nat, accepted : BOOLEAN]

\* highest_rx_counter is the largest counter accepted since the reset, once
\* there is one (session.c sets it on the first packet and on every slide).
HighestExact == ExactHighest(replay, accepted)

\* Inside the window every bit tells the truth: the slot of a counter among
\* the last W is set exactly when that counter was accepted.  No bit is a
\* leftover of an older counter that shared the slot, or of the previous keys
\* (a packet never seen would be rejected), and none was cleared by the slide
\* while still needed (a replay would be accepted).
WindowExact == ExactBits(replay, accepted)

Abstract == INSTANCE AtMostOnce WITH seen <- accepted, last <- last

\* The bitmap implements the promise: every packet gets from
\* replay_check_and_mark the answer AtMostOnce prescribes.
ImplementsAtMostOnce == Abstract!Spec
=============================================================================
