------------------------- MODULE ReplayWindowProofs -------------------------
(***************************************************************************)
(* Facts about the operators of ReplayWindow, for every window width: a    *)
(* window that is right about the counters accepted so far decides         *)
(* correctly about the next one, and is right about it afterwards.         *)
(***************************************************************************)
EXTENDS ReplayWindow, TLAPS, Integers

\* Division with remainder, for the modulo of replay_bit_get/set/clear.
LEMMA DivMod ==
  ASSUME NEW a \in Nat, NEW w \in Nat \ {0}
  PROVE  /\ a \div w \in Nat
         /\ a % w \in 0 .. w - 1
         /\ a = w * (a \div w) + (a % w)
  OBVIOUS

\* Two counters less than the width apart never share a slot of the ring.
LEMMA SlotsApart ==
  ASSUME NEW a \in Nat, NEW b \in Nat, a < b, b - a < W
  PROVE  Slot(a) # Slot(b)
<1> USE WAssumption
<1> SUFFICES ASSUME a % W = b % W PROVE FALSE
  BY DEF Slot
<1> DEFINE q == a \div W
           p == b \div W
           s == a % W
           t == b % W
<1>1. q \in Nat /\ s \in 0 .. W - 1 /\ a = W * q + s
  BY Zenon, DivMod
<1>2. p \in Nat /\ t \in 0 .. W - 1 /\ b = W * p + t
  BY Zenon, DivMod
<1>3. s = t
  OBVIOUS
<1> HIDE DEF q, p, s, t
<1>4. b - a = W * (p - q)
  BY <1>1, <1>2, <1>3
<1>5. p - q >= 1
  BY <1>1, <1>2, <1>4
<1>6. W * (p - q) >= W
  BY <1>1, <1>2, <1>5
<1> QED BY <1>1, <1>2, <1>4, <1>6

\* A slot index is a position of the ring.
LEMMA SlotType ==
  ASSUME NEW a \in Nat
  PROVE  Slot(a) \in Slots
  BY DivMod, WAssumption DEF Slot, Slots

\* ReplayMark, which models replay_check_and_mark, keeps the fields' types.
LEMMA MarkType ==
  ASSUME NEW r \in ReplayState, NEW c \in Nat
  PROVE  ReplayMark(r, c) \in ReplayState
<1>1. ReplayMark(r, c).replay_window \subseteq Slots
  BY SlotType DEF ReplayMark, Slide, ClearRange, replay_bit_set, ReplayState
<1> QED
  BY <1>1, SlotType
  DEF ReplayMark, Slide, ClearRange, replay_bit_set, ReplayState

\* A reset window is right about having accepted nothing.
LEMMA ResetExact ==
  ASSUME NEW r \in ReplayState
  PROVE  ResetReplay(r) \in ReplayState /\ ExactWindow(ResetReplay(r), {})
  BY Zenon DEF ReplayState, ResetReplay, ExactWindow, ExactHighest, ExactBits

\* A window that is right accepts exactly the counters that are new and less
\* than W behind the highest one.
LEMMA AcceptsExact ==
  ASSUME NEW r \in ReplayState, NEW accepted \in SUBSET Nat,
         ExactWindow(r, accepted), NEW c \in Nat
  PROVE  ReplayAccepts(r, c)
           <=> c \notin accepted /\ \A d \in accepted : d - c < W
<1> DEFINE h == r.highest_rx_counter
<1>0. W \in Nat \ {0} /\ h \in Nat
  BY WAssumption DEF ReplayState
<1>1. CASE ~ r.have_received_any
  BY <1>1 DEF ExactWindow, ExactHighest, ReplayAccepts
<1>2. CASE r.have_received_any /\ c > h
  <2>1. \A d \in accepted : d \in Nat /\ d <= h
    BY <1>0, <1>2 DEF ExactWindow, ExactHighest
  <2>2. c \notin accepted /\ \A d \in accepted : d - c < W
    BY <1>0, <1>2, <2>1
  <2> QED BY <1>2, <2>2 DEF ReplayAccepts
<1>3. CASE r.have_received_any /\ ~(c > h)
  <2>1. h \in accepted /\ \A d \in accepted : d \in Nat /\ d <= h
    BY <1>0, <1>3 DEF ExactWindow, ExactHighest
  <2>2. (\A d \in accepted : d - c < W) <=> h - c < W
    BY <1>0, <2>1
  <2>3. h - c < W => (replay_bit_get(r.replay_window, c) <=> c \in accepted)
    <3>1. c \in 0 .. h
      BY <1>0, <1>3
    <3> QED BY <1>3, <3>1 DEF ExactWindow, ExactBits
  <2> QED BY <1>3, <2>2, <2>3 DEF ReplayAccepts
<1> QED BY <1>1, <1>2, <1>3

\* Marking an accepted counter keeps the window right.
LEMMA MarkExact ==
  ASSUME NEW r \in ReplayState, NEW accepted \in SUBSET Nat,
         ExactWindow(r, accepted), NEW c \in Nat, ReplayAccepts(r, c)
  PROVE  ExactWindow(ReplayMark(r, c), accepted \union {c})
<1> DEFINE h   == r.highest_rx_counter
           win == r.replay_window
           t   == ReplayMark(r, c)
<1>0. W \in Nat \ {0} /\ h \in Nat /\ win \subseteq Slots
  BY WAssumption DEF ReplayState
<1>1. CASE ~ r.have_received_any
  <2>1. /\ t = [have_received_any |-> TRUE, highest_rx_counter |-> c,
                replay_window |-> {Slot(c)}]
        /\ accepted = {}
    BY Zenon, <1>1 DEF ExactWindow, ExactHighest, ExactBits, ReplayMark,
                replay_bit_set
  <2> HIDE DEF t
  <2>2. ExactHighest(t, accepted \union {c})
    BY <2>1 DEF ExactHighest
  <2>3. ExactBits(t, accepted \union {c})
    <3> SUFFICES ASSUME NEW d \in 0 .. c, c - d < W
                 PROVE  Slot(d) = Slot(c) <=> d = c
      BY <2>1 DEF ExactBits, replay_bit_get
    <3>1. d \in Nat /\ (d = c \/ d < c)
      OBVIOUS
    <3> QED BY <3>1, SlotsApart
  <2> QED BY <2>2, <2>3 DEF ExactWindow, t
<1>2. CASE r.have_received_any /\ c > h
  <2> DEFINE slid == Slide(r, c)
  <2>1. t = [have_received_any |-> TRUE, highest_rx_counter |-> c,
             replay_window |-> slid \union {Slot(c)}]
    BY Zenon, <1>2 DEF ReplayMark, replay_bit_set
  <2> HIDE DEF t
  <2>2. \A d \in accepted : d <= h
    BY <1>2 DEF ExactWindow, ExactHighest
  <2>3. ExactHighest(t, accepted \union {c})
    BY <1>0, <1>2, <2>1, <2>2 DEF ExactHighest
  <2>4. ASSUME NEW d \in 0 .. c, c - d < W, d # c
        PROVE  Slot(d) \in slid <=> d \in accepted
    <3>1. d \in Nat /\ d < c
      BY <2>4
    <3>2. CASE c - h >= W
      <4>1. slid = {}
        BY <3>2 DEF Slide
      <4>2. d > h
        BY <1>0, <3>1, <3>2, <2>4
      <4> QED BY <4>1, <4>2, <2>2, <1>0, <3>1
    <3>3. CASE c - h < W /\ d > h
      <4>1. slid = win \ {Slot(e) : e \in h + 1 .. c - 1}
        BY <1>0, <3>3 DEF Slide, ClearRange
      <4>2. d \in h + 1 .. c - 1
        BY <1>0, <3>1, <3>3
      <4> QED BY <4>1, <4>2, <2>2, <3>3, <1>0, <3>1
    <3>4. CASE c - h < W /\ d <= h
      <4>1. slid = win \ {Slot(e) : e \in h + 1 .. c - 1}
        BY <1>0, <3>4 DEF Slide, ClearRange
      <4>2. ASSUME NEW e \in h + 1 .. c - 1
            PROVE  Slot(d) # Slot(e)
        <5>1. e \in Nat /\ d < e /\ e - d < W
          BY <1>0, <3>1, <3>4, <2>4
        <5> QED BY <3>1, <5>1, SlotsApart
      <4>3. d \in 0 .. h /\ h - d < W
        BY <1>0, <3>1, <3>4, <2>4, <1>2
      <4>4. Slot(d) \in win <=> d \in accepted
        BY <4>3, <1>2 DEF ExactWindow, ExactBits, replay_bit_get
      <4> QED BY <4>1, <4>2, <4>4
    <3> QED BY <1>0, <3>1, <3>2, <3>3, <3>4
  <2>5. ExactBits(t, accepted \union {c})
    <3> SUFFICES ASSUME NEW d \in 0 .. c, c - d < W
                 PROVE  Slot(d) \in slid \union {Slot(c)}
                          <=> d \in accepted \union {c}
      BY <2>1 DEF ExactBits, replay_bit_get
    <3>1. CASE d = c
      BY <3>1
    <3>2. CASE d # c
      <4>1. d \in Nat /\ d < c
        BY <3>2
      <4>2. Slot(d) # Slot(c)
        BY <4>1, SlotsApart
      <4> QED BY <4>2, <3>2, <2>4
    <3> QED BY <3>1, <3>2
  <2> QED BY <2>3, <2>5 DEF ExactWindow, t
<1>3. CASE r.have_received_any /\ ~(c > h)
  <2>0. h - c < W /\ c <= h
    BY <1>0, <1>3 DEF ReplayAccepts
  <2>1. t = [have_received_any |-> TRUE, highest_rx_counter |-> h,
             replay_window |-> win \union {Slot(c)}]
    BY Zenon, <1>3 DEF ReplayMark, replay_bit_set
  <2> HIDE DEF t
  <2>2. ExactHighest(t, accepted \union {c})
    BY <1>0, <1>3, <2>0, <2>1 DEF ExactWindow, ExactHighest
  <2>3. ExactBits(t, accepted \union {c})
    <3> SUFFICES ASSUME NEW d \in 0 .. h, h - d < W
                 PROVE  Slot(d) \in win \union {Slot(c)}
                          <=> d \in accepted \union {c}
      BY <2>1 DEF ExactBits, replay_bit_get
    <3>1. Slot(d) \in win <=> d \in accepted
      BY <1>3 DEF ExactWindow, ExactBits, replay_bit_get
    <3>2. CASE d = c
      BY <3>2
    <3>3. CASE d < c
      <4>1. d \in Nat /\ c - d < W
        BY <1>0, <2>0, <3>3
      <4>2. Slot(d) # Slot(c)
        BY <4>1, <3>3, SlotsApart
      <4> QED BY <3>1, <4>2, <3>3, <1>0
    <3>4. CASE d > c
      <4>1. d \in Nat /\ d - c < W
        BY <1>0, <2>0, <3>4
      <4>2. Slot(d) # Slot(c)
        BY <4>1, <3>4, SlotsApart
      <4> QED BY <3>1, <4>2, <3>4, <1>0
    <3> QED BY <1>0, <3>2, <3>3, <3>4
  <2> QED BY <2>2, <2>3 DEF ExactWindow, t
<1> QED BY <1>1, <1>2, <1>3
=============================================================================
