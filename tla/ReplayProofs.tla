---------------------------- MODULE ReplayProofs ----------------------------
(***************************************************************************)
(* Proofs about ReplayReceiver, for every window width and every set of    *)
(* counters: the window's bits are exact, and the window implements        *)
(* AtMostOnce.                                                             *)
(***************************************************************************)
EXTENDS ReplayReceiver, ReplayWindowProofs

\* The conjunction that is inductive: the answer to a packet is right only if
\* the bits are, and the bits stay right only if the highest counter is.
ReplayInv == TypeOK /\ HighestExact /\ WindowExact

\* Every reachable state of the receiver has an exact window.
LEMMA ReplayInvariant == Spec => []ReplayInv
<1> USE DEF HighestExact, WindowExact
<1>1. Init => ReplayInv
  <2> SUFFICES ASSUME Init PROVE ReplayInv
    OBVIOUS
  <2>1. ZeroReplayState \in ReplayState
    BY DEF ZeroReplayState, ReplayState
  <2> QED BY <2>1, ResetExact DEF Init, ReplayInv, TypeOK, ExactWindow
<1>2. ReplayInv /\ [Next]_vars => ReplayInv'
  <2> SUFFICES ASSUME ReplayInv, [Next]_vars PROVE ReplayInv'
    OBVIOUS
  <2>1. CASE StartHandshake
    BY <2>1, ResetExact DEF StartHandshake, ReplayInv, TypeOK, ExactWindow
  <2>2. ASSUME NEW c \in Counters, OpenData(c) PROVE ReplayInv'
    <3>1. c \in Nat
      BY CountersAssumption
    <3>2. ReplayAccepts(replay, c) \in BOOLEAN
      BY DEF ReplayAccepts
    <3>3. TypeOK'
      BY <2>2, <3>1, <3>2, MarkType DEF OpenData, ReplayInv, TypeOK
    <3>4. CASE ReplayAccepts(replay, c)
      <4>1. ExactWindow(replay, accepted) /\ replay \in ReplayState
            /\ accepted \in SUBSET Nat
        BY DEF ReplayInv, TypeOK, ExactWindow
      <4>2. ExactWindow(ReplayMark(replay, c), accepted \union {c})
        BY <3>1, <3>4, <4>1, MarkExact
      <4> QED BY <2>2, <3>3, <3>4, <4>2 DEF OpenData, ReplayInv, ExactWindow
    <3>5. CASE ~ ReplayAccepts(replay, c)
      <4>1. replay' = replay /\ accepted' = accepted
        BY <2>2, <3>5 DEF OpenData, ReplayMark
      <4> QED BY <3>3, <4>1 DEF ReplayInv, ExactHighest, ExactBits
    <3> QED BY <3>4, <3>5
  <2>3. CASE UNCHANGED vars
    BY <2>3 DEF vars, ReplayInv, TypeOK, ExactHighest, ExactBits
  <2> QED BY <2>1, <2>2, <2>3 DEF Next
<1> QED BY <1>1, <1>2, PTL DEF Spec

\* In every reachable state the bits of the ring are those of the counters
\* accepted, for every width of the window.
THEOREM WindowAlwaysExact == Spec => [](TypeOK /\ HighestExact /\ WindowExact)
  BY ReplayInvariant, PTL DEF ReplayInv

\* highest_rx_counter is the largest counter accepted since the reset, in every
\* reachable state: the slide of replay_check_and_mark never lags or overtakes.
THEOREM HighestAlwaysExact == Spec => []HighestExact
  BY WindowAlwaysExact, PTL

\* The window's fields stay in their ranges whatever counters arrive.
THEOREM ReplayTypes == Spec => []TypeOK
  BY WindowAlwaysExact, PTL

\* Whatever arrives, in whatever order and however often, the bitmap of
\* session.c gives every packet the answer that AtMostOnce prescribes: each
\* counter is accepted at most once, and none is refused that is new and
\* less than W behind the highest.
THEOREM ReplayRefinement == Spec => ImplementsAtMostOnce
<1>1. Init => Abstract!Init
  BY DEF Init, Abstract!Init
<1>2. ReplayInv /\ [Next]_vars => [Abstract!Next]_(Abstract!vars)
  <2> SUFFICES ASSUME ReplayInv, [Next]_vars
               PROVE  [Abstract!Next]_(Abstract!vars)
    OBVIOUS
  <2>1. CASE StartHandshake
    BY <2>1 DEF StartHandshake, Abstract!Next, Abstract!Rekey
  <2>2. ASSUME NEW c \in Counters, OpenData(c)
        PROVE  Abstract!Receive(c)
    <3>1. ReplayAccepts(replay, c) = Abstract!Acceptable(c)
      <4>1. c \in Nat
        BY CountersAssumption
      <4>2. /\ ReplayAccepts(replay, c) \in BOOLEAN
            /\ Abstract!Acceptable(c) \in BOOLEAN
        BY DEF ReplayAccepts, Abstract!Acceptable
      <4> QED BY <4>1, <4>2, AcceptsExact
              DEF ReplayInv, TypeOK, HighestExact, WindowExact, ExactWindow,
                  Abstract!Acceptable
    <3> QED BY <2>2, <3>1 DEF OpenData, Abstract!Receive
  <2>3. CASE UNCHANGED vars
    BY <2>3 DEF vars, Abstract!vars
  <2> QED BY <2>1, <2>2, <2>3 DEF Next, Abstract!Next
<1> QED BY <1>1, <1>2, ReplayInvariant, PTL
        DEF Spec, ImplementsAtMostOnce, Abstract!Spec
=============================================================================
