--------------------------- MODULE RecoveryProofs ---------------------------
(***************************************************************************)
(* One lost keepalive never costs a session that works, and an outage ends *)
(* within a bound once the faults have stopped, for every length of the    *)
(* intervals that leaves room for it, any number of datagrams under way,   *)
(* and all the faults of module Recovery.                                  *)
(***************************************************************************)
EXTENDS Recovery, TLAPS

Initiator == [resolved : BOOLEAN, rx : 0 .. TIMEOUT + 1, age : 0 .. ROTATION + 1, key : Nat]
Responder == [addr : {NoAddr, Here, Gone}, tx : 0 .. KEEPALIVE + 1, key : Nat]
InitUnderWay == [src : {Here, Gone}, cur : BOOLEAN, fresh : BOOLEAN,
                 copies : 1 .. MaxCopies, age : 0 .. DELAY]

Typed ==
  /\ init \in Initiator /\ resp \in Responder
  /\ inits \in Seq(InitUnderWay)
  /\ resps \in SUBSET InTransit /\ data \in SUBSET InTransit
  /\ turn \in SUBSET {"I", "R"} /\ calm \in BOOLEAN
  /\ missed \in 0 .. 2 /\ down \in 0 .. OutageBound + 1

-----------------------------------------------------------------------------
(***************************************************************************)
(* The inductive invariant                                                 *)
(***************************************************************************)
Working(i, r) == Established(i) /\ i.key = r.key /\ r.addr = Here

\* With nothing lost, either nothing was sent since the initiator last heard, or
\* the first datagram sent since is under way.
FirstUnderWay(i, r, packets) ==
  \/ i.rx <= r.tx
  \/ \E m \in packets : m.key = i.key /\ m.age <= i.rx /\ i.rx <= m.age + KEEPALIVE + 1

\* And each datagram sent since is the last one, or has a successor under way
\* that followed within a keepalive interval.
SuccessorUnderWay(i, r, packets) ==
  \A m \in packets :
    (m.key = i.key /\ m.age <= i.rx) =>
      \/ m.age <= r.tx
      \/ \E n \in packets : n.key = i.key /\ n.age < m.age /\ m.age <= n.age + KEEPALIVE + 1

\* With one lost, the one after it is due or under way.
SecondUnderWay(i, r, packets) ==
  \/ i.rx <= r.tx + KEEPALIVE + 1
  \/ \E m \in packets : m.key = i.key /\ i.rx <= m.age + 2 * (KEEPALIVE + 1)

SilenceExplained(i, r, packets, lost) ==
  Working(i, r) =>
    /\ lost = 0 => FirstUnderWay(i, r, packets) /\ SuccessorUnderWay(i, r, packets)
    /\ lost = 1 => SecondUnderWay(i, r, packets)

\* A responder that has been round in this unit of time has sent a keepalive
\* if one was due.
KeepaliveInTime == ("R" \notin turn /\ CanKeepalive(resp)) => resp.tx <= KEEPALIVE

\* The keys of a RESPONSE under way are not those the initiator has.
ResponsesLeadOn == \A m \in resps : m.key # init.key

LossInv ==
  /\ SilenceExplained(init, resp, data, missed)
  /\ KeepaliveInTime
  /\ ResponsesLeadOn

-----------------------------------------------------------------------------
(***************************************************************************)
(* Type correctness                                                        *)
(***************************************************************************)

\* The bounds that the assumption on the intervals gives.
LEMMA Bounds ==
  /\ KEEPALIVE \in Nat /\ TIMEOUT \in Nat /\ ROTATION \in Nat /\ DELAY \in Nat
  /\ MaxInits \in Nat /\ MaxCopies \in Nat /\ MaxCopies > 0
  /\ DELAY > 0 /\ TIMEOUT > DELAY + 2 * (KEEPALIVE + 1)
  /\ OutageBound \in Nat
BY TimerAssumption DEF OutageBound

\* 0 is an age, and no bound is below it.
LEMMA Smallest ==
  /\ 0 \in 0 .. DELAY /\ 0 \in 0 .. TIMEOUT + 1 /\ 0 \in 0 .. KEEPALIVE + 1
  /\ 0 <= TIMEOUT + 1 + DELAY
BY Bounds

\* Ages under way are natural numbers.
LEMMA AgesAreNat == \A a \in 0 .. DELAY : a \in Nat
BY Bounds

\* Below the bound there is room for one more copy.
LEMMA OneCopyMore ==
  ASSUME NEW c \in 1 .. MaxCopies, c < MaxCopies
  PROVE  c + 1 \in 1 .. MaxCopies
BY Bounds

\* A function over 1 .. n is a sequence of length n.
LEMMA IsSequence ==
  ASSUME NEW S, NEW n \in Nat, NEW s \in [1 .. n -> S]
  PROVE  s \in Seq(S) /\ Len(s) = n
OBVIOUS

\* One INIT less, or one copy less of it: what is left are INITs.
LEMMA TakenTyped ==
  ASSUME NEW s \in Seq(InitUnderWay), NEW k \in 1 .. Len(s)
  PROVE  Taken(s, k) \in Seq(InitUnderWay)
<1>1. /\ Len(s) \in Nat /\ Len(s) - 1 \in Nat
      /\ \A j \in 1 .. Len(s) : s[j] \in InitUnderWay
      /\ \A j \in 1 .. Len(s) - 1 : j \in 1 .. Len(s) /\ j + 1 \in 1 .. Len(s)
  OBVIOUS
<1>2. CASE s[k].copies > 1
  <2> DEFINE one == [s[k] EXCEPT !.copies = @ - 1]
  <2>1. s[k].copies - 1 \in 1 .. MaxCopies
    BY <1>1, <1>2, Bounds DEF InitUnderWay
  <2>2. one \in InitUnderWay
    BY Zenon, <1>1, <2>1 DEF InitUnderWay
  <2>3. Taken(s, k) = [s EXCEPT ![k] = one]
    BY Zenon, <1>2 DEF Taken
  <2> HIDE DEF one
  <2> QED
    BY <2>2, <2>3
<1>3. CASE ~ (s[k].copies > 1)
  <2>1. Taken(s, k) = [j \in 1 .. Len(s) - 1 |-> IF j < k THEN s[j] ELSE s[j + 1]]
    BY Zenon, <1>3 DEF Taken
  <2>2. Taken(s, k) \in [1 .. Len(s) - 1 -> InitUnderWay]
    BY Zenon, <1>1, <2>1
  <2> QED
    BY Zenon, <1>1, <2>2, IsSequence
<1> QED
  BY Zenon, <1>2, <1>3

\* Superseded and overtaken INITs, and those left when one is taken, are INITs.
LEMMA InitsTyped ==
  ASSUME Typed
  PROVE  /\ Superseded \in Seq(InitUnderWay) /\ Len(Superseded) = Len(inits)
         /\ \A k \in 1 .. Len(inits) :
              /\ inits[k] \in InitUnderWay
              /\ Overtaken(k) \in Seq(InitUnderWay) /\ Len(Overtaken(k)) = Len(inits)
              /\ Taken(inits, k) \in Seq(InitUnderWay)
              /\ Taken(Overtaken(k), k) \in Seq(InitUnderWay)
<1>1. inits \in Seq(InitUnderWay) /\ Len(inits) \in Nat
  BY DEF Typed
<1>2. \A k \in 1 .. Len(inits) : inits[k] \in InitUnderWay
  BY <1>1
<1>3. Superseded \in [1 .. Len(inits) -> InitUnderWay]
  BY Zenon, <1>2 DEF Superseded, InitUnderWay
<1>4. Superseded \in Seq(InitUnderWay) /\ Len(Superseded) = Len(inits)
  BY Zenon, <1>1, <1>3, IsSequence
<1>5. ASSUME NEW k \in 1 .. Len(inits)
      PROVE  Overtaken(k) \in Seq(InitUnderWay) /\ Len(Overtaken(k)) = Len(inits)
  <2>1. \A j \in 1 .. Len(inits) : [inits[j] EXCEPT !.fresh = FALSE] \in InitUnderWay
    BY Zenon, <1>2 DEF InitUnderWay
  <2>2. Overtaken(k) \in [1 .. Len(inits) -> InitUnderWay]
    BY Zenon, <1>2, <2>1 DEF Overtaken
  <2> QED
    BY Zenon, <1>1, <2>2, IsSequence
<1>6. ASSUME NEW k \in 1 .. Len(inits)
      PROVE  Taken(inits, k) \in Seq(InitUnderWay) /\ Taken(Overtaken(k), k) \in Seq(InitUnderWay)
  BY Zenon, <1>1, <1>5, TakenTyped
<1> QED
  BY Zenon, <1>2, <1>4, <1>5, <1>6

\* SendInit writes a sequence of INITs.
LEMMA SendInitTyped ==
  ASSUME Typed, SendInit
  PROVE  /\ inits' \in Seq(InitUnderWay)
         /\ resps' = {} /\ data' = {} /\ missed' = 0
<1> DEFINE sent == [src |-> Here, cur |-> TRUE, fresh |-> TRUE, copies |-> 1, age |-> 0]
           kept == IF Len(inits) < MaxInits THEN Superseded ELSE Tail(Superseded)
<1>1. sent \in InitUnderWay
  BY Bounds DEF InitUnderWay
<1>2. kept \in Seq(InitUnderWay)
  <2>1. Superseded \in Seq(InitUnderWay) /\ Len(Superseded) = Len(inits)
    BY Zenon, InitsTyped
  <2>2. CASE Len(inits) < MaxInits
    BY Zenon, <2>1, <2>2
  <2>3. CASE ~ (Len(inits) < MaxInits)
    <3>1. Superseded # <<>>
      BY <2>1, <2>3, TimerAssumption
    <3> QED
      BY <2>1, <2>3, <3>1
  <2> QED
    BY Zenon, <2>2, <2>3
<1>3. Append(kept, sent) \in Seq(InitUnderWay)
  BY <1>1, <1>2
<1> QED
  BY Zenon, <1>3 DEF SendInit

\* What a handshake leaves of an initiator is one.
LEMMA InitiateTyped ==
  ASSUME NEW i \in Initiator, NEW resolved \in BOOLEAN
  PROVE  /\ initiate_handshake(i, resolved) \in Initiator
         /\ CanSendInit(i, resolved) => initiate_handshake(i, resolved).key = NoKey
         /\ ~ CanSendInit(i, resolved) =>
              initiate_handshake(i, resolved) = [i EXCEPT !.rx = 0]
<1>1. 0 \in 0 .. TIMEOUT + 1 /\ ROTATION + 1 \in 0 .. ROTATION + 1 /\ NoKey \in Nat
  BY Bounds DEF NoKey
<1>2. CASE CanSendInit(i, resolved)
  <2>1. initiate_handshake(i, resolved) =
          [i EXCEPT !.resolved = TRUE, !.rx = 0, !.key = NoKey, !.age = ROTATION + 1]
    BY Zenon, <1>2 DEF initiate_handshake
  <2> QED
    BY Zenon, <1>1, <1>2, <2>1 DEF Initiator
<1>3. CASE ~ CanSendInit(i, resolved)
  <2>1. initiate_handshake(i, resolved) = [i EXCEPT !.rx = 0]
    BY Zenon, <1>3 DEF initiate_handshake
  <2> QED
    BY Zenon, <1>1, <1>3, <2>1 DEF Initiator
<1> QED
  BY Zenon, <1>2, <1>3

\* The end of the initiator's iterations.
LEMMA InitiatorTimersTyped ==
  ASSUME Typed, NEW i \in Initiator, NEW responses \in SUBSET InTransit,
         NEW packets \in SUBSET InTransit, NEW lost \in 0 .. 2,
         NEW due \in BOOLEAN, NEW resolved \in BOOLEAN,
         InitiatorTimers(i, responses, packets, lost, due, resolved)
  PROVE  Typed'
<1>1. init' \in Initiator
  BY Zenon, InitiateTyped DEF InitiatorTimers
<1>2. /\ inits' \in Seq(InitUnderWay)
      /\ resps' \in SUBSET InTransit /\ data' \in SUBSET InTransit /\ missed' \in 0 .. 2
  <2>1. CASE due /\ CanSendInit(i, resolved)
    BY <2>1, SendInitTyped DEF InitiatorTimers
  <2>2. CASE ~ (due /\ CanSendInit(i, resolved))
    <3>1. inits \in Seq(InitUnderWay) /\ Superseded \in Seq(InitUnderWay)
      BY Zenon, InitsTyped DEF Typed
    <3> QED
      BY Zenon, <2>2, <3>1 DEF InitiatorTimers
  <2> QED
    BY Zenon, <2>1, <2>2
<1>3. turn' \in SUBSET {"I", "R"} /\ UNCHANGED <<resp, calm, down>>
  BY Zenon DEF InitiatorTimers, Typed
<1> QED
  BY Zenon, <1>1, <1>2, <1>3 DEF Typed

\* The end of the responder's iterations.
LEMMA ResponderTimersTyped ==
  ASSUME Typed, NEW r \in Responder, NEW responses \in SUBSET InTransit,
         NEW due \in BOOLEAN, ResponderTimers(r, responses, due),
         inits' \in Seq(InitUnderWay)
  PROVE  Typed'
<1>1. resp' \in Responder
  <2>1. 0 \in 0 .. KEEPALIVE + 1
    BY Bounds
  <2>2. [r EXCEPT !.tx = 0] \in Responder
    BY Zenon, <2>1 DEF Responder
  <2> QED
    BY Zenon, <2>2 DEF ResponderTimers
<1>2. Sent(r, responses) \in SUBSET InTransit
  BY Bounds DEF Sent, InTransit, Responder
<1>3. data' \in SUBSET InTransit /\ resps' \in SUBSET InTransit
  BY Zenon, <1>2 DEF ResponderTimers, Typed
<1>4. /\ turn' \in SUBSET {"I", "R"} /\ missed' \in 0 .. 2
      /\ UNCHANGED <<init, calm, down>>
  BY DEF ResponderTimers, Typed
<1> QED
  BY Zenon, <1>1, <1>3, <1>4 DEF Typed

\* Time passes.
LEMMA TickTyped ==
  ASSUME Typed, Tick
  PROVE  Typed'
<1>1. init' \in Initiator
  <2>1. init.rx \in 0 .. TIMEOUT + 1 /\ init.age \in 0 .. ROTATION + 1
    BY Zenon DEF Typed, Initiator
  <2>2. /\ Least(init.rx + 1, TIMEOUT + 1) \in 0 .. TIMEOUT + 1
        /\ Least(init.age + 1, ROTATION + 1) \in 0 .. ROTATION + 1
    BY <2>1, Bounds DEF Least
  <2> QED
    BY Zenon, <2>2 DEF Typed, Initiator, Tick
<1>2. resp' \in Responder
  <2>1. Least(resp.tx + 1, KEEPALIVE + 1) \in 0 .. KEEPALIVE + 1
    BY Bounds DEF Least, Typed, Responder
  <2> QED
    BY Zenon, <2>1 DEF Typed, Responder, Tick
<1>3. inits' \in Seq(InitUnderWay)
  <2>1. inits' \in [1 .. Len(inits) -> InitUnderWay]
    <3>1. ASSUME NEW k \in 1 .. Len(inits)
          PROVE  [inits[k] EXCEPT !.age = Least(@ + 1, DELAY)] \in InitUnderWay
      <4>1. inits[k] \in InitUnderWay
        BY DEF Typed
      <4>2. Least(inits[k].age + 1, DELAY) \in 0 .. DELAY
        BY <4>1, Bounds DEF Least, InitUnderWay
      <4> QED
        BY Zenon, <4>1, <4>2 DEF InitUnderWay
    <3> QED
      BY Zenon, <3>1 DEF Tick
  <2> QED
    BY <2>1, IsSequence DEF Typed
<1>4. resps' \in SUBSET InTransit
  <2>1. ASSUME NEW m \in resps
        PROVE  [m EXCEPT !.age = Least(@ + 1, DELAY)] \in InTransit
    <3>1. m \in InTransit
      BY Zenon DEF Typed
    <3>2. Least(m.age + 1, DELAY) \in 0 .. DELAY
      BY <3>1, Bounds DEF Least, InTransit
    <3> QED
      BY Zenon, <3>1, <3>2 DEF InTransit
  <2> QED
    BY Zenon, <2>1 DEF Tick
<1>5. data' \in SUBSET InTransit
  <2>1. ASSUME NEW m \in data PROVE [m EXCEPT !.age = @ + 1] \in InTransit
    <3>1. m \in InTransit /\ m.age < DELAY
      BY Zenon DEF Typed, Tick
    <3>2. m.age + 1 \in 0 .. DELAY
      BY <3>1, Bounds DEF InTransit
    <3> QED
      BY Zenon, <3>1, <3>2 DEF InTransit
  <2> QED
    BY Zenon, <2>1 DEF Tick
<1>6. down' \in 0 .. OutageBound + 1
  <2>1. down \in 0 .. OutageBound + 1 /\ OutageBound \in Nat
    BY Zenon, Bounds DEF Typed
  <2>2. Least(down + 1, OutageBound + 1) \in 0 .. OutageBound + 1 /\ 0 \in 0 .. OutageBound + 1
    BY <2>1 DEF Least
  <2> QED
    BY Zenon, <2>2 DEF Tick
<1>7. turn' \in SUBSET {"I", "R"} /\ UNCHANGED <<calm, missed>>
  BY Zenon DEF Tick
<1> QED
  BY Zenon, <1>1, <1>2, <1>3, <1>4, <1>5, <1>6, <1>7 DEF Typed

\* A datagram reaches one of the two.
LEMMA ReceiveTyped ==
  ASSUME Typed, NEW due \in BOOLEAN, Receive(due)
  PROVE  Typed'
<1>1. ASSUME NEW m \in resps, HandleResponse(m, due) PROVE Typed'
  <2> DEFINE i == [init EXCEPT !.key = m.key, !.rx = 0, !.age = 0]
             packets == {d \in data : d.key = m.key}
  <2>1. i \in Initiator
    <3>1. m.key \in Nat /\ 0 \in 0 .. TIMEOUT + 1 /\ 0 \in 0 .. ROTATION + 1
      BY Bounds DEF Typed, InTransit
    <3> QED
      BY Zenon, <3>1 DEF Typed, Initiator
  <2>2. packets \in SUBSET InTransit /\ {} \in SUBSET InTransit /\ 0 \in 0 .. 2
    BY DEF Typed
  <2>3. InitiatorTimers(i, {}, packets, 0, due, TRUE)
    BY Zenon, <1>1 DEF HandleResponse
  <2> HIDE DEF i, packets
  <2> QED
    BY Zenon, <2>1, <2>2, <2>3, InitiatorTimersTyped
<1>2. ASSUME NEW m \in data, OpenData(m, due) PROVE Typed'
  <2> DEFINE i == [init EXCEPT !.rx = 0]
  <2>1. i \in Initiator
    <3>1. 0 \in 0 .. TIMEOUT + 1
      BY Bounds
    <3> QED
      BY Zenon, <3>1 DEF Typed, Initiator
  <2>2. data \ {m} \in SUBSET InTransit /\ resps \in SUBSET InTransit /\ 0 \in 0 .. 2
    BY DEF Typed
  <2>3. InitiatorTimers(i, resps, data \ {m}, 0, due, TRUE)
    BY Zenon, <1>2 DEF OpenData
  <2> HIDE DEF i
  <2> QED
    BY Zenon, <2>1, <2>2, <2>3, InitiatorTimersTyped
<1>3. ASSUME NEW m \in data, DropData(m, due) PROVE Typed'
  <2>1. /\ init \in Initiator /\ missed \in 0 .. 2
        /\ data \ {m} \in SUBSET InTransit /\ resps \in SUBSET InTransit
    BY Zenon DEF Typed
  <2> QED
    BY Zenon, <1>3, <2>1, InitiatorTimersTyped DEF DropData
<1>4. ASSUME NEW k \in 1 .. Len(inits), NEW key \in Keys, NEW sent \in BOOLEAN,
             HandleInit(k, key, sent, due)
      PROVE  Typed'
  <2> DEFINE m   == inits[k]
             r   == IF sent THEN [addr |-> m.src, tx |-> 0, key |-> key]
                            ELSE [resp EXCEPT !.key = key]
             out == IF sent /\ m.cur /\ m.src = Here
                    THEN {[key |-> key, age |-> 0]} ELSE {}
  <2>1. key \in Nat
    BY Bounds DEF Keys
  <2>2. inits \in Seq(InitUnderWay) /\ Len(inits) \in Nat /\ m \in InitUnderWay
    BY InitsTyped DEF Typed
  <2>3. r \in Responder
    <3>1. 0 \in 0 .. KEEPALIVE + 1 /\ m.src \in {NoAddr, Here, Gone}
      BY Zenon, <2>2, Smallest DEF InitUnderWay
    <3>2. [addr |-> m.src, tx |-> 0, key |-> key] \in Responder
      BY Zenon, <2>1, <3>1 DEF Responder
    <3>3. [resp EXCEPT !.key = key] \in Responder
      BY Zenon, <2>1 DEF Typed, Responder
    <3> QED
      BY Zenon, <3>2, <3>3
  <2>4. resps \union out \in SUBSET InTransit
    BY <2>1, Bounds DEF Typed, InTransit
  <2>5. inits' \in Seq(InitUnderWay)
    BY Zenon, <1>4, InitsTyped DEF HandleInit
  <2>6. ResponderTimers(r, resps \union out, due)
    BY Zenon, <1>4 DEF HandleInit
  <2> HIDE DEF m, r, out
  <2> QED
    BY Zenon, <2>3, <2>4, <2>5, <2>6, ResponderTimersTyped
<1>5. ASSUME NEW k \in 1 .. Len(inits), RefuseInit(k, due) PROVE Typed'
  <2>1. /\ resp \in Responder /\ resps \in SUBSET InTransit
        /\ inits' \in Seq(InitUnderWay)
    BY Zenon, <1>5, InitsTyped DEF Typed, RefuseInit
  <2> QED
    BY Zenon, <1>5, <2>1, ResponderTimersTyped DEF RefuseInit
<1> QED
  BY Zenon, <1>1, <1>2, <1>3, <1>4, <1>5 DEF Receive

\* A fault.
LEMMA FaultsTyped ==
  ASSUME Typed, Faults
  PROVE  Typed'
<1>1. ASSUME NEW resolved \in BOOLEAN, RestartInitiator(resolved) PROVE Typed'
  <2> DEFINE i == [resolved |-> FALSE, rx |-> 0, age |-> ROTATION + 1, key |-> NoKey]
  <2>1. i \in Initiator
    BY Bounds DEF Initiator, NoKey
  <2>2. init' \in Initiator
    BY Zenon, <1>1, <2>1, InitiateTyped DEF RestartInitiator
  <2>3. /\ inits' \in Seq(InitUnderWay)
        /\ resps' = {} /\ data' = {} /\ missed' = 0
    BY Zenon, <1>1, InitsTyped, SendInitTyped DEF RestartInitiator
  <2> QED
    BY <1>1, <2>2, <2>3 DEF RestartInitiator, Typed
<1>2. CASE RestartResponder
  <2>1. resp' \in Responder
    BY <1>2, Bounds DEF RestartResponder, Responder, NoKey
  <2>2. inits' \in Seq(InitUnderWay)
    <3>1. \A k \in 1 .. Len(inits) : [inits[k] EXCEPT !.fresh = TRUE] \in InitUnderWay
      BY Zenon, InitsTyped DEF InitUnderWay
    <3>2. inits' \in [1 .. Len(inits) -> InitUnderWay]
      BY Zenon, <1>2, <3>1 DEF RestartResponder
    <3> QED
      BY <3>2, IsSequence DEF Typed
  <2> QED
    BY <1>2, <2>1, <2>2 DEF RestartResponder, Typed
<1>3. ASSUME NEW k \in 1 .. Len(inits), LoseInit(k) PROVE Typed'
  BY Zenon, <1>3, InitsTyped DEF LoseInit, Typed
<1>4. ASSUME NEW m \in resps, LoseResponse(m) PROVE Typed'
  BY Zenon, <1>4 DEF LoseResponse, Typed
<1>5. ASSUME NEW m \in data, LoseData(m) PROVE Typed'
  BY <1>5 DEF LoseData, Typed, Least
<1>6. ASSUME NEW k \in 1 .. Len(inits), DuplicateInit(k) PROVE Typed'
  <2> DEFINE one == [inits[k] EXCEPT !.copies = @ + 1]
  <2>1. inits \in Seq(InitUnderWay) /\ inits[k] \in InitUnderWay
    BY Zenon, InitsTyped DEF Typed
  <2>2. inits[k].copies + 1 \in 1 .. MaxCopies
    <3>1. inits[k].copies \in 1 .. MaxCopies
      BY Zenon, <2>1 DEF InitUnderWay
    <3>2. inits[k].copies < MaxCopies
      BY Zenon, <1>6 DEF DuplicateInit
    <3> QED
      BY Zenon, <3>1, <3>2, OneCopyMore
  <2>3. one \in InitUnderWay
    BY Zenon, <2>1, <2>2 DEF InitUnderWay
  <2>4. inits' = [inits EXCEPT ![k] = one]
    BY Zenon, <1>6 DEF DuplicateInit
  <2> HIDE DEF one
  <2>5. inits' \in Seq(InitUnderWay)
    BY <2>1, <2>3, <2>4
  <2> QED
    BY Zenon, <1>6, <2>5 DEF DuplicateInit, Typed
<1>7. CASE Move
  <2>1. resp' \in Responder
    BY Zenon, <1>7 DEF Move, Typed, Responder
  <2>2. inits' \in Seq(InitUnderWay)
    <3>1. \A k \in 1 .. Len(inits) : [inits[k] EXCEPT !.src = Gone] \in InitUnderWay
      BY Zenon, InitsTyped DEF InitUnderWay
    <3>2. inits' \in [1 .. Len(inits) -> InitUnderWay]
      BY Zenon, <1>7, <3>1 DEF Move
    <3> QED
      BY <3>2, IsSequence DEF Typed
  <2>3. 0 \in 0 .. 2
    OBVIOUS
  <2>4. resps' = {} /\ data' = {} /\ missed' = 0 /\ UNCHANGED <<init, turn, calm, down>>
    BY Zenon, <1>7 DEF Move
  <2> QED
    BY Zenon, <2>1, <2>2, <2>3, <2>4 DEF Typed
<1> QED
  BY Zenon, <1>1, <1>2, <1>3, <1>4, <1>5, <1>6, <1>7 DEF Faults

\* The initial state has the types.
LEMMA TypedInit == Init => Typed
<1> SUFFICES ASSUME Init PROVE Typed
  BY Zenon
<1>1. init \in Initiator /\ resp \in Responder
  BY Bounds DEF Init, Initiator, Responder, NoKey
<1>2. inits \in Seq(InitUnderWay)
  BY DEF Init
<1>3. missed \in 0 .. 2 /\ down \in 0 .. OutageBound + 1
  BY Bounds DEF Init
<1> QED
  BY Zenon, <1>1, <1>2, <1>3 DEF Init, Typed

\* Every step keeps them.
LEMMA TypedNext == Typed /\ [Next]_vars => Typed'
<1> SUFFICES ASSUME Typed, [Next]_vars PROVE Typed'
  BY Zenon
<1>0. /\ init \in Initiator /\ resp \in Responder
      /\ resps \in SUBSET InTransit /\ data \in SUBSET InTransit /\ missed \in 0 .. 2
  BY Zenon DEF Typed
<1>1. CASE Tick
  BY Zenon, <1>1, TickTyped
<1>2. ASSUME NEW due \in BOOLEAN, NEW resolved \in BOOLEAN, InitiatorIdle(due, resolved)
      PROVE  Typed'
  BY Zenon, <1>0, <1>2, InitiatorTimersTyped DEF InitiatorIdle
<1>3. ASSUME NEW due \in BOOLEAN, ResponderIdle(due) PROVE Typed'
  <2>1. inits' \in Seq(InitUnderWay)
    BY Zenon, <1>3 DEF ResponderIdle, Typed
  <2> QED
    BY Zenon, <1>0, <1>3, <2>1, ResponderTimersTyped DEF ResponderIdle
<1>4. CASE SendPacket
  <2>1. resp' \in Responder
    <3>1. 0 \in 0 .. KEEPALIVE + 1
      BY Bounds
    <3> QED
      BY Zenon, <1>0, <1>4, <3>1 DEF SendPacket, Responder
  <2>2. Sent(resp, resps) \in SUBSET InTransit
    BY <1>0, Bounds DEF Sent, InTransit, Responder
  <2> QED
    BY Zenon, <1>4, <2>1, <2>2 DEF SendPacket, Typed
<1>5. ASSUME NEW due \in BOOLEAN, Receive(due) PROVE Typed'
  BY Zenon, <1>5, ReceiveTyped
<1>6. CASE Faults
  BY <1>6, FaultsTyped
<1>7. CASE Calm
  BY Zenon, <1>7 DEF Calm, Typed
<1>8. CASE UNCHANGED vars
  BY Zenon, <1>8 DEF vars, Typed
<1> QED
  BY Zenon, <1>1, <1>2, <1>3, <1>4, <1>5, <1>6, <1>7, <1>8 DEF Next

-----------------------------------------------------------------------------
(***************************************************************************)
(* Silence is explained                                                    *)
(***************************************************************************)

\* An initiator that has just heard something has no silence to explain.
LEMMA JustHeard ==
  ASSUME NEW i \in Initiator, NEW r \in Responder, NEW packets \in SUBSET InTransit,
         NEW lost \in 0 .. 2, i.rx = 0
  PROVE  SilenceExplained(i, r, packets, lost)
<1>1. r.tx \in Nat /\ \A m \in packets : m.age \in Nat
  BY Bounds DEF Responder, InTransit
<1>2. FirstUnderWay(i, r, packets) /\ SecondUnderWay(i, r, packets)
  BY <1>1, Bounds DEF FirstUnderWay, SecondUnderWay
<1>3. SuccessorUnderWay(i, r, packets)
  BY <1>1 DEF SuccessorUnderWay
<1> QED
  BY Zenon, <1>2, <1>3 DEF SilenceExplained

\* What the responder sends is the next one under way.
LEMMA SentExplains ==
  ASSUME NEW i \in Initiator, NEW r \in Responder, NEW packets \in SUBSET InTransit,
         NEW lost \in 0 .. 2, SilenceExplained(i, r, packets, lost), Working(i, r),
         NEW s \in Responder, s = [r EXCEPT !.tx = 0]
  PROVE  SilenceExplained(i, s, packets \union {[key |-> r.key, age |-> 0]}, lost)
<1> DEFINE n == [key |-> r.key, age |-> 0]
<1>1. /\ r.tx \in Nat /\ r.tx <= KEEPALIVE + 1 /\ i.rx \in Nat
      /\ \A m \in packets : m.age \in Nat
  BY Bounds DEF Responder, Initiator, InTransit
<1>2. s.tx = 0 /\ n.key = i.key /\ n.age = 0
  BY Zenon DEF Responder, Working
<1> HIDE DEF n
<1>3. CASE lost = 0
  <2>1. FirstUnderWay(i, r, packets) /\ SuccessorUnderWay(i, r, packets)
    BY Zenon, <1>3 DEF SilenceExplained
  <2>2. FirstUnderWay(i, s, packets \union {n})
    BY <1>1, <1>2, <2>1, Bounds DEF FirstUnderWay
  <2>3. SuccessorUnderWay(i, s, packets \union {n})
    <3> SUFFICES ASSUME NEW m \in packets \union {n}, m.key = i.key, m.age <= i.rx
                 PROVE  \/ m.age <= s.tx
                        \/ \E o \in packets \union {n} :
                             /\ o.key = i.key /\ o.age < m.age
                             /\ m.age <= o.age + KEEPALIVE + 1
      BY Zenon DEF SuccessorUnderWay
    <3>1. CASE m = n
      BY <1>2, <3>1
    <3>2. CASE m \in packets /\ m.age <= r.tx
      <4>1. m.age = 0 \/ (n.age < m.age /\ m.age <= n.age + KEEPALIVE + 1)
        BY <1>1, <1>2, <3>2, Bounds
      <4> QED
        BY <1>2, <4>1
    <3>3. CASE m \in packets /\ ~ (m.age <= r.tx)
      BY Zenon, <2>1, <3>3 DEF SuccessorUnderWay
    <3> QED
      BY Zenon, <3>1, <3>2, <3>3
  <2> QED
    BY <1>3, <2>2, <2>3 DEF SilenceExplained, n
<1>4. CASE lost = 1
  <2>1. SecondUnderWay(i, r, packets)
    BY Zenon, <1>4 DEF SilenceExplained
  <2>2. SecondUnderWay(i, s, packets \union {n})
    BY <1>1, <1>2, <2>1, Bounds DEF SecondUnderWay
  <2> QED
    BY <1>4, <2>2 DEF SilenceExplained, n
<1> QED
  BY Zenon, <1>3, <1>4 DEF SilenceExplained

\* The end of the initiator's iterations.
LEMMA InitiatorTimersLoss ==
  ASSUME Typed, KeepaliveInTime,
         NEW i \in Initiator, NEW responses \in SUBSET InTransit,
         NEW packets \in SUBSET InTransit, NEW lost \in 0 .. 2,
         NEW due \in BOOLEAN, NEW resolved \in BOOLEAN,
         SilenceExplained(i, resp, packets, lost), \A m \in responses : m.key # i.key,
         InitiatorTimers(i, responses, packets, lost, due, resolved)
  PROVE  LossInv'
<1>1. KeepaliveInTime'
  BY Zenon DEF KeepaliveInTime, InitiatorTimers, CanKeepalive, Established
<1>2. CASE due /\ CanSendInit(i, resolved)
  <2>1. init'.key = NoKey /\ resps' = {}
    BY Zenon, <1>2, InitiateTyped, SendInitTyped DEF InitiatorTimers
  <2> QED
    BY Zenon, <1>1, <2>1
    DEF LossInv, SilenceExplained, Working, Established, ResponsesLeadOn
<1>3. CASE ~ (due /\ CanSendInit(i, resolved))
  <2>1. UNCHANGED resp /\ resps' = responses /\ data' = packets /\ missed' = lost
    BY Zenon, <1>3 DEF InitiatorTimers
  <2>2. CASE due
    <3>1. init' = [i EXCEPT !.rx = 0]
      BY Zenon, <1>3, <2>2, InitiateTyped DEF InitiatorTimers
    <3>2. init' \in Initiator /\ init'.rx = 0 /\ init'.key = i.key
      BY <3>1, Bounds DEF Initiator
    <3>3. SilenceExplained(init', resp, packets, lost)
      BY Zenon, <3>2, JustHeard DEF Typed
    <3> QED
      BY Zenon, <1>1, <2>1, <3>2, <3>3 DEF LossInv, ResponsesLeadOn
  <2>3. CASE ~ due
    BY Zenon, <1>1, <2>1, <2>3 DEF InitiatorTimers, LossInv, ResponsesLeadOn
  <2> QED
    BY Zenon, <2>2, <2>3
<1> QED
  BY Zenon, <1>2, <1>3

\* The end of the responder's iterations.
LEMMA ResponderTimersLoss ==
  ASSUME Typed, NEW r \in Responder, NEW responses \in SUBSET InTransit,
         NEW due \in BOOLEAN, ResponderTimers(r, responses, due),
         SilenceExplained(init, r, data, missed'), \A m \in responses : m.key # init.key
  PROVE  LossInv'
<1>1. UNCHANGED init /\ resps' = responses /\ missed' \in 0 .. 2
  BY DEF ResponderTimers, Typed
<1>2. CASE due
  <2>1. resp' = [r EXCEPT !.tx = 0] /\ data' = data \union Sent(r, responses)
    BY Zenon, <1>2 DEF ResponderTimers
  <2>2. resp' \in Responder /\ resp'.tx = 0 /\ resp'.key = r.key /\ resp'.addr = r.addr
    BY <2>1, Bounds DEF Responder
  <2>3. KeepaliveInTime'
    BY <2>2, Bounds DEF KeepaliveInTime
  <2>4. SilenceExplained(init, resp', data', missed')
    <3>1. CASE Working(init, r)
      <4>1. Sent(r, responses) = {[key |-> r.key, age |-> 0]}
        BY Zenon, <3>1 DEF Working, Sent
      <4> QED
        BY Zenon, <1>1, <2>1, <2>2, <3>1, <4>1, SentExplains DEF Typed
    <3>2. CASE ~ Working(init, r)
      BY Zenon, <2>2, <3>2 DEF Working, SilenceExplained
    <3> QED
      BY Zenon, <3>1, <3>2
  <2> QED
    BY Zenon, <1>1, <2>3, <2>4 DEF LossInv, ResponsesLeadOn
<1>3. CASE ~ due
  <2>1. resp' = r /\ data' = data
    BY Zenon, <1>3 DEF ResponderTimers
  <2>2. KeepaliveInTime'
    <3>1. ~ (CanKeepalive(r) /\ IsDue(r.tx, KEEPALIVE))
      BY Zenon, <1>3 DEF ResponderTimers, KeepaliveDue
    <3>2. CanKeepalive(r) => r.tx <= KEEPALIVE
      BY <3>1, Bounds DEF IsDue, Responder
    <3> QED
      BY Zenon, <2>1, <3>2 DEF KeepaliveInTime
  <2> QED
    BY Zenon, <1>1, <2>1, <2>2 DEF LossInv, ResponsesLeadOn
<1> QED
  BY Zenon, <1>2, <1>3

\* Everything gets older at the same pace: what is due is sent before time passes.
LEMMA TickLoss ==
  ASSUME Typed, LossInv, Tick
  PROVE  LossInv'
<1>1. KeepaliveInTime' /\ UNCHANGED missed
  BY Zenon DEF Tick, KeepaliveInTime
<1>2. /\ init.rx \in Nat /\ init'.rx \in Nat /\ init'.rx <= init.rx + 1
      /\ init'.key = init.key
      /\ init'.rx = init.rx + 1 \/ init'.rx = TIMEOUT + 1
  <2>1. init \in Initiator /\ init.rx \in 0 .. TIMEOUT + 1
    BY Zenon DEF Typed, Initiator
  <2>2. init'.rx = Least(init.rx + 1, TIMEOUT + 1) /\ init'.key = init.key
    BY Zenon, <2>1 DEF Tick, Initiator
  <2> QED
    BY <2>1, <2>2, Bounds DEF Least
<1>3. /\ resp.tx \in Nat /\ resp'.key = resp.key /\ resp'.addr = resp.addr
      /\ resp'.tx = Least(resp.tx + 1, KEEPALIVE + 1)
  BY Bounds DEF Typed, Responder, Tick
<1>4. ResponsesLeadOn'
  <2>1. \A m \in resps : m \in InTransit
    BY Zenon DEF Typed
  <2>2. \A m \in resps : [m EXCEPT !.age = Least(@ + 1, DELAY)].key = m.key
    BY Zenon, <2>1 DEF InTransit
  <2>3. resps' = {[m EXCEPT !.age = Least(@ + 1, DELAY)] : m \in resps}
    BY Zenon DEF Tick
  <2> QED
    BY Zenon, <1>2, <2>2, <2>3 DEF LossInv, ResponsesLeadOn
<1> DEFINE Older(m) == [m EXCEPT !.age = @ + 1]
<1>5. /\ data' = {Older(m) : m \in data}
      /\ \A m \in data : /\ m.age \in Nat /\ m.age < DELAY
                         /\ Older(m).age = m.age + 1 /\ Older(m).key = m.key
  BY DEF Tick, Typed, InTransit
<1> HIDE DEF Older
<1>6. /\ \A m \in data : Older(m) \in data'
      /\ \A d \in data' : \E m \in data : d = Older(m)
  BY Zenon, <1>5
<1>7. SilenceExplained(init', resp', data', missed')
  <2> SUFFICES ASSUME Working(init', resp')
               PROVE  /\ missed = 0 => /\ FirstUnderWay(init', resp', data')
                                       /\ SuccessorUnderWay(init', resp', data')
                      /\ missed = 1 => SecondUnderWay(init', resp', data')
    BY Zenon, <1>1 DEF SilenceExplained
  <2>1. Working(init, resp)
    BY Zenon, <1>2, <1>3 DEF Working, Established
  <2>2. resp'.tx = resp.tx + 1
    <3>1. resp.tx <= KEEPALIVE
      BY Zenon, <2>1
      DEF LossInv, KeepaliveInTime, Tick, CanKeepalive, Working, Here, NoAddr, Established
    <3> QED
      BY <1>3, <3>1, Bounds DEF Least
  <2>3. ASSUME missed = 0 PROVE FirstUnderWay(init', resp', data')
    <3>1. FirstUnderWay(init, resp, data)
      BY Zenon, <2>1, <2>3 DEF LossInv, SilenceExplained
    <3>2. CASE init.rx <= resp.tx
      BY <1>2, <1>3, <2>2, <3>2 DEF FirstUnderWay
    <3>3. ASSUME NEW m \in data, m.key = init.key, m.age <= init.rx,
                 init.rx <= m.age + KEEPALIVE + 1
          PROVE  FirstUnderWay(init', resp', data')
      <4>1. Older(m) \in data' /\ Older(m).key = init'.key
        BY Zenon, <1>2, <1>5, <1>6, <3>3
      <4>2. Older(m).age <= init'.rx /\ init'.rx <= Older(m).age + KEEPALIVE + 1
        BY <1>2, <1>5, <3>3, Bounds
      <4> QED
        BY Zenon, <4>1, <4>2 DEF FirstUnderWay
    <3> QED
      BY Zenon, <3>1, <3>2, <3>3 DEF FirstUnderWay
  <2>4. ASSUME missed = 0 PROVE SuccessorUnderWay(init', resp', data')
    <3>1. SuccessorUnderWay(init, resp, data)
      BY Zenon, <2>1, <2>4 DEF LossInv, SilenceExplained
    <3> SUFFICES ASSUME NEW d \in data', d.key = init'.key, d.age <= init'.rx
                 PROVE  \/ d.age <= resp'.tx
                        \/ \E n \in data' : /\ n.key = init'.key /\ n.age < d.age
                                            /\ d.age <= n.age + KEEPALIVE + 1
      BY Zenon DEF SuccessorUnderWay
    <3>2. PICK m \in data : d = Older(m)
      BY Zenon, <1>6
    <3>3. m.key = init.key /\ m.age <= init.rx /\ d.age = m.age + 1
      BY <1>2, <1>5, <3>2
    <3>4. CASE m.age <= resp.tx
      BY <1>3, <1>5, <2>2, <3>3, <3>4
    <3>5. ASSUME NEW n \in data, n.key = init.key, n.age < m.age,
                 m.age <= n.age + KEEPALIVE + 1
          PROVE  \E o \in data' : /\ o.key = init'.key /\ o.age < d.age
                                  /\ d.age <= o.age + KEEPALIVE + 1
      <4>1. Older(n) \in data' /\ Older(n).key = init'.key /\ Older(n).age = n.age + 1
        BY Zenon, <1>2, <1>5, <1>6, <3>5
      <4>2. Older(n).age < d.age /\ d.age <= Older(n).age + KEEPALIVE + 1
        BY <1>5, <3>3, <3>5, <4>1, Bounds
      <4> QED
        BY Zenon, <4>1, <4>2
    <3> QED
      BY Zenon, <3>1, <3>3, <3>4, <3>5 DEF SuccessorUnderWay
  <2>5. ASSUME missed = 1 PROVE SecondUnderWay(init', resp', data')
    <3>1. SecondUnderWay(init, resp, data)
      BY Zenon, <2>1, <2>5 DEF LossInv, SilenceExplained
    <3>2. CASE init.rx <= resp.tx + KEEPALIVE + 1
      BY <1>2, <1>3, <2>2, <3>2, Bounds DEF SecondUnderWay
    <3>3. ASSUME NEW m \in data, m.key = init.key, init.rx <= m.age + 2 * (KEEPALIVE + 1)
          PROVE  SecondUnderWay(init', resp', data')
      <4>1. Older(m) \in data' /\ Older(m).key = init'.key
        BY Zenon, <1>2, <1>5, <1>6, <3>3
      <4>2. init'.rx <= Older(m).age + 2 * (KEEPALIVE + 1)
        BY <1>2, <1>5, <3>3, Bounds
      <4> QED
        BY Zenon, <4>1, <4>2 DEF SecondUnderWay
    <3> QED
      BY Zenon, <3>1, <3>2, <3>3 DEF SecondUnderWay
  <2> QED
    BY Zenon, <2>3, <2>4, <2>5
<1> QED
  BY Zenon, <1>1, <1>4, <1>7 DEF LossInv

\* A datagram under the initiator's keys ends the silence; the keys of a fresh
\* INIT end the service until its RESPONSE arrives.
LEMMA ReceiveLoss ==
  ASSUME Typed, LossInv, NEW due \in BOOLEAN, Receive(due)
  PROVE  LossInv'
<1>0. /\ KeepaliveInTime /\ ResponsesLeadOn /\ 0 \in 0 .. 2
      /\ init \in Initiator /\ resp \in Responder /\ missed \in 0 .. 2
      /\ resps \in SUBSET InTransit /\ data \in SUBSET InTransit
  BY DEF LossInv, Typed
<1>1. ASSUME NEW m \in resps, HandleResponse(m, due) PROVE LossInv'
  <2> DEFINE i == [init EXCEPT !.key = m.key, !.rx = 0, !.age = 0]
             packets == {d \in data : d.key = m.key}
  <2>1. i \in Initiator /\ i.rx = 0
    <3>1. m.key \in Nat /\ 0 \in 0 .. TIMEOUT + 1 /\ 0 \in 0 .. ROTATION + 1
      BY <1>0, Bounds DEF InTransit
    <3> QED
      BY Zenon, <1>0, <3>1 DEF Initiator
  <2>2. packets \in SUBSET InTransit
    BY Zenon, <1>0
  <2>3. InitiatorTimers(i, {}, packets, 0, due, TRUE)
    BY Zenon, <1>1 DEF HandleResponse
  <2> HIDE DEF i, packets
  <2>4. SilenceExplained(i, resp, packets, 0)
    BY Zenon, <1>0, <2>1, <2>2, JustHeard
  <2>5. {} \in SUBSET InTransit /\ \A d \in {} : d.key # i.key
    BY Zenon
  <2> QED
    BY Zenon, <1>0, <2>1, <2>2, <2>3, <2>4, <2>5, InitiatorTimersLoss
<1>2. ASSUME NEW m \in data, OpenData(m, due) PROVE LossInv'
  <2> DEFINE i == [init EXCEPT !.rx = 0]
             packets == data \ {m}
  <2>1. i \in Initiator /\ i.rx = 0 /\ i.key = init.key
    <3>1. 0 \in 0 .. TIMEOUT + 1
      BY Bounds
    <3> QED
      BY Zenon, <1>0, <3>1 DEF Initiator
  <2>2. packets \in SUBSET InTransit
    BY Zenon, <1>0
  <2>3. InitiatorTimers(i, resps, packets, 0, due, TRUE)
    BY Zenon, <1>2 DEF OpenData
  <2> HIDE DEF i, packets
  <2>4. SilenceExplained(i, resp, packets, 0)
    BY Zenon, <1>0, <2>1, <2>2, JustHeard
  <2>5. \A d \in resps : d.key # i.key
    BY Zenon, <1>0, <2>1 DEF ResponsesLeadOn
  <2> QED
    BY Zenon, <1>0, <2>1, <2>2, <2>3, <2>4, <2>5, InitiatorTimersLoss
<1>3. ASSUME NEW m \in data, DropData(m, due) PROVE LossInv'
  <2> DEFINE packets == data \ {m}
  <2>1. packets \in SUBSET InTransit
    BY <1>0
  <2>2. InitiatorTimers(init, resps, packets, missed, due, TRUE) /\ m.key # init.key
    BY Zenon, <1>3 DEF DropData
  <2>3. SilenceExplained(init, resp, packets, missed)
    BY <2>2 DEF LossInv, SilenceExplained, FirstUnderWay, SuccessorUnderWay, SecondUnderWay
  <2>4. \A d \in resps : d.key # init.key
    BY Zenon, <1>0 DEF ResponsesLeadOn
  <2> HIDE DEF packets
  <2> QED
    BY Zenon, <1>0, <2>1, <2>2, <2>3, <2>4, InitiatorTimersLoss
<1>4. ASSUME NEW k \in 1 .. Len(inits), NEW key \in Keys, NEW sent \in BOOLEAN,
             HandleInit(k, key, sent, due)
      PROVE  LossInv'
  <2> DEFINE m   == inits[k]
             r   == IF sent THEN [addr |-> m.src, tx |-> 0, key |-> key]
                            ELSE [resp EXCEPT !.key = key]
             out == IF sent /\ m.cur /\ m.src = Here
                    THEN {[key |-> key, age |-> 0]} ELSE {}
  <2>1. key \in Nat /\ key # init.key /\ key # NoKey
    <3>1. key \in Nat
      BY Bounds DEF Keys
    <3>2. Fresh(key)
      BY Zenon, <1>4 DEF HandleInit
    <3> QED
      BY Zenon, <3>1, <3>2 DEF Fresh
  <2>2. r \in Responder /\ r.key = key
    <3>1. 0 \in 0 .. KEEPALIVE + 1 /\ m.src \in {NoAddr, Here, Gone}
      BY InitsTyped, Bounds DEF InitUnderWay
    <3>2. [addr |-> m.src, tx |-> 0, key |-> key] \in Responder
      BY Zenon, <2>1, <3>1 DEF Responder
    <3>3. [resp EXCEPT !.key = key] \in Responder /\ [resp EXCEPT !.key = key].key = key
      BY Zenon, <1>0, <2>1 DEF Responder
    <3> QED
      BY Zenon, <3>2, <3>3
  <2>3. resps \union out \in SUBSET InTransit /\ \A o \in resps \union out : o.key # init.key
    BY <1>0, <2>1, Bounds DEF InTransit, ResponsesLeadOn
  <2>4. ResponderTimers(r, resps \union out, due)
    BY Zenon, <1>4 DEF HandleInit
  <2>5. SilenceExplained(init, r, data, missed')
    BY Zenon, <2>1, <2>2 DEF SilenceExplained, Working
  <2> HIDE DEF m, r, out
  <2> QED
    BY Zenon, <2>2, <2>3, <2>4, <2>5, ResponderTimersLoss
<1>5. ASSUME NEW k \in 1 .. Len(inits), RefuseInit(k, due) PROVE LossInv'
  <2>1. ResponderTimers(resp, resps, due) /\ missed' = missed
    BY Zenon, <1>5 DEF RefuseInit, ResponderTimers
  <2>2. SilenceExplained(init, resp, data, missed') /\ \A d \in resps : d.key # init.key
    BY Zenon, <2>1 DEF LossInv, ResponsesLeadOn
  <2> QED
    BY Zenon, <1>0, <2>1, <2>2, ResponderTimersLoss
<1> QED
  BY Zenon, <1>1, <1>2, <1>3, <1>4, <1>5 DEF Receive

\* The first loss leaves the second datagram, and the next ones count.
LEMMA LoseDataLoss ==
  ASSUME Typed, LossInv, NEW m \in data, LoseData(m)
  PROVE  LossInv'
<1>1. KeepaliveInTime' /\ ResponsesLeadOn'
  BY Zenon DEF LoseData, LossInv, KeepaliveInTime, ResponsesLeadOn, CanKeepalive, Established
<1>2. UNCHANGED <<init, resp>> /\ data' = data \ {m}
  BY Zenon DEF LoseData
<1>3. /\ init.rx \in Nat /\ resp.tx \in Nat /\ missed \in 0 .. 2
      /\ \A d \in data : d.age \in Nat
  BY Bounds DEF Typed, Initiator, Responder, InTransit
<1>4. SilenceExplained(init, resp, data \ {m}, missed')
  <2>1. CASE ~ Working(init, resp)
    BY Zenon, <2>1 DEF SilenceExplained
  <2>2. CASE Working(init, resp) /\ m.key # init.key
    <3>1. missed' = missed
      BY Zenon, <2>2 DEF LoseData
    <3> QED
      BY <2>2, <3>1
      DEF LossInv, SilenceExplained, FirstUnderWay, SuccessorUnderWay, SecondUnderWay
  <2>3. CASE Working(init, resp) /\ m.key = init.key
    <3>1. missed' = Least(missed + 1, 2)
      BY Zenon, <2>3 DEF LoseData, InService, Working
    <3>2. CASE missed = 0
      <4>1. missed' = 1
        BY <3>1, <3>2 DEF Least
      <4>2. FirstUnderWay(init, resp, data) /\ SuccessorUnderWay(init, resp, data)
        BY Zenon, <2>3, <3>2 DEF LossInv, SilenceExplained
      <4>3. SecondUnderWay(init, resp, data \ {m})
        <5>1. CASE init.rx <= resp.tx
          BY <1>3, <5>1, Bounds DEF SecondUnderWay
        <5>2. ASSUME NEW d \in data, d # m, d.key = init.key,
                     init.rx <= d.age + KEEPALIVE + 1
              PROVE  SecondUnderWay(init, resp, data \ {m})
          <6>1. init.rx <= d.age + 2 * (KEEPALIVE + 1)
            BY <1>3, <5>2, Bounds
          <6> QED
            BY Zenon, <5>2, <6>1 DEF SecondUnderWay
        <5>3. ASSUME m.age <= init.rx, init.rx <= m.age + KEEPALIVE + 1
              PROVE  SecondUnderWay(init, resp, data \ {m})
          <6>1. CASE m.age <= resp.tx
            BY <1>3, <5>3, <6>1, Bounds DEF SecondUnderWay
          <6>2. ASSUME NEW n \in data, n.key = init.key, n.age < m.age,
                       m.age <= n.age + KEEPALIVE + 1
                PROVE  SecondUnderWay(init, resp, data \ {m})
            <7>1. n # m /\ init.rx <= n.age + 2 * (KEEPALIVE + 1)
              BY <1>3, <5>3, <6>2, Bounds
            <7> QED
              BY Zenon, <6>2, <7>1 DEF SecondUnderWay
          <6> QED
            BY Zenon, <2>3, <4>2, <5>3, <6>1, <6>2 DEF SuccessorUnderWay
        <5> QED
          BY Zenon, <4>2, <5>1, <5>2, <5>3 DEF FirstUnderWay
      <4> QED
        BY <4>1, <4>3 DEF SilenceExplained
    <3>3. CASE missed # 0
      <4>1. missed' = 2
        BY <1>3, <3>1, <3>3 DEF Least
      <4> QED
        BY <4>1 DEF SilenceExplained
    <3> QED
      BY Zenon, <3>2, <3>3
  <2> QED
    BY Zenon, <2>1, <2>2, <2>3
<1> QED
  BY Zenon, <1>1, <1>2, <1>4 DEF LossInv

\* The other faults end the service, or do not touch what the timers look at.
LEMMA FaultsLoss ==
  ASSUME Typed, LossInv, Faults
  PROVE  LossInv'
<1>0. KeepaliveInTime /\ ResponsesLeadOn /\ SilenceExplained(init, resp, data, missed)
  BY Zenon DEF LossInv
<1>1. ASSUME NEW resolved \in BOOLEAN, RestartInitiator(resolved) PROVE LossInv'
  <2> DEFINE i == [resolved |-> FALSE, rx |-> 0, age |-> ROTATION + 1, key |-> NoKey]
  <2>1. i \in Initiator /\ i.key = NoKey
    BY Bounds DEF Initiator, NoKey
  <2>2. init' = initiate_handshake(i, resolved)
    BY Zenon, <1>1 DEF RestartInitiator
  <2>3. [i EXCEPT !.rx = 0].key = NoKey
    BY Zenon
  <2> HIDE DEF i
  <2>4. init'.key = NoKey
    BY Zenon, <2>1, <2>2, <2>3, InitiateTyped
  <2>5. resps' = {} /\ UNCHANGED <<resp, turn>>
    BY Zenon, <1>1, SendInitTyped DEF RestartInitiator
  <2>6. KeepaliveInTime'
    BY Zenon, <1>0, <2>5 DEF KeepaliveInTime, CanKeepalive, Established
  <2> QED
    BY Zenon, <2>4, <2>5, <2>6
    DEF LossInv, SilenceExplained, Working, Established, ResponsesLeadOn
<1>2. CASE RestartResponder
  <2>1. resp'.key = NoKey /\ resp'.addr = NoAddr /\ UNCHANGED <<init, resps>>
    BY Zenon, <1>2 DEF RestartResponder
  <2> QED
    BY Zenon, <1>0, <2>1
    DEF LossInv, SilenceExplained, Working, Established, ResponsesLeadOn,
        KeepaliveInTime, CanKeepalive
<1>3. ASSUME NEW k \in 1 .. Len(inits), LoseInit(k) PROVE LossInv'
  BY Zenon, <1>0, <1>3
  DEF LoseInit, LossInv, ResponsesLeadOn, KeepaliveInTime, CanKeepalive, Established
<1>4. ASSUME NEW m \in resps, LoseResponse(m) PROVE LossInv'
  <2>1. /\ UNCHANGED <<init, resp, turn, missed>> /\ resps' = resps \ {m}
        /\ data' = {d \in data : d.key # m.key} /\ m.key # init.key
    BY Zenon, <1>0, <1>4 DEF LoseResponse, ResponsesLeadOn
  <2>2. SilenceExplained(init, resp, data', missed)
    BY Zenon, <1>0, <2>1
    DEF SilenceExplained, FirstUnderWay, SuccessorUnderWay, SecondUnderWay
  <2> QED
    BY Zenon, <1>0, <2>1, <2>2
    DEF LossInv, ResponsesLeadOn, KeepaliveInTime, CanKeepalive, Established
<1>5. ASSUME NEW m \in data, LoseData(m) PROVE LossInv'
  BY Zenon, <1>5, LoseDataLoss
<1>6. ASSUME NEW k \in 1 .. Len(inits), DuplicateInit(k) PROVE LossInv'
  BY Zenon, <1>0, <1>6
  DEF DuplicateInit, LossInv, ResponsesLeadOn, KeepaliveInTime, CanKeepalive, Established
<1>7. CASE Move
  <2>1. /\ UNCHANGED <<init, turn>> /\ resps' = {}
        /\ resp'.addr # Here /\ resp'.key = resp.key /\ resp'.tx = resp.tx
        /\ resp'.addr = NoAddr \/ resp.addr # NoAddr
    BY Zenon, <1>7 DEF Move, Typed, Responder, Here, Gone, NoAddr
  <2> QED
    BY Zenon, <1>0, <2>1
    DEF LossInv, SilenceExplained, Working, ResponsesLeadOn, KeepaliveInTime,
        CanKeepalive, Established
<1> QED
  BY Zenon, <1>1, <1>2, <1>3, <1>4, <1>5, <1>6, <1>7 DEF Faults

\* Every step keeps the silence explained.
LEMMA LossNext == Typed /\ LossInv /\ [Next]_vars => LossInv'
<1> SUFFICES ASSUME Typed, LossInv, [Next]_vars PROVE LossInv'
  BY Zenon
<1>0. /\ KeepaliveInTime /\ SilenceExplained(init, resp, data, missed)
      /\ \A m \in resps : m.key # init.key
      /\ init \in Initiator /\ resp \in Responder /\ missed \in 0 .. 2
      /\ resps \in SUBSET InTransit /\ data \in SUBSET InTransit
  BY Zenon DEF Typed, LossInv, ResponsesLeadOn
<1>1. CASE Tick
  BY Zenon, <1>1, TickLoss
<1>2. ASSUME NEW due \in BOOLEAN, NEW resolved \in BOOLEAN, InitiatorIdle(due, resolved)
      PROVE  LossInv'
  BY Zenon, <1>0, <1>2, InitiatorTimersLoss DEF InitiatorIdle
<1>3. ASSUME NEW due \in BOOLEAN, ResponderIdle(due) PROVE LossInv'
  <2>1. ResponderTimers(resp, resps, due) /\ missed' = missed
    BY Zenon, <1>3 DEF ResponderIdle, ResponderTimers
  <2>2. SilenceExplained(init, resp, data, missed')
    BY Zenon, <1>0, <2>1
  <2> QED
    BY Zenon, <1>0, <2>1, <2>2, ResponderTimersLoss
<1>4. CASE SendPacket
  <2>1. /\ resp' = [resp EXCEPT !.tx = 0] /\ data' = data \union Sent(resp, resps)
        /\ UNCHANGED <<init, resps, missed>>
    BY Zenon, <1>4 DEF SendPacket
  <2>2. resp' \in Responder /\ resp'.tx = 0 /\ resp'.key = resp.key /\ resp'.addr = resp.addr
    BY <1>0, <2>1, Bounds DEF Responder
  <2>3. KeepaliveInTime'
    BY <2>2, Bounds DEF KeepaliveInTime
  <2>4. SilenceExplained(init, resp', data', missed)
    <3>1. CASE Working(init, resp)
      <4>1. Sent(resp, resps) = {[key |-> resp.key, age |-> 0]}
        BY Zenon, <3>1 DEF Working, Sent
      <4> QED
        BY Zenon, <1>0, <2>1, <2>2, <3>1, <4>1, SentExplains
    <3>2. CASE ~ Working(init, resp)
      BY Zenon, <2>2, <3>2 DEF Working, SilenceExplained
    <3> QED
      BY Zenon, <3>1, <3>2
  <2> QED
    BY Zenon, <1>0, <2>1, <2>3, <2>4 DEF LossInv, ResponsesLeadOn
<1>5. ASSUME NEW due \in BOOLEAN, Receive(due) PROVE LossInv'
  BY Zenon, <1>5, ReceiveLoss
<1>6. CASE Faults
  BY Zenon, <1>6, FaultsLoss
<1>7. CASE Calm \/ UNCHANGED vars
  <2>1. UNCHANGED <<init, resp, resps, data, turn, missed>>
    BY Zenon, <1>7 DEF Calm, vars
  <2> QED
    BY Zenon, <1>0, <2>1 DEF LossInv, ResponsesLeadOn, KeepaliveInTime, CanKeepalive, Established
<1> QED
  BY Zenon, <1>1, <1>2, <1>3, <1>4, <1>5, <1>6, <1>7 DEF Next

-----------------------------------------------------------------------------
(***************************************************************************)
(* How long an outage lasts                                                *)
(***************************************************************************)
NoneCur(s)   == \A k \in 1 .. Len(s) : ~ s[k].cur
NoneFresh(s) == \A k \in 1 .. Len(s) : ~ s[k].fresh
Leads(key, responses) == \E m \in responses : m.key = key

\* What the two sides and the network agree on: the attempt that awaits a RESPONSE
\* is the last one; a session of the responder's that the initiator has, or can get
\* from a RESPONSE under way, is of the last INIT that was fresh.
HandshakeInv(i, r, s, responses, packets) ==
  /\ \A k \in 1 .. Len(s) : s[k].cur => k = Len(s)
  /\ Established(i) => responses = {} /\ NoneCur(s)
  /\ \A m \in packets : m.key = i.key \/ Leads(m.key, responses)
  /\ (Established(r) /\ (r.key = i.key \/ Leads(r.key, responses))) => NoneFresh(s)
  /\ \A m \in responses \union packets : m.key # NoKey

\* The last attempt's INIT is under way to the responder, which will answer it.
Reaching(i, s, d) ==
  /\ ~ Established(i)
  /\ \E k \in 1 .. Len(s) :
       /\ s[k].cur /\ s[k].fresh /\ s[k].src = Here
       /\ i.rx <= s[k].age /\ d <= TIMEOUT + 1 + DELAY + s[k].age

\* The RESPONSE with the responder's keys is under way to the initiator.
Answered(i, r, responses, d) ==
  /\ ~ Established(i) /\ r.addr = Here
  /\ \E m \in responses :
       /\ m.key = r.key
       /\ i.rx <= DELAY + m.age /\ d <= TIMEOUT + 1 + 2 * DELAY + m.age

\* An outage of d units is explained by the initiator's timer, which something
\* from before the outage set last, or by an attempt that will succeed; what the
\* responder sent under keys it no longer has is older than the outage.
Explained(i, r, s, responses, packets, d) ==
  /\ \A m \in responses \union packets : (m.key = r.key /\ r.addr = Here) \/ d <= m.age
  /\ (Working(i, r) /\ d > 0) => (i.rx = 0 /\ i.age = 0)
  /\ \/ Working(i, r)
     \/ d <= DELAY + i.rx
     \/ Reaching(i, s, d)
     \/ Answered(i, r, responses, d)

\* An initiator that has been round has started an attempt if one was due.
TimeoutInTime == "I" \notin turn => init.rx <= TIMEOUT

OutageInv ==
  /\ HandshakeInv(init, resp, inits, resps, data)
  /\ Explained(init, resp, inits, resps, data, down)
  /\ TimeoutInTime
  /\ ~ calm => down = 0
  /\ OutageBounded

\* Without an outage there is nothing to explain.
LEMMA NothingToExplain ==
  ASSUME NEW i \in Initiator, NEW r, NEW s,
         NEW responses \in SUBSET InTransit, NEW packets \in SUBSET InTransit
  PROVE  Explained(i, r, s, responses, packets, 0)
<1>1. i.rx \in Nat /\ \A m \in responses \union packets : m.age \in Nat
  BY Bounds DEF Initiator, InTransit
<1> QED
  BY <1>1, Bounds DEF Explained

\* What is explained is within the bound.
LEMMA ExplainedBounded ==
  ASSUME NEW i \in Initiator, NEW r, NEW s \in Seq(InitUnderWay),
         NEW responses \in SUBSET InTransit, NEW packets \in SUBSET InTransit,
         NEW d \in Nat, Explained(i, r, s, responses, packets, d), ~ Working(i, r)
  PROVE  d <= OutageBound
<1>1. /\ i.rx \in Nat /\ i.rx <= TIMEOUT + 1
      /\ \A m \in responses : m.age \in Nat /\ m.age <= DELAY
      /\ \A k \in 1 .. Len(s) : s[k].age \in Nat /\ s[k].age <= DELAY
  <2>1. i.rx \in 0 .. TIMEOUT + 1 /\ \A m \in responses : m.age \in 0 .. DELAY
    BY Zenon DEF Initiator, InTransit
  <2>2. \A k \in 1 .. Len(s) : s[k] \in InitUnderWay
    OBVIOUS
  <2>3. \A k \in 1 .. Len(s) : s[k].age \in 0 .. DELAY
    BY Zenon, <2>2 DEF InitUnderWay
  <2> QED
    BY <2>1, <2>3, Bounds
<1>2. CASE d <= DELAY + i.rx
  BY <1>1, <1>2, Bounds DEF OutageBound
<1>3. CASE Reaching(i, s, d)
  <2>1. PICK k \in 1 .. Len(s) : d <= TIMEOUT + 1 + DELAY + s[k].age
    BY Zenon, <1>3 DEF Reaching
  <2>2. s[k].age \in Nat /\ s[k].age <= DELAY
    BY Zenon, <1>1
  <2> QED
    BY <2>1, <2>2, Bounds DEF OutageBound
<1>4. CASE Answered(i, r, responses, d)
  <2>1. PICK m \in responses : d <= TIMEOUT + 1 + 2 * DELAY + m.age
    BY Zenon, <1>4 DEF Answered
  <2>2. m.age \in Nat /\ m.age <= DELAY
    BY Zenon, <1>1
  <2> QED
    BY <2>1, <2>2, Bounds DEF OutageBound
<1> QED
  BY Zenon, <1>2, <1>3, <1>4 DEF Explained

-----------------------------------------------------------------------------
Alike(a, b) == a.src = b.src /\ a.cur = b.cur /\ a.fresh = b.fresh /\ a.age = b.age

\* When a copy of the k-th INIT is taken, every INIT left was there before, the
\* last one last, and all but the k-th are left.
LEMMA TakenAlike ==
  ASSUME NEW s \in Seq(InitUnderWay), NEW k \in 1 .. Len(s)
  PROVE  /\ \A j \in 1 .. Len(Taken(s, k)) :
              \E h \in 1 .. Len(s) : /\ Alike(Taken(s, k)[j], s[h])
                                     /\ h = Len(s) => j = Len(Taken(s, k))
         /\ \A h \in 1 .. Len(s) :
              h # k => \E j \in 1 .. Len(Taken(s, k)) : Alike(Taken(s, k)[j], s[h])
<1> DEFINE t == Taken(s, k)
<1>0. Len(s) \in Nat /\ k \in Nat /\ \A j \in 1 .. Len(s) : s[j] \in InitUnderWay
  OBVIOUS
<1>1. CASE s[k].copies > 1
  <2> DEFINE one == [s[k] EXCEPT !.copies = @ - 1]
  <2>1. Alike(one, s[k])
    BY Zenon, <1>0 DEF InitUnderWay, Alike
  <2>2. t = [s EXCEPT ![k] = one]
    BY Zenon, <1>1 DEF Taken
  <2> HIDE DEF one, t
  <2>3. Len(t) = Len(s) /\ \A j \in 1 .. Len(s) : t[j] = IF j = k THEN one ELSE s[j]
    BY <2>2
  <2>4. \A j \in 1 .. Len(s) : Alike(t[j], s[j])
    BY Zenon, <2>1, <2>3 DEF Alike
  <2> QED
    BY Zenon, <2>3, <2>4 DEF t
<1>2. CASE ~ (s[k].copies > 1)
  <2>1. t = [j \in 1 .. Len(s) - 1 |-> IF j < k THEN s[j] ELSE s[j + 1]]
    BY Zenon, <1>2 DEF Taken
  <2> HIDE DEF t
  <2>2. Len(t) = Len(s) - 1
    BY <1>0, <2>1
  <2>3. ASSUME NEW j \in 1 .. Len(t)
        PROVE  \E h \in 1 .. Len(s) : Alike(t[j], s[h]) /\ (h = Len(s) => j = Len(t))
    <3>1. CASE j < k
      <4>1. t[j] = s[j] /\ j \in 1 .. Len(s) /\ j # Len(s)
        BY <1>0, <2>1, <2>2, <3>1
      <4> QED
        BY Zenon, <4>1 DEF Alike
    <3>2. CASE ~ (j < k)
      <4>1. t[j] = s[j + 1] /\ j + 1 \in 1 .. Len(s) /\ (j + 1 = Len(s) => j = Len(t))
        BY <1>0, <2>1, <2>2, <3>2
      <4> QED
        BY Zenon, <4>1 DEF Alike
    <3> QED
      BY Zenon, <3>1, <3>2
  <2>4. ASSUME NEW h \in 1 .. Len(s), h # k
        PROVE  \E j \in 1 .. Len(t) : Alike(t[j], s[h])
    <3>1. CASE h < k
      <4>1. h \in 1 .. Len(t) /\ t[h] = s[h]
        BY <1>0, <2>1, <2>2, <3>1
      <4> QED
        BY Zenon, <4>1 DEF Alike
    <3>2. CASE ~ (h < k)
      <4>1. h - 1 \in 1 .. Len(t) /\ ~ (h - 1 < k) /\ (h - 1) + 1 = h
        BY <1>0, <2>2, <2>4, <3>2
      <4>2. t[h - 1] = s[h]
        BY Zenon, <2>1, <2>2, <4>1
      <4> QED
        BY Zenon, <4>1, <4>2 DEF Alike
    <3> QED
      BY Zenon, <3>1, <3>2
  <2> QED
    BY Zenon, <2>3, <2>4 DEF t
<1> QED
  BY Zenon, <1>1, <1>2

\* Superseded INITs are what they were, but for the attempt.
LEMMA SupersededFields ==
  ASSUME Typed
  PROVE  /\ Len(Superseded) = Len(inits) /\ NoneCur(Superseded)
         /\ \A k \in 1 .. Len(inits) : Superseded[k].fresh = inits[k].fresh
<1>1. Len(Superseded) = Len(inits) /\ \A k \in 1 .. Len(inits) : inits[k] \in InitUnderWay
  BY Zenon, InitsTyped
<1>2. \A k \in 1 .. Len(inits) : /\ Superseded[k].cur = FALSE
                                 /\ Superseded[k].fresh = inits[k].fresh
  BY Zenon, <1>1 DEF Superseded, InitUnderWay
<1> QED
  BY Zenon, <1>1, <1>2 DEF NoneCur

\* An INIT that has gone out is the last one under way.
LEMMA SendInitLast ==
  ASSUME Typed, SendInit
  PROVE  /\ Len(inits') \in Nat /\ Len(inits') > 0
         /\ \A k \in 1 .. Len(inits') : inits'[k].cur => k = Len(inits')
         /\ LET m == inits'[Len(inits')]
            IN  m.cur /\ m.fresh /\ m.src = Here /\ m.age = 0
<1> DEFINE sent == [src |-> Here, cur |-> TRUE, fresh |-> TRUE, copies |-> 1, age |-> 0]
           kept == IF Len(inits) < MaxInits THEN Superseded ELSE Tail(Superseded)
<1>1. Superseded \in Seq(InitUnderWay) /\ Len(Superseded) = Len(inits) /\ NoneCur(Superseded)
  BY Zenon, InitsTyped, SupersededFields
<1>2. kept \in Seq(InitUnderWay) /\ NoneCur(kept)
  <2>1. CASE Len(inits) < MaxInits
    BY Zenon, <1>1, <2>1
  <2>2. CASE ~ (Len(inits) < MaxInits)
    <3>1. Superseded # <<>> /\ Len(Superseded) \in Nat /\ Len(Superseded) > 0
      BY <1>1, <2>2, TimerAssumption
    <3>2. /\ Tail(Superseded) \in Seq(InitUnderWay)
          /\ Len(Tail(Superseded)) = Len(Superseded) - 1
          /\ \A k \in 1 .. Len(Superseded) - 1 : Tail(Superseded)[k] = Superseded[k + 1]
      BY <1>1, <3>1
    <3>3. \A k \in 1 .. Len(Superseded) - 1 : k + 1 \in 1 .. Len(Superseded)
      BY <3>1
    <3> QED
      BY Zenon, <1>1, <2>2, <3>2, <3>3 DEF NoneCur
  <2> QED
    BY Zenon, <2>1, <2>2
<1>3. inits' = Append(kept, sent)
  BY Zenon DEF SendInit
<1>4. sent.cur /\ sent.fresh /\ sent.src = Here /\ sent.age = 0
  BY Zenon
<1>5. sent \in InitUnderWay
  BY Bounds DEF InitUnderWay
<1> HIDE DEF sent, kept
<1>6. /\ Len(kept) \in Nat /\ Len(inits') = Len(kept) + 1
      /\ inits'[Len(kept) + 1] = sent
      /\ \A k \in 1 .. Len(kept) : inits'[k] = kept[k]
  BY <1>2, <1>3, <1>5
<1>7. \A k \in 1 .. Len(inits') : k = Len(inits') \/ k \in 1 .. Len(kept)
  BY <1>6
<1> QED
  BY <1>2, <1>4, <1>6, <1>7 DEF NoneCur

\* A superseded attempt changes nothing for an initiator that has keys.
LEMMA SupersededKeeps ==
  ASSUME Typed, NEW i, Established(i), NEW r, NEW responses, NEW packets,
         responses = {},
         \A m \in packets : m.key = i.key /\ m.key # NoKey,
         (Established(r) /\ r.key = i.key) => NoneFresh(inits)
  PROVE  HandshakeInv(i, r, Superseded, responses, packets)
<1>1. NoneFresh(inits) => NoneFresh(Superseded)
  BY Zenon, SupersededFields DEF NoneFresh
<1>2. NoneCur(Superseded)
  BY Zenon, SupersededFields
<1> QED
  BY Zenon, <1>1, <1>2 DEF HandshakeInv, Leads, NoneCur

\* The end of the initiator's iterations: an attempt starts at most a unit after
\* the timeout, counted from what set the timer.
LEMMA InitiatorTimersOutage ==
  ASSUME Typed, ~ calm => down = 0, OutageBounded,
         NEW i \in Initiator, NEW responses \in SUBSET InTransit,
         NEW packets \in SUBSET InTransit, NEW lost,
         NEW due \in BOOLEAN, NEW resolved \in BOOLEAN,
         InitiatorTimers(i, responses, packets, lost, due, resolved),
         NEW s \in Seq(InitUnderWay), s = IF Established(i) THEN Superseded ELSE inits,
         HandshakeInv(i, resp, s, responses, packets),
         Explained(i, resp, s, responses, packets, down)
  PROVE  OutageInv'
<1>1. /\ UNCHANGED <<resp, calm, down>> /\ turn' = turn \ {"I"}
      /\ HandshakeDue(i, due) /\ (resolved \/ (due /\ ~ i.resolved /\ ~ calm))
  BY Zenon DEF InitiatorTimers
<1>2. (~ calm => down = 0)' /\ OutageBounded'
  BY Zenon, <1>1 DEF OutageBounded
<1>3. i.rx \in Nat /\ i.rx <= TIMEOUT + 1 /\ i.age \in Nat /\ down \in Nat
  BY Bounds DEF Initiator, Typed
<1>4. CASE due /\ CanSendInit(i, resolved)
  <2>1. SendInit /\ resps' = {} /\ data' = {}
    BY Zenon, <1>4 DEF InitiatorTimers, SendInit
  <2>2. init' = [i EXCEPT !.resolved = TRUE, !.rx = 0, !.key = NoKey, !.age = ROTATION + 1]
    BY Zenon, <1>4 DEF InitiatorTimers, initiate_handshake
  <2>3. init'.rx = 0 /\ init'.key = NoKey
    BY Zenon, <2>2 DEF Initiator
  <2>4. ~ Established(init')
    BY Zenon, <2>3 DEF Established
  <2>5. TimeoutInTime'
    BY <2>3, Bounds DEF TimeoutInTime
  <2>6. HandshakeInv(init', resp, inits', {}, {})
    BY Zenon, <2>1, <2>3, <2>4, SendInitLast DEF HandshakeInv, Leads, Established
  <2>7. i.rx >= TIMEOUT \/ (Established(i) /\ i.age >= ROTATION)
    BY Zenon, <1>1, <1>4 DEF HandshakeDue, MayBeDue
  <2>8. down <= TIMEOUT + 1 + DELAY
    <3>1. CASE Working(i, resp)
      <4>1. down = 0
        BY <1>3, <2>7, <3>1, TimerAssumption DEF Explained
      <4> QED
        BY Zenon, <4>1, Smallest
    <3>2. CASE down <= DELAY + i.rx
      BY <1>3, <3>2, Bounds
    <3>3. CASE Reaching(i, s, down)
      <4>1. PICK k \in 1 .. Len(s) : i.rx <= s[k].age
        BY Zenon, <3>3 DEF Reaching
      <4>2. s[k] \in InitUnderWay
        OBVIOUS
      <4>3. s[k].age \in 0 .. DELAY
        BY Zenon, <4>2 DEF InitUnderWay
      <4>4. ~ (i.rx >= TIMEOUT) /\ ~ Established(i)
        BY <1>3, <3>3, <4>1, <4>3, Bounds DEF Reaching
      <4> QED
        BY Zenon, <2>7, <4>4
    <3>4. CASE Answered(i, resp, responses, down)
      <4>1. PICK m \in responses : i.rx <= DELAY + m.age
        BY Zenon, <3>4 DEF Answered
      <4>2. m.age \in 0 .. DELAY
        BY Zenon DEF InTransit
      <4>3. ~ (i.rx >= TIMEOUT) /\ ~ Established(i)
        BY <1>3, <3>4, <4>1, <4>2, Bounds, RoundTripAssumption DEF Answered
      <4> QED
        BY Zenon, <2>7, <4>3
    <3> QED
      BY Zenon, <3>1, <3>2, <3>3, <3>4 DEF Explained
  <2>9. Reaching(init', inits', down)
    <3> DEFINE n == Len(inits')
    <3>1. n \in 1 .. n /\ inits'[n].cur /\ inits'[n].fresh /\ inits'[n].src = Here
          /\ inits'[n].age = 0
      BY <2>1, SendInitLast
    <3> HIDE DEF n
    <3>2. init'.rx <= inits'[n].age /\ down <= TIMEOUT + 1 + DELAY + inits'[n].age
      BY <2>3, <2>8, <3>1, Bounds
    <3>3. n = Len(inits')
      BY Zenon DEF n
    <3> QED
      BY Zenon, <2>4, <3>1, <3>2, <3>3 DEF Reaching
  <2>10. Explained(init', resp, inits', {}, {}, down)
    BY Zenon, <2>4, <2>9 DEF Explained, Working
  <2> QED
    BY Zenon, <1>1, <1>2, <2>1, <2>5, <2>6, <2>10 DEF OutageInv
<1>5. CASE ~ (due /\ CanSendInit(i, resolved))
  <2>1. /\ resps' = responses /\ data' = packets /\ inits' = s
    BY Zenon, <1>5 DEF InitiatorTimers
  <2>2. CASE due
    <3>1. ~ CanSendInit(i, resolved) /\ down = 0
      BY Zenon, <1>1, <1>5, <2>2 DEF CanSendInit
    <3>2. init' = [i EXCEPT !.rx = 0]
      BY Zenon, <2>2, <3>1 DEF InitiatorTimers, initiate_handshake
    <3>3. init' \in Initiator /\ init'.rx = 0 /\ init'.key = i.key
      <4>1. 0 \in 0 .. TIMEOUT + 1
        BY Zenon, Smallest
      <4> QED
        BY Zenon, <3>2, <4>1 DEF Initiator
    <3>4. HandshakeInv(init', resp, s, responses, packets)
      BY Zenon, <3>3 DEF HandshakeInv, Established
    <3>5. Explained(init', resp, s, responses, packets, 0)
      BY Zenon, <3>3, NothingToExplain
    <3>6. TimeoutInTime'
      BY <3>3, Bounds DEF TimeoutInTime
    <3> QED
      BY Zenon, <1>1, <1>2, <2>1, <3>1, <3>4, <3>5, <3>6 DEF OutageInv
  <2>3. CASE ~ due
    <3>1. init' = i
      BY Zenon, <2>3 DEF InitiatorTimers
    <3>2. i.rx <= TIMEOUT
      BY <1>1, <1>3, <2>3, Bounds DEF HandshakeDue, IsDue
    <3>3. TimeoutInTime'
      BY Zenon, <3>1, <3>2 DEF TimeoutInTime
    <3> QED
      BY Zenon, <1>1, <1>2, <2>1, <3>1, <3>3 DEF OutageInv
  <2> QED
    BY Zenon, <2>2, <2>3
<1> QED
  BY Zenon, <1>4, <1>5

\* What the responder sends is under the keys it has.
LEMMA SentKeeps ==
  ASSUME NEW r \in Responder, NEW s, NEW responses, NEW packets, NEW d,
         HandshakeInv(init, r, s, responses, packets),
         Explained(init, r, s, responses, packets, d), Established(r)
  PROVE  LET more == packets \union Sent(r, responses)
         IN  HandshakeInv(init, r, s, responses, more) /\ Explained(init, r, s, responses, more, d)
<1> DEFINE new == Sent(r, responses)
<1>1. \A m \in new : /\ m.key = r.key /\ r.addr = Here
                     /\ m.key = init.key \/ Leads(m.key, responses)
  BY DEF Sent, Leads
<1> HIDE DEF new
<1>2. HandshakeInv(init, r, s, responses, packets \union new)
  BY Zenon, <1>1 DEF HandshakeInv, Established
<1>3. Explained(init, r, s, responses, packets \union new, d)
  BY Zenon, <1>1 DEF Explained
<1> QED
  BY Zenon, <1>2, <1>3 DEF new

\* The end of the responder's iterations.
LEMMA ResponderTimersOutage ==
  ASSUME Typed, TimeoutInTime, ~ calm => down = 0, OutageBounded,
         NEW r \in Responder, NEW responses \in SUBSET InTransit, NEW due \in BOOLEAN,
         ResponderTimers(r, responses, due),
         HandshakeInv(init, r, inits', responses, data),
         Explained(init, r, inits', responses, data, down)
  PROVE  OutageInv'
<1>1. UNCHANGED <<init, calm, down>> /\ resps' = responses /\ turn' = turn \ {"R"}
  BY Zenon DEF ResponderTimers
<1>2. TimeoutInTime' /\ (~ calm => down = 0)' /\ OutageBounded'
  BY Zenon, <1>1 DEF TimeoutInTime, OutageBounded
<1>3. resp'.key = r.key /\ resp'.addr = r.addr
  BY Zenon DEF ResponderTimers, Responder
<1>4. HandshakeInv(init, r, inits', responses, data') /\ Explained(init, r, inits', responses, data', down)
  <2>1. CASE due
    <3>1. Established(r) /\ data' = data \union Sent(r, responses)
      BY Zenon, <2>1 DEF ResponderTimers, KeepaliveDue, CanKeepalive
    <3> QED
      BY Zenon, <3>1, SentKeeps
  <2>2. CASE ~ due
    BY Zenon, <2>2 DEF ResponderTimers
  <2> QED
    BY Zenon, <2>1, <2>2
<1>5. HandshakeInv(init, resp', inits', responses, data')
  BY Zenon, <1>3, <1>4 DEF HandshakeInv, Established
<1>6. Explained(init, resp', inits', responses, data', down)
  BY Zenon, <1>3, <1>4 DEF Explained, Working, Answered
<1> QED
  BY Zenon, <1>1, <1>2, <1>5, <1>6 DEF OutageInv

\* A RESPONSE gives the initiator keys: the responder's, or those of a session
\* that it has replaced, and then the outage is younger than the RESPONSE.
LEMMA HandleResponseOutage ==
  ASSUME Typed, OutageInv, NEW due \in BOOLEAN, NEW m \in resps, HandleResponse(m, due)
  PROVE  OutageInv'
<1> DEFINE i == [init EXCEPT !.key = m.key, !.rx = 0, !.age = 0]
           packets == {d \in data : d.key = m.key}
           none == {}
<1>0. /\ HandshakeInv(init, resp, inits, resps, data) /\ OutageBounded
      /\ Explained(init, resp, inits, resps, data, down) /\ (~ calm => down = 0)
      /\ down \in Nat
  BY Bounds DEF OutageInv, Typed
<1>1. i \in Initiator /\ i.rx = 0 /\ i.age = 0 /\ i.key = m.key
  <2>1. m.key \in Nat /\ 0 \in 0 .. TIMEOUT + 1 /\ 0 \in 0 .. ROTATION + 1
    BY Bounds DEF Typed, InTransit
  <2> QED
    BY Zenon, <2>1 DEF Typed, Initiator
<1>2. packets \in SUBSET InTransit /\ none \in SUBSET InTransit /\ none = {}
  BY Zenon DEF Typed
<1>3. InitiatorTimers(i, none, packets, 0, due, TRUE)
  BY Zenon DEF HandleResponse
<1>4. \A d \in packets : d.key = m.key /\ d \in data
  BY Zenon
<1>5. m.key # NoKey /\ m.age \in 0 .. DELAY
  BY Zenon, <1>0 DEF HandshakeInv, Typed, InTransit
<1> HIDE DEF i, packets, none
<1>6. Established(i)
  BY Zenon, <1>1, <1>5 DEF Established
<1>7. HandshakeInv(i, resp, Superseded, none, packets)
  <2>1. (Established(resp) /\ resp.key = i.key) => NoneFresh(inits)
    BY Zenon, <1>0, <1>1 DEF HandshakeInv, Leads
  <2> QED
    BY Zenon, <1>1, <1>2, <1>4, <1>5, <1>6, <2>1, SupersededKeeps
<1>8. Explained(i, resp, Superseded, none, packets, down)
  <2>1. \A d \in none \union packets : (d.key = resp.key /\ resp.addr = Here) \/ down <= d.age
    BY Zenon, <1>0, <1>2, <1>4 DEF Explained
  <2>2. Working(i, resp) \/ down <= DELAY + i.rx
    <3>1. (m.key = resp.key /\ resp.addr = Here) \/ down <= m.age
      BY Zenon, <1>0 DEF Explained
    <3>2. CASE m.key = resp.key /\ resp.addr = Here
      BY Zenon, <1>1, <1>6, <3>2 DEF Working
    <3>3. CASE down <= m.age
      BY <1>0, <1>1, <1>5, <3>3, Bounds
    <3> QED
      BY Zenon, <3>1, <3>2, <3>3
  <2> QED
    BY Zenon, <1>1, <2>1, <2>2 DEF Explained
<1>9. Superseded \in Seq(InitUnderWay)
  BY Zenon, InitsTyped
<1> QED
  BY Zenon, <1>0, <1>1, <1>2, <1>3, <1>6, <1>7, <1>8, <1>9, InitiatorTimersOutage

\* DATA sets the timer: it is of the session in service, or from before the outage.
LEMMA OpenDataOutage ==
  ASSUME Typed, OutageInv, NEW due \in BOOLEAN, NEW m \in data, OpenData(m, due)
  PROVE  OutageInv'
<1> DEFINE i == [init EXCEPT !.rx = 0]
           packets == data \ {m}
<1>0. /\ HandshakeInv(init, resp, inits, resps, data) /\ OutageBounded
      /\ Explained(init, resp, inits, resps, data, down) /\ (~ calm => down = 0)
      /\ down \in Nat /\ resps \in SUBSET InTransit
  BY Bounds DEF OutageInv, Typed
<1>1. i \in Initiator /\ i.rx = 0 /\ i.age = init.age /\ i.key = init.key
  <2>1. 0 \in 0 .. TIMEOUT + 1
    BY Bounds
  <2> QED
    BY Zenon, <2>1 DEF Typed, Initiator
<1>2. packets \in SUBSET InTransit /\ \A d \in packets : d \in data
  BY Zenon DEF Typed
<1>3. InitiatorTimers(i, resps, packets, 0, due, TRUE) /\ m.key = init.key
  BY Zenon DEF OpenData
<1>4. m.key # NoKey /\ m.age \in 0 .. DELAY
  BY Zenon, <1>0 DEF HandshakeInv, Typed, InTransit
<1> HIDE DEF i, packets
<1>5. Established(i) /\ Established(init)
  BY Zenon, <1>1, <1>3, <1>4 DEF Established
<1>6. HandshakeInv(i, resp, Superseded, resps, packets)
  <2>1. resps = {} /\ \A d \in packets : d.key = i.key /\ d.key # NoKey
    BY Zenon, <1>0, <1>1, <1>2, <1>5 DEF HandshakeInv, Leads
  <2>2. (Established(resp) /\ resp.key = i.key) => NoneFresh(inits)
    BY Zenon, <1>0, <1>1 DEF HandshakeInv
  <2> QED
    BY Zenon, <1>5, <2>1, <2>2, SupersededKeeps
<1>7. Explained(i, resp, Superseded, resps, packets, down)
  <2>1. \A d \in resps \union packets : (d.key = resp.key /\ resp.addr = Here) \/ down <= d.age
    BY Zenon, <1>0, <1>2 DEF Explained
  <2>2. Working(i, resp) \/ down <= DELAY + i.rx
    <3>1. (m.key = resp.key /\ resp.addr = Here) \/ down <= m.age
      BY Zenon, <1>0 DEF Explained
    <3>2. CASE m.key = resp.key /\ resp.addr = Here
      BY Zenon, <1>1, <1>3, <1>5, <3>2 DEF Working
    <3>3. CASE down <= m.age
      BY <1>0, <1>1, <1>4, <3>3, Bounds
    <3> QED
      BY Zenon, <3>1, <3>2, <3>3
  <2>3. (Working(i, resp) /\ down > 0) => (i.rx = 0 /\ i.age = 0)
    BY Zenon, <1>0, <1>1, <1>5 DEF Explained, Working
  <2> QED
    BY Zenon, <2>1, <2>2, <2>3 DEF Explained
<1>8. Superseded \in Seq(InitUnderWay)
  BY InitsTyped
<1> QED
  BY Zenon, <1>0, <1>1, <1>2, <1>3, <1>5, <1>6, <1>7, <1>8, InitiatorTimersOutage

\* An iteration without a datagram that counts: fewer packets are under way.
LEMMA IdleOutage ==
  ASSUME Typed, OutageInv, NEW due \in BOOLEAN, NEW resolved \in BOOLEAN,
         NEW packets \in SUBSET data,
         InitiatorTimers(init, resps, packets, missed, due, resolved)
  PROVE  OutageInv'
<1>0. /\ HandshakeInv(init, resp, inits, resps, data) /\ OutageBounded
      /\ Explained(init, resp, inits, resps, data, down) /\ (~ calm => down = 0)
  BY Zenon DEF OutageInv
<1> DEFINE s == IF Established(init) THEN Superseded ELSE inits
<1>1. /\ s \in Seq(InitUnderWay) /\ init \in Initiator
      /\ resps \in SUBSET InTransit /\ packets \in SUBSET InTransit
  BY Zenon, InitsTyped DEF Typed
<1>2. /\ HandshakeInv(init, resp, s, resps, packets)
      /\ Explained(init, resp, s, resps, packets, down)
  <2>1. CASE Established(init)
    <3>1. resps = {} /\ \A d \in packets : d.key = init.key /\ d.key # NoKey
      BY Zenon, <1>0, <2>1 DEF HandshakeInv, Leads
    <3>2. (Established(resp) /\ resp.key = init.key) => NoneFresh(inits)
      BY Zenon, <1>0 DEF HandshakeInv
    <3>3. HandshakeInv(init, resp, Superseded, resps, packets)
      BY Zenon, <2>1, <3>1, <3>2, SupersededKeeps
    <3>4. Explained(init, resp, Superseded, resps, packets, down)
      BY Zenon, <1>0, <2>1 DEF Explained, Reaching
    <3> QED
      BY Zenon, <2>1, <3>3, <3>4
  <2>2. CASE ~ Established(init)
    <3>1. HandshakeInv(init, resp, inits, resps, packets)
      BY Zenon, <1>0 DEF HandshakeInv
    <3>2. Explained(init, resp, inits, resps, packets, down)
      BY Zenon, <1>0 DEF Explained
    <3> QED
      BY Zenon, <2>2, <3>1, <3>2
  <2> QED
    BY Zenon, <2>1, <2>2
<1>3. s = IF Established(init) THEN Superseded ELSE inits
  BY Zenon
<1> HIDE DEF s
<1> QED
  BY Zenon, <1>0, <1>1, <1>2, <1>3, InitiatorTimersOutage

\* Taking an INIT from the network breaks no agreement.
LEMMA TakenAgrees ==
  ASSUME NEW s \in Seq(InitUnderWay), NEW k \in 1 .. Len(s),
         NEW i, NEW r, NEW responses, NEW packets,
         HandshakeInv(i, r, s, responses, packets)
  PROVE  HandshakeInv(i, r, Taken(s, k), responses, packets)
<1> DEFINE t == Taken(s, k)
<1>1. \A j \in 1 .. Len(t) :
        \E h \in 1 .. Len(s) : Alike(t[j], s[h]) /\ (h = Len(s) => j = Len(t))
  BY Zenon, TakenAlike
<1> HIDE DEF t
<1>2. NoneCur(s) => NoneCur(t)
  BY Zenon, <1>1 DEF NoneCur, Alike
<1>3. NoneFresh(s) => NoneFresh(t)
  BY Zenon, <1>1 DEF NoneFresh, Alike
<1>4. \A j \in 1 .. Len(t) : t[j].cur => j = Len(t)
  <2> SUFFICES ASSUME NEW j \in 1 .. Len(t), t[j].cur PROVE j = Len(t)
    BY Zenon
  <2>1. PICK h \in 1 .. Len(s) : Alike(t[j], s[h]) /\ (h = Len(s) => j = Len(t))
    BY Zenon, <1>1
  <2>2. s[h].cur
    BY Zenon, <2>1 DEF Alike
  <2> QED
    BY Zenon, <2>1, <2>2 DEF HandshakeInv
<1>5. HandshakeInv(i, r, t, responses, packets)
  BY Zenon, <1>2, <1>3, <1>4 DEF HandshakeInv
<1> QED
  BY Zenon, <1>5 DEF t

\* The INIT that explains an outage is still there when another one is taken.
LEMMA TakenReaches ==
  ASSUME NEW s \in Seq(InitUnderWay), NEW k \in 1 .. Len(s),
         NEW i, NEW d, NEW h \in 1 .. Len(s), h # k, ~ Established(i),
         s[h].cur, s[h].fresh, s[h].src = Here,
         i.rx <= s[h].age, d <= TIMEOUT + 1 + DELAY + s[h].age
  PROVE  Reaching(i, Taken(s, k), d)
<1>1. PICK j \in 1 .. Len(Taken(s, k)) : Alike(Taken(s, k)[j], s[h])
  BY Zenon, TakenAlike
<1> QED
  BY Zenon, <1>1 DEF Reaching, Alike

\* A refused INIT is not the one that explains the outage.
LEMMA RefuseInitOutage ==
  ASSUME Typed, OutageInv, NEW due \in BOOLEAN, NEW k \in 1 .. Len(inits),
         RefuseInit(k, due)
  PROVE  OutageInv'
<1>0. /\ HandshakeInv(init, resp, inits, resps, data) /\ OutageBounded /\ TimeoutInTime
      /\ Explained(init, resp, inits, resps, data, down) /\ (~ calm => down = 0)
  BY Zenon DEF OutageInv
<1>1. /\ inits' = Taken(inits, k) /\ ~ inits[k].fresh /\ ResponderTimers(resp, resps, due)
      /\ inits \in Seq(InitUnderWay) /\ resp \in Responder /\ resps \in SUBSET InTransit
  BY Zenon DEF RefuseInit, Typed
<1>2. HandshakeInv(init, resp, inits', resps, data)
  BY Zenon, <1>0, <1>1, TakenAgrees
<1>3. Reaching(init, inits, down) => Reaching(init, inits', down)
  <2> SUFFICES ASSUME Reaching(init, inits, down) PROVE Reaching(init, inits', down)
    BY Zenon
  <2>1. PICK h \in 1 .. Len(inits) :
          /\ inits[h].cur /\ inits[h].fresh /\ inits[h].src = Here
          /\ init.rx <= inits[h].age /\ down <= TIMEOUT + 1 + DELAY + inits[h].age
    BY Zenon DEF Reaching
  <2>2. h # k /\ ~ Established(init)
    BY Zenon, <1>1, <2>1 DEF Reaching
  <2> QED
    BY Zenon, <1>1, <2>1, <2>2, TakenReaches
<1>4. Explained(init, resp, inits', resps, data, down)
  BY Zenon, <1>0, <1>3 DEF Explained
<1> QED
  BY Zenon, <1>0, <1>1, <1>2, <1>4, ResponderTimersOutage

\* What a counter that is the highest seen makes of the INITs under way.
LEMMA OvertakenFields ==
  ASSUME Typed, NEW k \in 1 .. Len(inits)
  PROVE  /\ Overtaken(k) \in Seq(InitUnderWay) /\ Len(Overtaken(k)) = Len(inits)
         /\ \A j \in 1 .. Len(inits) :
              /\ Overtaken(k)[j].cur = inits[j].cur
              /\ j <= k => ~ Overtaken(k)[j].fresh
              /\ j > k => Overtaken(k)[j] = inits[j]
<1>1. \A j \in 1 .. Len(inits) : inits[j] \in InitUnderWay
  BY Zenon, InitsTyped
<1>2. Overtaken(k) \in Seq(InitUnderWay) /\ Len(Overtaken(k)) = Len(inits)
  BY Zenon, InitsTyped
<1>3. ASSUME NEW j \in 1 .. Len(inits), j <= k
      PROVE  Overtaken(k)[j].cur = inits[j].cur /\ ~ Overtaken(k)[j].fresh
  <2>1. Overtaken(k)[j] = [inits[j] EXCEPT !.fresh = FALSE]
    BY Zenon, <1>3 DEF Overtaken
  <2> QED
    BY Zenon, <1>1, <2>1 DEF InitUnderWay
<1>4. ASSUME NEW j \in 1 .. Len(inits), j > k PROVE Overtaken(k)[j] = inits[j]
  BY <1>4 DEF Overtaken, Typed
<1>5. \A j \in 1 .. Len(inits) : j <= k \/ j > k
  BY DEF Typed
<1> QED
  BY Zenon, <1>2, <1>3, <1>4, <1>5

\* A fresh INIT replaces the responder's keys.  None is fresh while the initiator
\* has them or can get them, so what was under way is older than the outage.
LEMMA HandleInitOutage ==
  ASSUME Typed, OutageInv, NEW due \in BOOLEAN, NEW k \in 1 .. Len(inits),
         NEW key \in Keys, NEW sent \in BOOLEAN, HandleInit(k, key, sent, due)
  PROVE  OutageInv'
<1> DEFINE m   == inits[k]
           r   == IF sent THEN [addr |-> m.src, tx |-> 0, key |-> key]
                          ELSE [resp EXCEPT !.key = key]
           out == IF sent /\ m.cur /\ m.src = Here
                  THEN {[key |-> key, age |-> 0]} ELSE {}
           s   == Overtaken(k)
<1>0. /\ HandshakeInv(init, resp, inits, resps, data) /\ OutageBounded /\ TimeoutInTime
      /\ Explained(init, resp, inits, resps, data, down) /\ (~ calm => down = 0)
      /\ down \in Nat /\ init \in Initiator /\ resp \in Responder /\ m \in InitUnderWay
      /\ resps \in SUBSET InTransit /\ data \in SUBSET InTransit
  BY InitsTyped, Bounds DEF OutageInv, Typed
<1>1. key \in Nat
  BY Bounds DEF Keys
<1>2. /\ key # NoKey /\ key # init.key /\ \A o \in resps \union data : o.key # key
  <2>1. Fresh(key)
    BY Zenon DEF HandleInit
  <2> QED
    BY Zenon, <2>1 DEF Fresh
<1>3. r \in Responder /\ r.key = key /\ (sent => r.addr = m.src)
  <2>1. 0 \in 0 .. KEEPALIVE + 1 /\ m.src \in {NoAddr, Here, Gone}
    BY Zenon, <1>0, Smallest DEF InitUnderWay
  <2>2. [addr |-> m.src, tx |-> 0, key |-> key] \in Responder
    BY Zenon, <1>1, <2>1 DEF Responder
  <2>3. [resp EXCEPT !.key = key] \in Responder /\ [resp EXCEPT !.key = key].key = key
    BY Zenon, <1>0, <1>1 DEF Responder
  <2> QED
    BY Zenon, <2>2, <2>3
<1>4. /\ \A o \in out : /\ o.key = key /\ o.age = 0 /\ o \in InTransit
                        /\ sent /\ m.cur /\ m.src = Here
      /\ (sent /\ m.cur /\ m.src = Here) => \E o \in out : o.key = key /\ o.age = 0
  <2> DEFINE new == [key |-> key, age |-> 0]
  <2>1. new \in InTransit /\ new.key = key /\ new.age = 0
    BY <1>1, Bounds DEF InTransit
  <2> HIDE DEF new
  <2>2. out = IF sent /\ m.cur /\ m.src = Here THEN {new} ELSE {}
    BY Zenon DEF new
  <2> HIDE DEF m, out
  <2> QED
    BY Zenon, <2>1, <2>2
<1>5. /\ ResponderTimers(r, resps \union out, due) /\ inits' = Taken(s, k)
      /\ m.fresh /\ (sent \/ ~ calm)
  BY Zenon DEF HandleInit
<1>6. /\ s \in Seq(InitUnderWay) /\ Len(s) = Len(inits) /\ k \in 1 .. Len(s)
      /\ \A j \in 1 .. Len(s) : /\ s[j].cur = inits[j].cur
                                /\ j <= k => ~ s[j].fresh
                                /\ j > k => s[j] = inits[j]
  BY Zenon, OvertakenFields
<1> HIDE DEF r, out, s
<1>7. HandshakeInv(init, r, s, resps \union out, data)
  <2>1. \A j \in 1 .. Len(s) : s[j].cur => j = Len(s)
    BY Zenon, <1>0, <1>6 DEF HandshakeInv
  <2>2. Established(init) => resps \union out = {} /\ NoneCur(s)
    <3> SUFFICES ASSUME Established(init) PROVE resps \union out = {} /\ NoneCur(s)
      BY Zenon
    <3>1. resps = {} /\ NoneCur(inits)
      BY Zenon, <1>0 DEF HandshakeInv
    <3>2. out = {}
      BY Zenon, <1>4, <3>1 DEF NoneCur
    <3> QED
      BY Zenon, <1>6, <3>1, <3>2 DEF NoneCur
  <2>3. (r.key = init.key \/ Leads(r.key, resps \union out)) => NoneFresh(s)
    <3> SUFFICES ASSUME r.key = init.key \/ Leads(r.key, resps \union out)
                 PROVE  NoneFresh(s)
      BY Zenon
    <3>1. m.cur
      BY Zenon, <1>2, <1>3, <1>4 DEF Leads
    <3>2. k = Len(s)
      BY Zenon, <1>0, <1>6, <3>1 DEF HandshakeInv
    <3> QED
      BY <1>6, <3>2 DEF NoneFresh
  <2>4. \A o \in data : o.key = init.key \/ Leads(o.key, resps \union out)
    BY Zenon, <1>0 DEF HandshakeInv, Leads
  <2>5. \A o \in (resps \union out) \union data : o.key # NoKey
    BY Zenon, <1>0, <1>2, <1>4 DEF HandshakeInv
  <2> QED
    BY Zenon, <2>1, <2>2, <2>3, <2>4, <2>5 DEF HandshakeInv
<1>8. HandshakeInv(init, r, inits', resps \union out, data)
  BY Zenon, <1>5, <1>6, <1>7, TakenAgrees
<1>9. resps \union out \in SUBSET InTransit
  BY Zenon, <1>0, <1>4
<1>10. Explained(init, r, inits', resps \union out, data, down)
  <2>1. CASE ~ sent
    BY Zenon, <1>0, <1>5, <1>9, <2>1, NothingToExplain
  <2>2. CASE sent
    <3>1. ~ (Established(resp) /\ (resp.key = init.key \/ Leads(resp.key, resps)))
      BY Zenon, <1>0, <1>5 DEF HandshakeInv, NoneFresh
    <3>2. \A o \in resps \union data : o.key # resp.key
      BY Zenon, <1>0, <3>1 DEF HandshakeInv, Leads, Established
    <3>3. ~ Working(init, resp) /\ ~ Working(init, r) /\ ~ Answered(init, resp, resps, down)
      BY Zenon, <1>2, <1>3, <3>1, <3>2 DEF Working, Answered, Established
    <3>4. \A o \in (resps \union out) \union data :
            (o.key = r.key /\ r.addr = Here) \/ down <= o.age
      BY Zenon, <1>0, <1>3, <1>4, <2>2, <3>2 DEF Explained
    <3>5. ASSUME Reaching(init, inits, down)
          PROVE  Reaching(init, inits', down) \/ Answered(init, r, resps \union out, down)
      <4>1. PICK h \in 1 .. Len(inits) :
              /\ inits[h].cur /\ inits[h].fresh /\ inits[h].src = Here
              /\ init.rx <= inits[h].age /\ down <= TIMEOUT + 1 + DELAY + inits[h].age
        BY Zenon, <3>5 DEF Reaching
      <4>2. ~ Established(init)
        BY Zenon, <3>5 DEF Reaching
      <4>3. CASE h = k
        <5>1. PICK o \in out : o.key = key /\ o.age = 0
          BY Zenon, <1>4, <2>2, <4>1, <4>3
        <5>2. m.age \in 0 .. DELAY /\ init.rx \in 0 .. TIMEOUT + 1
          BY Zenon, <1>0 DEF InitUnderWay, Initiator
        <5>3. init.rx <= DELAY + o.age /\ down <= TIMEOUT + 1 + 2 * DELAY + o.age
          BY <1>0, <4>1, <4>3, <5>1, <5>2, Bounds
        <5>4. r.addr = Here /\ o.key = r.key
          BY Zenon, <1>3, <2>2, <4>1, <4>3, <5>1
        <5> QED
          BY Zenon, <4>2, <5>3, <5>4 DEF Answered
      <4>4. CASE h # k
        <5>1. h = Len(inits)
          BY Zenon, <1>0, <4>1 DEF HandshakeInv
        <5>2. h \in 1 .. Len(s) /\ h > k
          BY <1>6, <4>4, <5>1
        <5>3. s[h] = inits[h]
          BY Zenon, <1>6, <5>2
        <5> QED
          BY Zenon, <1>5, <1>6, <4>1, <4>2, <4>4, <5>2, <5>3, TakenReaches
      <4> QED
        BY Zenon, <4>3, <4>4
    <3> QED
      BY Zenon, <1>0, <3>3, <3>4, <3>5 DEF Explained
  <2> QED
    BY Zenon, <2>1, <2>2
<1> QED
  BY Zenon, <1>0, <1>3, <1>5, <1>8, <1>9, <1>10, ResponderTimersOutage

\* What grows by one stays below what grows by one.
LEMMA OneMore ==
  ASSUME NEW a \in Nat, NEW b \in Nat, NEW c \in Nat, NEW x \in Nat,
         a <= b + 1, b <= c + x
  PROVE  a <= c + (x + 1)
OBVIOUS

\* Time passes: the explanation of an outage gets older with it.
LEMMA TickOutage ==
  ASSUME Typed, OutageInv, Tick
  PROVE  OutageInv'
<1>0. /\ HandshakeInv(init, resp, inits, resps, data) /\ OutageBounded /\ TimeoutInTime
      /\ Explained(init, resp, inits, resps, data, down) /\ (~ calm => down = 0)
      /\ down \in Nat /\ init \in Initiator /\ resp \in Responder /\ turn = {}
      /\ inits \in Seq(InitUnderWay) /\ Len(inits) \in Nat
  BY Bounds DEF OutageInv, Typed, Tick
<1>1. Typed'
  BY Zenon, TickTyped
<1>2. init'.key = init.key /\ resp'.key = resp.key /\ resp'.addr = resp.addr
  BY Zenon, <1>0 DEF Tick, Initiator, Responder
<1>3. init.rx \in Nat /\ init'.rx = init.rx + 1
  <2>1. init.rx \in Nat /\ init.rx <= TIMEOUT
    BY <1>0, Bounds DEF TimeoutInTime, Initiator
  <2>2. init'.rx = Least(init.rx + 1, TIMEOUT + 1)
    BY Zenon, <1>0 DEF Tick, Initiator
  <2> QED
    BY <2>1, <2>2, Bounds DEF Least
<1> DEFINE Aged(m)  == [m EXCEPT !.age = Least(@ + 1, DELAY)]
           Older(m) == [m EXCEPT !.age = @ + 1]
<1>4. /\ Len(inits') = Len(inits)
      /\ \A k \in 1 .. Len(inits) :
           /\ inits'[k].src = inits[k].src /\ inits'[k].cur = inits[k].cur
           /\ inits'[k].fresh = inits[k].fresh
           /\ inits[k].age \in Nat /\ (calm => inits'[k].age = inits[k].age + 1)
  <2>1. inits' = [k \in 1 .. Len(inits) |-> Aged(inits[k])]
    BY Zenon DEF Tick
  <2>2. ASSUME NEW k \in 1 .. Len(inits)
        PROVE  /\ Aged(inits[k]).src = inits[k].src /\ Aged(inits[k]).cur = inits[k].cur
               /\ Aged(inits[k]).fresh = inits[k].fresh
               /\ inits[k].age \in Nat /\ (calm => Aged(inits[k]).age = inits[k].age + 1)
    <3>1. inits[k] \in InitUnderWay
      BY <1>0
    <3>2. inits[k].age \in Nat /\ (calm => inits[k].age < DELAY)
      BY Zenon, <3>1, AgesAreNat DEF InitUnderWay, Tick
    <3>3. calm => Least(inits[k].age + 1, DELAY) = inits[k].age + 1
      BY <3>2, Bounds DEF Least
    <3> QED
      BY Zenon, <3>1, <3>2, <3>3 DEF InitUnderWay
  <2> HIDE DEF Aged
  <2>3. Len(inits') = Len(inits)
    BY <1>0, <2>1
  <2> QED
    BY Zenon, <2>1, <2>2, <2>3
<1>5. \A m \in resps : /\ Aged(m) \in resps' /\ Aged(m).key = m.key
                       /\ m.age \in Nat /\ (calm => Aged(m).age = m.age + 1)
  <2> SUFFICES ASSUME NEW m \in resps
               PROVE  /\ Aged(m) \in resps' /\ Aged(m).key = m.key
                      /\ m.age \in Nat /\ (calm => Aged(m).age = m.age + 1)
    BY Zenon
  <2>1. m \in InTransit
    BY Zenon DEF Typed
  <2>2. m.age \in Nat /\ (calm => m.age < DELAY)
    BY Zenon, <2>1, AgesAreNat DEF InTransit, Tick
  <2>3. calm => Least(m.age + 1, DELAY) = m.age + 1
    BY <2>2, Bounds DEF Least
  <2>4. Aged(m) \in resps'
    BY Zenon DEF Tick
  <2> QED
    BY Zenon, <2>1, <2>2, <2>3, <2>4 DEF InTransit
<1>6. \A m \in data : m.age \in Nat /\ Older(m).key = m.key /\ Older(m).age = m.age + 1
  BY DEF Typed, InTransit
<1>7. /\ \A o \in resps' : \E m \in resps : o = Aged(m)
      /\ \A o \in data' : \E m \in data : o = Older(m)
  BY Zenon DEF Tick
<1> HIDE DEF Aged, Older
<1>8. HandshakeInv(init', resp', inits', resps', data')
  <2>1. Established(init') => resps' = {} /\ NoneCur(inits')
    BY Zenon, <1>0, <1>2, <1>4, <1>7 DEF HandshakeInv, Established, NoneCur
  <2>2. \A x : Leads(x, resps) <=> Leads(x, resps')
    BY Zenon, <1>5, <1>7 DEF Leads
  <2>3. \A o \in data' : o.key = init'.key \/ Leads(o.key, resps')
    BY <1>0, <1>2, <1>6, <1>7, <2>2 DEF HandshakeInv
  <2>4. NoneFresh(inits) => NoneFresh(inits')
    BY Zenon, <1>4 DEF NoneFresh
  <2>5. \A o \in resps' \union data' : o.key # NoKey
    BY <1>0, <1>5, <1>6, <1>7 DEF HandshakeInv
  <2>6. \A k \in 1 .. Len(inits') : inits'[k].cur => k = Len(inits')
    BY Zenon, <1>0, <1>4 DEF HandshakeInv
  <2>7. (Established(resp') /\ (resp'.key = init'.key \/ Leads(resp'.key, resps')))
          => NoneFresh(inits')
    BY Zenon, <1>0, <1>2, <2>2, <2>4 DEF HandshakeInv, Established
  <2> QED
    BY Zenon, <2>1, <2>3, <2>5, <2>6, <2>7 DEF HandshakeInv
<1>9. TimeoutInTime' /\ (~ calm => down = 0)'
  BY Zenon DEF TimeoutInTime, Tick
<1>10. /\ init' \in Initiator /\ inits' \in Seq(InitUnderWay)
       /\ resps' \in SUBSET InTransit /\ data' \in SUBSET InTransit /\ down' \in Nat
  BY <1>1, Bounds DEF Typed
<1>11. InService <=> Working(init, resp)
  BY Zenon DEF InService, Working
<1>12. CASE ~ (calm /\ ~ InService)
  <2>1. down' = 0
    BY Zenon, <1>12 DEF Tick
  <2>2. Explained(init', resp', inits', resps', data', down')
    BY Zenon, <1>10, <2>1, NothingToExplain
  <2>3. OutageBounded'
    BY <2>1, Bounds DEF OutageBounded, OutageBound
  <2> QED
    BY Zenon, <1>8, <1>9, <2>2, <2>3 DEF OutageInv
<1>13. CASE calm /\ ~ InService
  <2>1. down \in Nat /\ down' \in Nat /\ down' <= down + 1
    <3>1. down' = Least(down + 1, OutageBound + 1)
      BY Zenon, <1>13 DEF Tick
    <3> QED
      BY <1>0, <1>10, <3>1, Bounds DEF Least
  <2>2. ~ Working(init, resp) /\ ~ Working(init', resp')
    BY Zenon, <1>2, <1>11, <1>13 DEF Working, Established
  <2>3. \A o \in resps' \union data' : (o.key = resp'.key /\ resp'.addr = Here) \/ down' <= o.age
    <3> SUFFICES ASSUME NEW o \in resps' \union data'
                 PROVE  (o.key = resp'.key /\ resp'.addr = Here) \/ down' <= o.age
      BY Zenon
    <3>1. PICK m \in resps \union data : o.key = m.key /\ o.age = m.age + 1 /\ m.age \in Nat
      <4>1. CASE o \in resps'
        BY Zenon, <1>5, <1>7, <1>13, <4>1
      <4>2. CASE o \in data'
        BY Zenon, <1>6, <1>7, <4>2
      <4> QED
        BY Zenon, <4>1, <4>2
    <3>2. (m.key = resp.key /\ resp.addr = Here) \/ down <= m.age
      BY Zenon, <1>0 DEF Explained
    <3> QED
      BY <1>2, <2>1, <3>1, <3>2
  <2>4. ASSUME Reaching(init, inits, down) PROVE Reaching(init', inits', down')
    <3>1. PICK k \in 1 .. Len(inits) :
            /\ inits[k].cur /\ inits[k].fresh /\ inits[k].src = Here
            /\ init.rx <= inits[k].age /\ down <= TIMEOUT + 1 + DELAY + inits[k].age
      BY Zenon, <2>4 DEF Reaching
    <3>2. k \in 1 .. Len(inits') /\ inits'[k].cur /\ inits'[k].fresh /\ inits'[k].src = Here
      BY Zenon, <1>4, <3>1
    <3>3. inits'[k].age = inits[k].age + 1 /\ inits[k].age \in Nat
      BY Zenon, <1>4, <1>13
    <3>4. init'.rx <= inits'[k].age /\ down' <= TIMEOUT + 1 + DELAY + inits'[k].age
      <4> DEFINE c == TIMEOUT + 1 + DELAY
      <4>1. c \in Nat
        BY Bounds
      <4> HIDE DEF c
      <4>2. down <= c + inits[k].age
        BY Zenon, <3>1 DEF c
      <4>3. down' <= c + (inits[k].age + 1)
        BY Zenon, <2>1, <3>3, <4>1, <4>2, OneMore
      <4> QED
        BY <1>3, <3>1, <3>3, <4>3 DEF c
    <3>5. ~ Established(init')
      BY Zenon, <1>2, <2>4 DEF Reaching, Established
    <3> QED
      BY Zenon, <3>2, <3>4, <3>5 DEF Reaching
  <2>5. ASSUME Answered(init, resp, resps, down)
        PROVE  Answered(init', resp', resps', down')
    <3>1. PICK m \in resps :
            /\ m.key = resp.key
            /\ init.rx <= DELAY + m.age /\ down <= TIMEOUT + 1 + 2 * DELAY + m.age
      BY Zenon, <2>5 DEF Answered
    <3>2. Aged(m) \in resps' /\ Aged(m).key = resp'.key
      BY Zenon, <1>2, <1>5, <3>1
    <3>3. Aged(m).age = m.age + 1 /\ m.age \in Nat
      BY Zenon, <1>5, <1>13
    <3>4. init'.rx <= DELAY + Aged(m).age /\ down' <= TIMEOUT + 1 + 2 * DELAY + Aged(m).age
      <4> DEFINE c == TIMEOUT + 1 + 2 * DELAY
      <4>1. c \in Nat
        BY Bounds
      <4> HIDE DEF c
      <4>2. down <= c + m.age
        BY Zenon, <3>1 DEF c
      <4>3. down' <= c + (m.age + 1)
        BY Zenon, <2>1, <3>3, <4>1, <4>2, OneMore
      <4>4. init'.rx <= DELAY + (m.age + 1)
        BY <1>3, <3>1, <3>3, Bounds
      <4> QED
        BY Zenon, <3>3, <4>3, <4>4 DEF c
    <3>5. ~ Established(init') /\ resp'.addr = Here
      BY Zenon, <1>2, <2>5 DEF Answered, Established
    <3> QED
      BY Zenon, <3>2, <3>4, <3>5 DEF Answered
  <2>6. \/ down' <= DELAY + init'.rx
        \/ Reaching(init', inits', down')
        \/ Answered(init', resp', resps', down')
    <3>1. CASE down <= DELAY + init.rx
      BY <1>3, <2>1, <3>1, Bounds
    <3> QED
      BY Zenon, <1>0, <2>2, <2>4, <2>5, <3>1 DEF Explained
  <2>7. Explained(init', resp', inits', resps', data', down')
    BY Zenon, <2>2, <2>3, <2>6 DEF Explained
  <2>8. OutageBounded'
    BY Zenon, <1>10, <2>2, <2>7, ExplainedBounded DEF OutageBounded
  <2> QED
    BY <1>8, <1>9, <2>7, <2>8 DEF OutageInv
<1> QED
  BY Zenon, <1>12, <1>13

\* The faults come before calm, and there is no outage to explain.
LEMMA FaultsOutage ==
  ASSUME Typed, OutageInv, Faults
  PROVE  OutageInv'
<1>0. /\ HandshakeInv(init, resp, inits, resps, data) /\ TimeoutInTime /\ OutageBounded
      /\ inits \in Seq(InitUnderWay) /\ Len(inits) \in Nat
      /\ \A k \in 1 .. Len(inits) : inits[k] \in InitUnderWay
  BY DEF OutageInv, Typed
<1>1. UNCHANGED <<calm, down>> /\ ~ calm /\ down = 0
  BY Zenon DEF OutageInv, Faults, RestartInitiator, RestartResponder, LoseInit, LoseResponse,
         LoseData, DuplicateInit, Move
<1> SUFFICES HandshakeInv(init', resp', inits', resps', data') /\ TimeoutInTime'
  <2>1. Typed'
    BY Zenon, FaultsTyped
  <2>2. Explained(init', resp', inits', resps', data', 0)
    BY Zenon, <2>1, NothingToExplain DEF Typed
  <2> QED
    BY Zenon, <1>0, <1>1, <2>2 DEF OutageInv, OutageBounded
<1>2. ASSUME NEW resolved \in BOOLEAN, RestartInitiator(resolved)
      PROVE  HandshakeInv(init', resp', inits', resps', data') /\ TimeoutInTime'
  <2> DEFINE i == [resolved |-> FALSE, rx |-> 0, age |-> ROTATION + 1, key |-> NoKey]
  <2>1. init' = initiate_handshake(i, resolved)
    BY <1>2 DEF RestartInitiator
  <2>2. init'.key = NoKey /\ init'.rx = 0
    BY Zenon, <2>1 DEF initiate_handshake
  <2>3. resps' = {} /\ data' = {} /\ resp' = resp
    BY Zenon, <1>2 DEF RestartInitiator, SendInit
  <2>4. \A k \in 1 .. Len(inits') : inits'[k].cur => k = Len(inits')
    <3>1. CASE resolved
      BY Zenon, <1>2, <3>1, SendInitLast DEF RestartInitiator
    <3>2. CASE ~ resolved
      BY Zenon, <1>2, <3>2, SupersededFields DEF RestartInitiator, NoneCur
    <3> QED
      BY Zenon, <3>1, <3>2
  <2>5. TimeoutInTime'
    BY <2>2, Bounds DEF TimeoutInTime
  <2>6. ~ Established(init') /\ ~ (Established(resp') /\ resp'.key = init'.key)
    BY Zenon, <2>2, <2>3 DEF Established
  <2>7. \A x : ~ Leads(x, resps')
    BY Zenon, <2>3 DEF Leads
  <2> QED
    BY Zenon, <2>3, <2>4, <2>5, <2>6, <2>7 DEF HandshakeInv
<1>3. ASSUME RestartResponder
      PROVE  HandshakeInv(init', resp', inits', resps', data') /\ TimeoutInTime'
  <2>1. resp'.key = NoKey /\ UNCHANGED <<init, resps, data, turn>>
    BY Zenon, <1>3 DEF RestartResponder
  <2>2. Len(inits') = Len(inits) /\ \A k \in 1 .. Len(inits) : inits'[k].cur = inits[k].cur
    <3> DEFINE New(m) == [m EXCEPT !.fresh = TRUE]
    <3>1. \A k \in 1 .. Len(inits) : New(inits[k]).cur = inits[k].cur
      BY Zenon, <1>0 DEF InitUnderWay
    <3>2. inits' = [k \in 1 .. Len(inits) |-> New(inits[k])]
      BY Zenon, <1>3 DEF RestartResponder
    <3> HIDE DEF New
    <3>3. Len(inits') = Len(inits)
      BY <1>0, <3>2
    <3> QED
      BY Zenon, <3>1, <3>2, <3>3
  <2> QED
    BY Zenon, <1>0, <2>1, <2>2 DEF HandshakeInv, Established, NoneCur, TimeoutInTime
<1>4. ASSUME NEW k \in 1 .. Len(inits), LoseInit(k)
      PROVE  HandshakeInv(init', resp', inits', resps', data') /\ TimeoutInTime'
  <2>1. UNCHANGED <<init, resp, resps, data, turn>> /\ inits' = Taken(inits, k)
    BY Zenon, <1>4 DEF LoseInit
  <2>2. HandshakeInv(init, resp, Taken(inits, k), resps, data)
    BY Zenon, <1>0, TakenAgrees
  <2> QED
    BY Zenon, <1>0, <2>1, <2>2 DEF TimeoutInTime
<1>5. ASSUME NEW m \in resps, LoseResponse(m)
      PROVE  HandshakeInv(init', resp', inits', resps', data') /\ TimeoutInTime'
  <2>1. /\ UNCHANGED <<init, resp, inits, turn>> /\ resps' = resps \ {m}
        /\ data' = {d \in data : d.key # m.key}
    BY Zenon, <1>5 DEF LoseResponse
  <2>2. \A d \in data' : d.key = init.key \/ Leads(d.key, resps')
    BY Zenon, <1>0, <2>1 DEF HandshakeInv, Leads
  <2>3. \A x : Leads(x, resps') => Leads(x, resps)
    BY Zenon, <2>1 DEF Leads
  <2> QED
    BY Zenon, <1>0, <2>1, <2>2, <2>3 DEF HandshakeInv, TimeoutInTime
<1>6. ASSUME NEW m \in data, LoseData(m)
      PROVE  HandshakeInv(init', resp', inits', resps', data') /\ TimeoutInTime'
  <2>1. UNCHANGED <<init, resp, inits, resps, turn>> /\ data' = data \ {m}
    BY Zenon, <1>6 DEF LoseData
  <2> QED
    BY Zenon, <1>0, <2>1 DEF HandshakeInv, TimeoutInTime
<1>7. ASSUME NEW k \in 1 .. Len(inits), DuplicateInit(k)
      PROVE  HandshakeInv(init', resp', inits', resps', data') /\ TimeoutInTime'
  <2> DEFINE one == [inits[k] EXCEPT !.copies = @ + 1]
  <2>1. UNCHANGED <<init, resp, resps, data, turn>> /\ inits' = [inits EXCEPT ![k] = one]
    BY Zenon, <1>7 DEF DuplicateInit
  <2>2. one.cur = inits[k].cur /\ one.fresh = inits[k].fresh
    BY Zenon, <1>0 DEF InitUnderWay
  <2> HIDE DEF one
  <2>3. /\ Len(inits') = Len(inits)
        /\ \A j \in 1 .. Len(inits) : /\ inits'[j].cur = inits[j].cur
                                      /\ inits'[j].fresh = inits[j].fresh
    BY <1>0, <2>1, <2>2
  <2> QED
    BY Zenon, <1>0, <2>1, <2>3 DEF HandshakeInv, NoneCur, NoneFresh, TimeoutInTime
<1>8. ASSUME Move
      PROVE  HandshakeInv(init', resp', inits', resps', data') /\ TimeoutInTime'
  <2>1. UNCHANGED <<init, turn>> /\ resps' = {} /\ data' = {} /\ resp'.key = resp.key
    BY Zenon, <1>8 DEF Move, Typed, Responder
  <2>2. /\ Len(inits') = Len(inits)
        /\ \A k \in 1 .. Len(inits) : /\ inits'[k].cur = inits[k].cur
                                      /\ inits'[k].fresh = inits[k].fresh
    <3> DEFINE New(m) == [m EXCEPT !.src = Gone]
    <3>1. \A k \in 1 .. Len(inits) : /\ New(inits[k]).cur = inits[k].cur
                                     /\ New(inits[k]).fresh = inits[k].fresh
      BY Zenon, <1>0 DEF InitUnderWay
    <3>2. inits' = [k \in 1 .. Len(inits) |-> New(inits[k])]
      BY Zenon, <1>8 DEF Move
    <3> HIDE DEF New
    <3>3. Len(inits') = Len(inits)
      BY <1>0, <3>2
    <3> QED
      BY Zenon, <3>1, <3>2, <3>3
  <2> QED
    BY Zenon, <1>0, <2>1, <2>2 DEF HandshakeInv, Established, Leads, NoneCur, NoneFresh, TimeoutInTime
<1> QED
  BY Zenon, <1>2, <1>3, <1>4, <1>5, <1>6, <1>7, <1>8 DEF Faults

\* Every step keeps the outage explained.
LEMMA OutageNext == Typed /\ OutageInv /\ [Next]_vars => OutageInv'
<1> SUFFICES ASSUME Typed, OutageInv, [Next]_vars PROVE OutageInv'
  OBVIOUS
<1>0. /\ HandshakeInv(init, resp, inits, resps, data) /\ OutageBounded /\ TimeoutInTime
      /\ Explained(init, resp, inits, resps, data, down) /\ (~ calm => down = 0)
      /\ resp \in Responder /\ resps \in SUBSET InTransit
  BY Zenon DEF OutageInv, Typed
<1>1. CASE Tick
  BY <1>1, TickOutage
<1>2. ASSUME NEW due \in BOOLEAN, NEW resolved \in BOOLEAN, InitiatorIdle(due, resolved)
      PROVE  OutageInv'
  <2>1. InitiatorTimers(init, resps, data, missed, due, resolved) /\ data \in SUBSET data
    BY Zenon, <1>2 DEF InitiatorIdle
  <2> QED
    BY Zenon, <2>1, IdleOutage
<1>3. ASSUME NEW due \in BOOLEAN, ResponderIdle(due) PROVE OutageInv'
  <2>1. ResponderTimers(resp, resps, due) /\ inits' = inits
    BY Zenon, <1>3 DEF ResponderIdle
  <2> QED
    BY Zenon, <1>0, <2>1, ResponderTimersOutage
<1>4. CASE SendPacket
  <2>1. /\ Established(resp) /\ data' = data \union Sent(resp, resps)
        /\ UNCHANGED <<init, inits, resps, calm, down>> /\ turn' = turn \ {"R"}
    BY Zenon, <1>4 DEF SendPacket
  <2>2. resp'.key = resp.key /\ resp'.addr = resp.addr
    BY Zenon, <1>0, <1>4 DEF SendPacket, Responder
  <2>3. /\ HandshakeInv(init, resp, inits, resps, data')
        /\ Explained(init, resp, inits, resps, data', down)
    BY Zenon, <1>0, <2>1, SentKeeps
  <2>4. HandshakeInv(init, resp', inits, resps, data')
    BY Zenon, <2>2, <2>3 DEF HandshakeInv, Established
  <2>5. Explained(init, resp', inits, resps, data', down)
    BY Zenon, <2>2, <2>3 DEF Explained, Working, Answered
  <2>6. TimeoutInTime' /\ OutageBounded'
    BY Zenon, <1>0, <2>1 DEF TimeoutInTime, OutageBounded
  <2> QED
    BY Zenon, <1>0, <2>1, <2>4, <2>5, <2>6 DEF OutageInv
<1>5. ASSUME NEW due \in BOOLEAN, Receive(due) PROVE OutageInv'
  <2>1. ASSUME NEW m \in data, DropData(m, due) PROVE OutageInv'
    <3>1. /\ InitiatorTimers(init, resps, data \ {m}, missed, due, TRUE)
          /\ data \ {m} \in SUBSET data /\ TRUE \in BOOLEAN
      BY Zenon, <2>1 DEF DropData
    <3> QED
      BY Zenon, <3>1, IdleOutage
  <2> QED
    BY Zenon, <1>5, <2>1, HandleResponseOutage, OpenDataOutage, HandleInitOutage, RefuseInitOutage
    DEF Receive
<1>6. CASE Faults
  BY <1>6, FaultsOutage
<1>7. CASE Calm \/ UNCHANGED vars
  <2>1. UNCHANGED <<init, resp, inits, resps, data, turn, down>> /\ (calm' \/ calm' = calm)
    BY Zenon, <1>7 DEF Calm, vars
  <2>2. TimeoutInTime' /\ OutageBounded'
    BY Zenon, <1>0, <2>1 DEF TimeoutInTime, OutageBounded
  <2> QED
    BY Zenon, <1>0, <2>1, <2>2 DEF OutageInv
<1> QED
  BY Zenon, <1>1, <1>2, <1>3, <1>4, <1>5, <1>6, <1>7 DEF Next

-----------------------------------------------------------------------------
\* Every state has the types of Recovery.
THEOREM TypeCorrect == Spec => []TypeOK
<1>1. Typed => TypeOK
  <2> SUFFICES ASSUME Typed PROVE TypeOK
    BY Zenon
  <2>1. \A k \in 1 .. Len(inits) : inits[k] \in InitUnderWay
    BY Zenon, InitsTyped
  <2>2. init \in Initiator /\ resp \in Responder
    BY Zenon DEF Typed
  <2>3. /\ resps \subseteq InTransit /\ data \subseteq InTransit
        /\ turn \subseteq {"I", "R"} /\ calm \in BOOLEAN
        /\ missed \in 0 .. 2 /\ down \in 0 .. OutageBound + 1
    BY Zenon DEF Typed
  <2> QED
    BY <2>1, <2>2, <2>3, Zenon DEF TypeOK, Initiator, Responder, InitUnderWay
<1> QED
  BY <1>1, TypedInit, TypedNext, PTL DEF Spec

\* A session in service whose dead-peer timer runs out has missed two datagrams,
\* for all intervals with 2 * (KEEPALIVE + 1) + DELAY < TIMEOUT.
THEOREM OneLossTolerated == Spec => []ToleratesOneLoss
<1>1. Init => LossInv
  BY DEF Init, LossInv, SilenceExplained, Working, Established, ResponsesLeadOn,
         KeepaliveInTime
<1>2. Typed /\ LossInv => ToleratesOneLoss
  <2> SUFFICES ASSUME Typed, LossInv, InService, init.rx >= TIMEOUT
               PROVE  missed >= 2
    BY Zenon DEF ToleratesOneLoss
  <2>1. /\ init.rx \in Nat /\ resp.tx \in Nat /\ resp.tx <= KEEPALIVE + 1
        /\ missed \in 0 .. 2
        /\ \A m \in data : m.age \in Nat /\ m.age <= DELAY
    BY Bounds DEF Typed, Initiator, Responder, InTransit
  <2>2. missed # 0
    <3> SUFFICES ASSUME missed = 0 PROVE FALSE
      BY Zenon
    <3>1. FirstUnderWay(init, resp, data)
      BY Zenon DEF LossInv, SilenceExplained, InService, Working
    <3> QED
      BY <2>1, <3>1, Bounds DEF FirstUnderWay
  <2>3. missed # 1
    <3> SUFFICES ASSUME missed = 1 PROVE FALSE
      BY Zenon
    <3>1. SecondUnderWay(init, resp, data)
      BY Zenon DEF LossInv, SilenceExplained, InService, Working
    <3> QED
      BY <2>1, <3>1, Bounds DEF SecondUnderWay
  <2> QED
    BY <2>1, <2>2, <2>3
<1> QED
  BY <1>1, <1>2, TypedInit, TypedNext, LossNext, PTL DEF Spec

\* Once the faults have stopped the relationship is out of service for at most a
\* timeout, three times a datagram's way and a unit: the timers of main.c give up
\* an attempt only after its RESPONSE can have come, and the next one succeeds.
THEOREM OutageAlwaysBounded == Spec => []OutageBounded
<1>1. Init => OutageInv
  <2> SUFFICES ASSUME Init PROVE OutageInv
    OBVIOUS
  <2>1. /\ Typed /\ inits = <<>> /\ resps = {} /\ data = {} /\ down = 0
        /\ init.rx = 0 /\ init.key = NoKey /\ resp.key = NoKey
    BY Zenon, TypedInit DEF Init
  <2>2. HandshakeInv(init, resp, inits, resps, data)
    BY <2>1 DEF HandshakeInv, Established, NoneCur, NoneFresh, Leads
  <2>3. Explained(init, resp, inits, resps, data, 0)
    BY Zenon, <2>1, NothingToExplain DEF Typed
  <2>4. OutageBounded /\ TimeoutInTime
    BY <2>1, Bounds DEF OutageBounded, TimeoutInTime
  <2> QED
    BY Zenon, <2>1, <2>2, <2>3, <2>4 DEF OutageInv
<1>2. OutageInv => OutageBounded
  BY Zenon DEF OutageInv
<1> QED
  BY <1>1, <1>2, TypedInit, TypedNext, OutageNext, PTL DEF Spec
=============================================================================
