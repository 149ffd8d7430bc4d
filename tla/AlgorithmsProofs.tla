-------------------------- MODULE AlgorithmsProofs --------------------------
(***************************************************************************)
(* What the pure computations of Algorithms return, for every width of an  *)
(* address, every size of a table, a buffer, a counter or a message: the   *)
(* peer of a packet is the first one whose network covers it, a netmask    *)
(* covers exactly the block of its prefix, a JSON log line reads back as   *)
(* the message, and a packet is carried whole.                             *)
(*                                                                         *)
(* Masks, counters and log lines are computed by recursive functions.      *)
(* Their proofs rest on two general facts, proved first from the           *)
(* well-foundedness of < : Induction for a set of numbers, and Recursion,  *)
(* that a function defined by its first value and a step has them.         *)
(***************************************************************************)
EXTENDS Algorithms, SequenceTheorems, WellFoundedInduction, TLAPS

-----------------------------------------------------------------------------
(***************************************************************************)
(* Induction and recursion over the natural numbers                        *)
(***************************************************************************)

\* Induction, for a set of numbers: one that holds 0 and every successor of its
\* members holds all, for the least number outside would have a predecessor.
LEMMA Induction ==
  ASSUME NEW T, 0 \in T, \A n \in Nat : n \in T => n + 1 \in T
  PROVE  \A n \in Nat : n \in T
<1> SUFFICES ASSUME Nat \ T # {} PROVE FALSE
  BY Zenon
<1>1. Nat \ T \subseteq Nat
  BY Zenon
<1>2. PICK x \in Nat \ T : \A y \in Nat \ T : ~ (<<y, x>> \in OpToRel(<, Nat))
  BY Zenon, <1>1, NatLessThanWellFounded, WFMin
<1> HIDE <1>2
<1>3. x - 1 \in Nat /\ x - 1 < x /\ (x - 1) + 1 = x
  <2>1. x \in Nat /\ x # 0
    BY Zenon
  <2> QED
    BY <2>1
<1>4. x - 1 \notin T
  BY Zenon, <1>3
<1>5. ~ (<<x - 1, x>> \in {ss \in Nat \X Nat : ss[1] < ss[2]})
  BY Zenon, <1>2, <1>3, <1>4 DEF OpToRel
<1> QED
  BY <1>3, <1>5

\* The first n + 1 values of a function that starts at base and goes on by step.
Starts(g, n, S, base, step) ==
  /\ g \in [0 .. n -> S] /\ g[0] = base
  /\ \A i \in 0 .. n - 1 : g[i + 1] = step[<<i, g[i]>>]

\* Two such beginnings agree as far as both go.
LEMMA StartsAgree ==
  ASSUME NEW S, NEW base, NEW step, NEW m \in Nat, NEW n \in Nat, NEW g, NEW h,
         Starts(g, m, S, base, step), Starts(h, n, S, base, step)
  PROVE  \A i \in Nat : i <= m /\ i <= n => g[i] = h[i]
<1> DEFINE T == {i \in Nat : i <= m /\ i <= n => g[i] = h[i]}
<1>1. 0 \in T
  BY DEF Starts
<1>2. ASSUME NEW i \in Nat, i \in T PROVE i + 1 \in T
  <2> SUFFICES ASSUME i + 1 <= m, i + 1 <= n PROVE g[i + 1] = h[i + 1]
    OBVIOUS
  <2>1. i \in 0 .. m - 1 /\ i \in 0 .. n - 1 /\ i <= m /\ i <= n
    OBVIOUS
  <2>2. g[i + 1] = step[<<i, g[i]>>] /\ h[i + 1] = step[<<i, h[i]>>]
    BY Zenon, <2>1 DEF Starts
  <2> QED
    BY Zenon, <1>2, <2>1, <2>2
<1> HIDE DEF T
<1>3. \A i \in Nat : i \in T
  BY Zenon, <1>1, <1>2, Induction
<1> QED
  BY Zenon, <1>3 DEF T

\* There is a beginning of every length.
LEMMA StartsExist ==
  ASSUME NEW S, NEW base \in S, NEW step \in [Nat \X S -> S]
  PROVE  \A n \in Nat : \E g : Starts(g, n, S, base, step)
<1> DEFINE T == {n \in Nat : \E g : Starts(g, n, S, base, step)}
<1>1. 0 \in T
  <2> DEFINE g == [i \in 0 .. 0 |-> base]
  <2>1. Starts(g, 0, S, base, step)
    BY DEF Starts
  <2> QED
    BY Zenon, <2>1
<1>2. ASSUME NEW n \in Nat, n \in T PROVE n + 1 \in T
  <2>1. PICK g : Starts(g, n, S, base, step)
    BY Zenon, <1>2
  <2> DEFINE h == [i \in 0 .. n + 1 |-> IF i = n + 1 THEN step[<<n, g[n]>>] ELSE g[i]]
  <2>2. g[n] \in S /\ step[<<n, g[n]>>] \in S
    BY <2>1 DEF Starts
  <2>3. h \in [0 .. n + 1 -> S] /\ h[0] = base
    BY <2>1, <2>2 DEF Starts
  <2>4. /\ h[n + 1] = step[<<n, g[n]>>] /\ \A i \in 0 .. n : h[i] = g[i]
        /\ \A i \in 0 .. n - 1 : h[i + 1] = g[i + 1]
    OBVIOUS
  <2> HIDE DEF h
  <2>5. ASSUME NEW i \in 0 .. (n + 1) - 1 PROVE h[i + 1] = step[<<i, h[i]>>]
    <3>1. i = n \/ i \in 0 .. n - 1
      OBVIOUS
    <3>2. i \in 0 .. n
      OBVIOUS
    <3> QED
      BY Zenon, <2>1, <2>4, <3>1, <3>2 DEF Starts
  <2>6. Starts(h, n + 1, S, base, step)
    BY Zenon, <2>3, <2>5 DEF Starts
  <2>7. n + 1 \in Nat
    OBVIOUS
  <2> QED
    BY Zenon, <2>6, <2>7
<1> HIDE DEF T
<1>3. \A n \in Nat : n \in T
  BY Zenon, <1>1, <1>2, Induction
<1> QED
  BY Zenon, <1>3 DEF T

\* Hence there is the whole function.
IsStep(step, S) == step \in [Nat \X S -> S]
Runs(f, S, base, step) ==
  /\ f \in [Nat -> S] /\ f[0] = base
  /\ \A n \in Nat : f[n + 1] = step[<<n, f[n]>>]

LEMMA Recursion ==
  ASSUME NEW S, NEW base \in S, NEW step, IsStep(step, S)
  PROVE  \E f : Runs(f, S, base, step)
<1> DEFINE g(n) == CHOOSE x : Starts(x, n, S, base, step)
           f    == [n \in Nat |-> g(n)[n]]
<1>1. \A n \in Nat : Starts(g(n), n, S, base, step)
  BY Zenon, StartsExist DEF IsStep
<1> HIDE DEF g
<1>2. f \in [Nat -> S] /\ f[0] = base
  BY <1>1 DEF Starts
<1>3. ASSUME NEW n \in Nat PROVE f[n + 1] = step[<<n, f[n]>>]
  <2>1. n + 1 \in Nat /\ n <= n /\ n <= n + 1 /\ n \in 0 .. (n + 1) - 1
    OBVIOUS
  <2>2. Starts(g(n), n, S, base, step) /\ Starts(g(n + 1), n + 1, S, base, step)
    BY Zenon, <1>1, <2>1
  <2>3. g(n)[n] = g(n + 1)[n]
    <3>1. \A i \in Nat : i <= n /\ i <= n + 1 => g(n)[i] = g(n + 1)[i]
      BY <2>1, <2>2, StartsAgree
    <3> QED
      BY Zenon, <2>1, <3>1
  <2>4. g(n + 1)[n + 1] = step[<<n, g(n + 1)[n]>>]
    BY Zenon, <2>1, <2>2 DEF Starts
  <2> QED
    BY <2>1, <2>3, <2>4
<1> HIDE DEF f
<1> QED
  BY Zenon, <1>2, <1>3 DEF Runs

-----------------------------------------------------------------------------
(***************************************************************************)
(* Powers                                                                  *)
(***************************************************************************)

\* Power(b) is the function its definition describes.
LEMMA PowerDef ==
  ASSUME NEW b \in Nat
  PROVE  /\ Power(b) \in [Nat -> Nat] /\ Power(b)[0] = 1
         /\ \A n \in Nat : Power(b)[n + 1] = b * Power(b)[n]
<1> DEFINE Body(p) == [n \in Nat |-> IF n = 0 THEN 1 ELSE b * p[n - 1]]
           step    == [x \in Nat \X Nat |-> b * x[2]]
           p       == Power(b)
<1>0. 1 \in Nat
  OBVIOUS
<1>1. \E q : q = Body(q)
  <2>1. IsStep(step, Nat) /\ \A n, v \in Nat : step[<<n, v>>] = b * v
    BY DEF IsStep
  <2> HIDE DEF step
  <2>2. PICK q : Runs(q, Nat, 1, step)
    BY Zenon, <1>0, <2>1, Recursion
  <2>3. ASSUME NEW n \in Nat, n # 0 PROVE q[n] = b * q[n - 1]
    <3>1. n - 1 \in Nat /\ (n - 1) + 1 = n
      BY <2>3
    <3> QED
      BY Zenon, <2>1, <2>2, <3>1 DEF Runs
  <2>4. q = Body(q)
    BY <2>2, <2>3 DEF Runs
  <2> QED
    BY Zenon, <2>4
<1>2. p = Body(p)
  BY Zenon, <1>1 DEF Power
<1> HIDE DEF p
<1>3. p[0] = 1 /\ \A n \in Nat : p[n + 1] = b * p[n]
  BY <1>2
<1>4. \A n \in Nat : n \in {i \in Nat : p[i] \in Nat}
  <2> DEFINE T == {i \in Nat : p[i] \in Nat}
  <2>1. 0 \in T /\ \A n \in Nat : n \in T => n + 1 \in T
    BY <1>3
  <2> HIDE DEF T
  <2>2. \A n \in Nat : n \in T
    BY Zenon, <2>1, Induction
  <2> QED
    BY Zenon, <2>2 DEF T
<1>5. p \in [Nat -> Nat]
  BY <1>2, <1>4
<1> QED
  BY Zenon, <1>3, <1>5 DEF p

\* Powers are not 0, and they multiply.
LEMMA PowerPos ==
  ASSUME NEW b \in Nat \ {0}
  PROVE  \A n \in Nat : Power(b)[n] \in Nat \ {0}
<1> DEFINE T == {n \in Nat : Power(b)[n] \in Nat \ {0}}
<1>1. 0 \in T
  <2>1. Power(b)[0] = 1
    BY PowerDef
  <2> QED
    BY <2>1
<1>2. ASSUME NEW n \in Nat, n \in T PROVE n + 1 \in T
  <2>1. \A x, y \in Nat \ {0} : x * y \in Nat \ {0}
    OBVIOUS
  <2>2. Power(b)[n + 1] = b * Power(b)[n]
    BY PowerDef
  <2> QED
    BY <1>2, <2>1, <2>2
<1> HIDE DEF T
<1>3. \A n \in Nat : n \in T
  BY Zenon, <1>1, <1>2, Induction
<1> QED
  BY Zenon, <1>3 DEF T

LEMMA PowerAdd ==
  ASSUME NEW b \in Nat \ {0}, NEW m \in Nat
  PROVE  \A n \in Nat : Power(b)[m + n] = Power(b)[m] * Power(b)[n]
<1> DEFINE p == Power(b)
           T == {n \in Nat : p[m + n] = p[m] * p[n]}
<1>1. /\ p[0] = 1 /\ \A n \in Nat : p[n] \in Nat /\ p[n + 1] = b * p[n]
  BY PowerDef
<1> HIDE DEF p
<1>2. 0 \in T
  BY <1>1
<1>3. ASSUME NEW n \in Nat, n \in T PROVE n + 1 \in T
  <2>1. p[m + (n + 1)] = b * (p[m] * p[n])
    <3>1. m + n \in Nat /\ m + (n + 1) = (m + n) + 1
      OBVIOUS
    <3> QED
      BY Zenon, <1>1, <1>3, <3>1
  <2>2. p[n + 1] = b * p[n]
    BY Zenon, <1>1
  <2>3. \A x, y \in Nat : b * (x * y) = x * (b * y)
    OBVIOUS
  <2>4. b * (p[m] * p[n]) = p[m] * (b * p[n])
    BY Zenon, <1>1, <2>3
  <2> QED
    BY <2>1, <2>2, <2>4
<1> HIDE DEF T
<1>4. \A n \in Nat : n \in T
  BY Zenon, <1>2, <1>3, Induction
<1> QED
  BY Zenon, <1>4 DEF T, p

-----------------------------------------------------------------------------
(***************************************************************************)
(* Division                                                                *)
(***************************************************************************)

LEMMA DivMod ==
  ASSUME NEW a \in Nat, NEW w \in Nat \ {0}
  PROVE  /\ a \div w \in Nat /\ a % w \in 0 .. w - 1
         /\ a = w * (a \div w) + (a % w)
  OBVIOUS

\* Quotient and remainder are the only ones.
LEMMA DivUnique ==
  ASSUME NEW a \in Nat, NEW w \in Nat \ {0}, NEW q \in Nat, NEW r \in 0 .. w - 1,
         a = w * q + r
  PROVE  a \div w = q /\ a % w = r
<1> DEFINE Q == a \div w
           R == a % w
<1>1. Q \in Nat /\ R \in 0 .. w - 1 /\ a = w * Q + R
  BY Zenon, DivMod
<1> HIDE DEF Q, R
<1>2. ASSUME NEW x \in Nat, NEW y \in Nat, x < y PROVE w * x + w <= w * y
  <2>1. PICK d \in Nat : y = x + 1 + d
    <3>1. y - x - 1 \in Nat /\ y = x + 1 + (y - x - 1)
      BY <1>2
    <3> QED
      BY Zenon, <3>1
  <2>2. w * y = w * x + w + w * d
    BY <2>1
  <2>3. w * d \in Nat /\ w * x \in Nat
    OBVIOUS
  <2> QED
    BY <2>2, <2>3
<1>3. w * q \in Nat /\ w * Q \in Nat
  BY <1>1
<1>4. ~ (Q < q) /\ ~ (q < Q)
  BY <1>1, <1>2, <1>3
<1>5. Q = q
  BY <1>1, <1>4
<1> QED
  BY <1>1, <1>3, <1>5 DEF Q, R

\* One more digit: dividing by b * w is dividing by w and then by b.
LEMMA Digit ==
  ASSUME NEW a \in Nat, NEW w \in Nat \ {0}, NEW b \in Nat \ {0}
  PROVE  /\ a \div (b * w) = (a \div w) \div b
         /\ a % (b * w) = (a % w) + ((a \div w) % b) * w
<1> DEFINE q == a \div w
           r == a % w
           u == q \div b
           d == q % b
<1>1. q \in Nat /\ r \in 0 .. w - 1 /\ a = w * q + r
  BY Zenon, DivMod
<1> HIDE DEF q, r
<1>2. u \in Nat /\ d \in 0 .. b - 1 /\ q = b * u + d
  BY Zenon, <1>1, DivMod
<1> HIDE DEF u, d
<1>3. b * w \in Nat \ {0}
  OBVIOUS
<1>4. a = (b * w) * u + (r + d * w)
  BY <1>1, <1>2
<1>5. r + d * w \in 0 .. b * w - 1
  <2>1. PICK e \in Nat : b = d + 1 + e
    <3>1. b - d - 1 \in Nat /\ b = d + 1 + (b - d - 1)
      BY <1>2
    <3> QED
      BY Zenon, <3>1
  <2>2. b * w = d * w + w + e * w
    BY <1>2, <2>1
  <2>3. d * w \in Nat /\ e * w \in Nat
    BY <1>2
  <2> QED
    BY <1>1, <2>2, <2>3
<1>6. a \div (b * w) = u /\ a % (b * w) = r + d * w
  BY Zenon, <1>2, <1>3, <1>4, <1>5, DivUnique
<1> QED
  BY Zenon, <1>6 DEF q, r, u, d

-----------------------------------------------------------------------------
(***************************************************************************)
(* A packet on its way                                                     *)
(***************************************************************************)

\* Joined is the function its definition describes.
LEMMA JoinedDef ==
  ASSUME NEW bytes \in [ByteIndex -> Nat]
  PROVE  /\ Joined(bytes)[0] = 0
         /\ \A n \in ByteIndex :
              Joined(bytes)[n + 1] = Joined(bytes)[n] + bytes[n] * Power(ByteValues)[n]
<1> DEFINE N       == CRYPTO_COUNTER_BYTES
           p       == Power(ByteValues)
           Body(f) == [n \in 0 .. N |-> IF n = 0 THEN 0 ELSE f[n - 1] + bytes[n - 1] * p[n - 1]]
           val     == [n \in ByteIndex |-> bytes[n] * p[n]]
           step    == [x \in Nat \X Nat |->
                         IF x[1] \in ByteIndex THEN x[2] + val[x[1]] ELSE 0]
           j       == Joined(bytes)
<1>0. N \in Nat /\ p \in [Nat -> Nat]
  BY WireAssumption, PowerDef
<1>1. \E f : f = Body(f)
  <2> HIDE DEF p
  <2>1. ByteIndex \subseteq Nat
    BY <1>0 DEF ByteIndex
  <2>2. val \in [ByteIndex -> Nat]
    BY <1>0, <2>1
  <2>3. \A n \in ByteIndex : val[n] = bytes[n] * p[n]
    OBVIOUS
  <2> HIDE DEF val
  <2>4. step \in [Nat \X Nat -> Nat]
    BY <2>1, <2>2
  <2>5. \A n \in ByteIndex, v \in Nat : step[<<n, v>>] = v + bytes[n] * p[n]
    BY <2>1, <2>3
  <2> HIDE DEF step
  <2>6. PICK f : Starts(f, N, Nat, 0, step)
    <3>1. 0 \in Nat
      OBVIOUS
    <3> QED
      BY Zenon, <1>0, <2>4, <3>1, StartsExist
  <2>7. ASSUME NEW n \in 0 .. N, n # 0 PROVE f[n] = f[n - 1] + bytes[n - 1] * p[n - 1]
    <3>1. n - 1 \in 0 .. N - 1 /\ n - 1 \in 0 .. N /\ (n - 1) + 1 = n
      BY <1>0, <2>7
    <3>2. f[n] = step[<<n - 1, f[n - 1]>>] /\ f[n - 1] \in Nat
      BY Zenon, <2>6, <3>1 DEF Starts
    <3> QED
      BY Zenon, <2>5, <3>1, <3>2 DEF ByteIndex
  <2>8. f = Body(f)
    BY <2>6, <2>7 DEF Starts
  <2> QED
    BY Zenon, <2>8
<1>2. j = Body(j)
  BY Zenon, <1>1 DEF Joined
<1> HIDE DEF p, j
<1>3. j[0] = 0 /\ \A n \in ByteIndex : j[n + 1] = j[n] + bytes[n] * p[n]
  <2>1. 0 \in 0 .. N
    BY <1>0
  <2>2. ASSUME NEW n \in ByteIndex
        PROVE  n + 1 \in 0 .. N /\ n + 1 # 0 /\ (n + 1) - 1 = n
    BY <1>0 DEF ByteIndex
  <2>3. \A n \in 0 .. N : j[n] = IF n = 0 THEN 0 ELSE j[n - 1] + bytes[n - 1] * p[n - 1]
    BY Zenon, <1>2
  <2> QED
    BY Zenon, <2>1, <2>2, <2>3
<1> QED
  BY Zenon, <1>3 DEF p, j

\* crypto_open reads the counter that crypto_seal wrote: after n bytes it has the
\* counter modulo the n-th power of a byte's range.
LEMMA CounterReadsBack ==
  ASSUME NEW c \in Counters
  PROVE  DecodeCounter(EncodeCounter(c)) = c
<1> DEFINE N     == CRYPTO_COUNTER_BYTES
           p     == Power(ByteValues)
           bytes == EncodeCounter(c)
           j     == Joined(bytes)
           T     == {n \in Nat : n <= N => j[n] = c % p[n]}
<1>0. N \in Nat /\ ByteValues \in Nat \ {0}
  BY WireAssumption
<1>1. /\ p[0] = 1 /\ \A n \in Nat : p[n] \in Nat \ {0} /\ p[n + 1] = ByteValues * p[n]
  BY <1>0, PowerDef, PowerPos
<1>2. c \in Nat /\ c < p[N]
  BY <1>0, <1>1 DEF Counters
<1>3. /\ bytes \in [ByteIndex -> Nat]
      /\ \A n \in ByteIndex : bytes[n] = (c \div p[n]) % ByteValues
  <2> HIDE DEF p
  <2>1. ASSUME NEW n \in ByteIndex PROVE (c \div p[n]) % ByteValues \in Nat
    <3>1. n \in Nat
      BY <1>0 DEF ByteIndex
    <3>2. p[n] \in Nat \ {0}
      BY Zenon, <1>1, <3>1
    <3>3. c \div p[n] \in Nat
      BY <1>2, <3>2, DivMod
    <3> QED
      BY <1>0, <3>3, DivMod
  <2> QED
    BY <2>1 DEF EncodeCounter, p
<1>4. j[0] = 0 /\ \A n \in ByteIndex : j[n + 1] = j[n] + bytes[n] * p[n]
  BY Zenon, <1>3, JoinedDef
<1> HIDE DEF p, j, bytes
<1>5. 0 \in T
  BY <1>1, <1>2, <1>4
<1>6. ASSUME NEW n \in Nat, n \in T PROVE n + 1 \in T
  <2> SUFFICES ASSUME n + 1 <= N PROVE j[n + 1] = c % p[n + 1]
    OBVIOUS
  <2>1. n \in ByteIndex /\ n <= N
    BY <1>0 DEF ByteIndex
  <2>2. j[n + 1] = (c % p[n]) + ((c \div p[n]) % ByteValues) * p[n]
    BY Zenon, <1>3, <1>4, <1>6, <2>1
  <2>3. c % (ByteValues * p[n]) = (c % p[n]) + ((c \div p[n]) % ByteValues) * p[n]
    <3>1. p[n] \in Nat \ {0}
      BY Zenon, <1>1
    <3> QED
      BY Zenon, <1>0, <1>2, <3>1, Digit
  <2> QED
    BY Zenon, <1>1, <2>2, <2>3
<1> HIDE DEF T
<1>7. \A n \in Nat : n \in T
  BY Zenon, <1>5, <1>6, Induction
<1>8. j[N] = c % p[N]
  BY <1>0, <1>7 DEF T
<1>9. c % p[N] = c
  <2>1. p[N] \in Nat \ {0}
    BY Zenon, <1>0, <1>1
  <2>2. c = p[N] * 0 + c /\ c \in 0 .. p[N] - 1
    BY <1>2, <2>1
  <2>3. 0 \in Nat
    OBVIOUS
  <2> QED
    BY Zenon, <1>2, <2>1, <2>2, <2>3, DivUnique
<1> QED
  BY Zenon, <1>8, <1>9 DEF DecodeCounter, j, bytes

\* No length check or buffer on the way refuses or shortens what tun_read returns.
LEMMA LengthReadsBack ==
  ASSUME NEW len \in Nat
  PROVE  LET read   == ReadInto(len, MAX_PACKET_SIZE)
             sealed == SealDataLen(read, SEALED_BUF_SIZE)
             got    == ReadInto(sealed, SEALED_BUF_SIZE)
         IN  OpenDataLen(got, got = sealed, MAX_PACKET_SIZE) = read
BY WireAssumption
   DEF ReadInto, SealDataLen, SealLen, OpenDataLen, OpenLen, SEALED_BUF_SIZE,
       SESSION_DATA_OVERHEAD, CRYPTO_PACKET_OVERHEAD

\* For every size of buffer, tag, counter and byte: a packet of any length that
\* tun_read returns gets through the seal, the datagram and the open whole, and
\* the receiver reads the counter that the sender sealed it with.
THEOREM AlwaysCarriedWhole == Spec => []CarriedWhole
<1>1. Init => CarriedWhole
  BY DEF Init, Idle, CarriedWhole
<1>2. CarriedWhole /\ [Next]_call => CarriedWhole'
  <2> SUFFICES ASSUME CarriedWhole, [Next]_call PROVE CarriedWhole'
    BY Zenon
  <2>1. ASSUME NEW len \in 0 .. MaxLen, NEW counter \in Counters, Carry(len, counter)
        PROVE  CarriedWhole'
    <3>1. len \in Nat
      BY SizesAssumption
    <3>2. call'.opened = call'.read /\ call'.seen = call'.counter
      BY Zenon, <2>1, <3>1, LengthReadsBack, CounterReadsBack DEF Carry
    <3> QED
      BY Zenon, <3>2 DEF CarriedWhole
  <2>2. ASSUME NEW routes, NEW packet, FindPeer(routes, packet) PROVE CarriedWhole'
    BY <2>2 DEF FindPeer, CarriedWhole
  <2>3. ASSUME NEW address, NEW prefix, ParseCidr(address, prefix) PROVE CarriedWhole'
    BY <2>3 DEF ParseCidr, CarriedWhole
  <2>4. ASSUME NEW text, LogLine(text) PROVE CarriedWhole'
    BY <2>4 DEF LogLine, CarriedWhole
  <2>5. CASE Return
    BY <2>5 DEF Return, Idle, CarriedWhole
  <2>6. CASE UNCHANGED call
    BY <2>6 DEF CarriedWhole
  <2> QED
    BY Zenon, <2>1, <2>2, <2>3, <2>4, <2>5, <2>6 DEF Next
<1> QED
  BY <1>1, <1>2, PTL DEF Spec

-----------------------------------------------------------------------------
(***************************************************************************)
(* Masks                                                                   *)
(***************************************************************************)

\* What the proofs about masks use of the powers of 2.
LEMMA Powers2 ==
  \A n \in Nat : Power(2)[n] \in Nat \ {0} /\ Power(2)[n + 1] = 2 * Power(2)[n]
<1>1. 2 \in Nat \ {0} /\ 2 \in Nat
  OBVIOUS
<1>2. \A n \in Nat : Power(2)[n + 1] = 2 * Power(2)[n]
  BY Zenon, <1>1, PowerDef
<1>3. \A n \in Nat : Power(2)[n] \in Nat \ {0}
  BY Zenon, <1>1, PowerPos
<1> QED
  BY Zenon, <1>2, <1>3

LEMMA Split2 ==
  ASSUME NEW m \in Nat, NEW n \in Nat, NEW s, s = m + n
  PROVE  Power(2)[s] = Power(2)[m] * Power(2)[n]
<1>1. 2 \in Nat \ {0}
  OBVIOUS
<1> QED
  BY Zenon, <1>1, PowerAdd

LEMMA SplitEven ==
  ASSUME NEW m \in Nat, NEW n \in Nat, NEW s, s = m + n + 1
  PROVE  Power(2)[s] = Power(2)[m] * (2 * Power(2)[n])
<1>1. n + 1 \in Nat /\ s = m + (n + 1)
  OBVIOUS
<1>2. Power(2)[s] = Power(2)[m] * Power(2)[n + 1]
  BY Zenon, <1>1, Split2
<1> QED
  BY Zenon, <1>2, Powers2

\* ~0U << k is the width's power of 2 less the k-th.
LEMMA ShiftValue ==
  ASSUME NEW k \in 0 .. Bits - 1
  PROVE  ShiftLeft(k) = Power(2)[Bits] - Power(2)[k]
<1> DEFINE P == Power(2)
<1>1. Bits \in Nat \ {0} /\ k \in Nat /\ Bits - k \in Nat
  BY BitsAssumption
<1>2. k % Bits = k
  BY <1>1
<1>3. /\ P[Bits] \in Nat \ {0} /\ P[k] \in Nat \ {0} /\ P[Bits - k] \in Nat \ {0}
      /\ P[Bits] = P[k] * P[Bits - k]
  <2>1. Bits = k + (Bits - k) /\ Bits \in Nat
    BY <1>1
  <2> QED
    BY Zenon, <1>1, <2>1, Powers2, Split2
<1> DEFINE w == P[Bits]
           x == P[k]
           y == P[Bits - k]
<1> HIDE DEF w, x, y
<1>4. w \in Nat \ {0} /\ x \in Nat \ {0} /\ y \in Nat \ {0} /\ w = x * y
  BY Zenon, <1>3 DEF w, x, y
<1>5. x <= w
  <2>1. y - 1 \in Nat /\ w = x + x * (y - 1)
    BY <1>4
  <2>2. x * (y - 1) \in Nat
    BY <1>4, <2>1
  <2> QED
    BY <1>4, <2>1, <2>2
<1>6. (w - 1) * x = w * (x - 1) + (w - x)
  BY <1>4
<1>7. (w - 1) * x \in Nat /\ x - 1 \in Nat /\ w - x \in 0 .. w - 1
  BY <1>4, <1>5
<1> DEFINE a == (w - 1) * x
           q == x - 1
           r == w - x
<1> HIDE DEF a, q, r
<1>8. a \in Nat /\ q \in Nat /\ r \in 0 .. w - 1 /\ a = w * q + r
  BY Zenon, <1>6, <1>7 DEF a, q, r
<1>9. a % w = r
  BY Zenon, <1>4, <1>8, DivUnique
<1> QED
  BY Zenon, <1>2, <1>9 DEF ShiftLeft, w, x, a, r

\* The mask of a prefix has exactly the topmost bits set, as many as the prefix
\* says.
LEMMA MaskBits ==
  ASSUME NEW prefix \in 0 .. Bits, NEW i \in 0 .. Bits - 1
  PROVE  Bit(Mask(prefix), i) = 1 <=> i >= Bits - prefix
<1> DEFINE P == Power(2)
           m == Mask(prefix)
           k == Bits - prefix
<1>0. Bits \in Nat \ {0} /\ prefix \in Nat /\ i \in Nat /\ k \in Nat /\ Bits = k + prefix
  BY BitsAssumption
<1>1. P[i] \in Nat \ {0} /\ P[k] \in Nat \ {0} /\ P[prefix] \in Nat \ {0}
  BY Zenon, <1>0, Powers2
<1>2. CASE prefix = 0
  <2>1. m = P[i] * 0 + 0 /\ m \in Nat /\ 0 \in Nat /\ 0 \in 0 .. P[i] - 1
    BY <1>1, <1>2 DEF Mask
  <2>2. m \div P[i] = 0
    BY <1>1, <2>1, DivUnique
  <2>3. Bit(m, i) = 0
    BY <2>2 DEF Bit
  <2>4. ~ (i >= k)
    BY <1>0, <1>2
  <2> QED
    BY <2>3, <2>4
<1>3. CASE prefix # 0
  <2>1. m = P[Bits] - P[k]
    <3>1. k \in 0 .. Bits - 1
      BY <1>0, <1>3
    <3> QED
      BY Zenon, <1>3, <3>1, ShiftValue DEF Mask
  <2>2. P[Bits] = P[k] * P[prefix]
    BY Zenon, <1>0, Split2
  <2> HIDE DEF m
  <2>3. CASE i < k
    <3>1. k - i - 1 \in Nat /\ k = i + (k - i - 1) + 1
      BY <1>0, <2>3
    <3> DEFINE z == P[k - i - 1]
               x == P[i]
               y == P[prefix]
    <3>2. z \in Nat \ {0} /\ P[k] = x * (2 * z)
      BY Zenon, <1>0, <3>1, Powers2, SplitEven
    <3>3. y \in Nat \ {0} /\ x \in Nat \ {0} /\ m = (x * (2 * z)) * y - x * (2 * z)
      BY Zenon, <1>1, <2>1, <2>2, <3>2
    <3> HIDE DEF x, y, z
    <3>4. y - 1 \in Nat /\ z * (y - 1) \in Nat
      BY <3>2, <3>3
    <3> DEFINE u == z * (y - 1)
    <3>5. m = x * (2 * u) + 0
      BY <3>2, <3>3
    <3>6. u \in Nat
      BY <3>4
    <3> HIDE DEF u
    <3>7. 2 * u \in Nat /\ m \in Nat /\ 0 \in 0 .. x - 1 /\ 0 \in 0 .. 2 - 1
          /\ 2 * u = 2 * u + 0 /\ 2 \in Nat \ {0}
      BY <3>3, <3>5, <3>6
    <3>8. m \div x = 2 * u
      BY <3>3, <3>5, <3>7, DivUnique
    <3>9. (2 * u) % 2 = 0
      BY <3>6, <3>7, DivUnique
    <3>10. Bit(m, i) = 0
      BY Zenon, <3>8, <3>9 DEF Bit, x
    <3> QED
      BY <1>0, <2>3, <3>10 DEF m
  <2>4. CASE i >= k
    <3>1. /\ Bits - i - 1 \in Nat /\ Bits = i + (Bits - i - 1) + 1
          /\ i - k \in Nat /\ i = k + (i - k)
      BY <1>0, <2>4
    <3> DEFINE z == P[Bits - i - 1]
               x == P[i]
               y == P[k]
               v == P[i - k]
    <3>2. z \in Nat \ {0} /\ P[Bits] = x * (2 * z)
      BY Zenon, <1>0, <3>1, Powers2, SplitEven
    <3>3. v \in Nat \ {0} /\ x = y * v
      BY Zenon, <1>0, <3>1, Powers2, Split2
    <3>4. y \in Nat \ {0} /\ x \in Nat \ {0} /\ m = x * (2 * z) - y
      BY Zenon, <1>1, <2>1, <3>2
    <3> HIDE DEF x, y, z, v
    <3>5. y <= x
      <4>1. v - 1 \in Nat /\ x = y + y * (v - 1)
        BY <3>3, <3>4
      <4>2. y * (v - 1) \in Nat
        BY <3>4, <4>1
      <4> QED
        BY <3>4, <4>1, <4>2
    <3>6. z - 1 \in Nat /\ x - y \in 0 .. x - 1
      BY <3>2, <3>4, <3>5
    <3> DEFINE u == z - 1
    <3>7. m = x * (2 * u + 1) + (x - y)
      BY <3>2, <3>4
    <3>8. u \in Nat
      BY <3>6
    <3> HIDE DEF u
    <3>9. 2 * u + 1 \in Nat /\ m \in Nat /\ 1 \in 0 .. 2 - 1 /\ 2 \in Nat \ {0}
      BY <3>4, <3>6, <3>7, <3>8
    <3>10. m \div x = 2 * u + 1
      BY <3>4, <3>6, <3>7, <3>9, DivUnique
    <3>11. (2 * u + 1) % 2 = 1
      BY <3>8, <3>9, DivUnique
    <3>12. Bit(m, i) = 1
      BY Zenon, <3>10, <3>11 DEF Bit, x
    <3> QED
      BY <2>4, <3>12 DEF m
  <2> QED
    BY <1>0, <2>3, <2>4
<1> QED
  BY Zenon, <1>2, <1>3

\* An address has its bits, which are 0 or 1, and nothing above the width.
LEMMA AddressBits ==
  ASSUME NEW a \in Address
  PROVE  /\ a \in Nat /\ a \div Power(2)[Bits] = 0
         /\ \A n \in Nat : /\ a \div Power(2)[n] \in Nat /\ Bit(a, n) \in {0, 1}
                           /\ a \div Power(2)[n]
                                = 2 * (a \div Power(2)[n + 1]) + Bit(a, n)
<1> DEFINE P == Power(2)
<1>1. Bits \in Nat /\ \A n \in Nat : P[n] \in Nat \ {0} /\ P[n + 1] = 2 * P[n]
  BY Zenon, Powers2, BitsAssumption
<1> HIDE DEF P
<1>2. P[Bits] \in Nat \ {0}
  BY Zenon, <1>1
<1>3. a \in Nat /\ a < P[Bits]
  BY <1>2 DEF Address, P
<1>4. a \div P[Bits] = 0
  <2>1. a = P[Bits] * 0 + a /\ a \in 0 .. P[Bits] - 1 /\ 0 \in Nat
    BY <1>2, <1>3
  <2> QED
    BY Zenon, <1>2, <1>3, <2>1, DivUnique
<1>5. ASSUME NEW n \in Nat
      PROVE  /\ a \div P[n] \in Nat /\ (a \div P[n]) % 2 \in {0, 1}
             /\ a \div P[n] = 2 * (a \div P[n + 1]) + ((a \div P[n]) % 2)
  <2> DEFINE w == P[n]
             q == a \div w
  <2>1. w \in Nat \ {0} /\ P[n + 1] = 2 * w
    BY Zenon, <1>1
  <2> HIDE DEF w
  <2>2. q \in Nat
    BY Zenon, <1>3, <2>1, DivMod
  <2>3. a \div (2 * w) = q \div 2
    <3>1. 2 \in Nat \ {0}
      OBVIOUS
    <3> QED
      BY Zenon, <1>3, <2>1, <3>1, Digit
  <2> HIDE DEF q
  <2>4. q % 2 \in {0, 1} /\ q = 2 * (q \div 2) + (q % 2)
    BY <2>2
  <2> QED
    BY Zenon, <2>1, <2>2, <2>3, <2>4 DEF w, q
<1> QED
  BY Zenon, <1>3, <1>4, <1>5 DEF P, Bit

\* Two addresses have the same bits from k on exactly when shifting them by k
\* gives the same number.
LEMMA SameTop ==
  ASSUME NEW a \in Address, NEW d \in Address, NEW k \in 0 .. Bits
  PROVE  (\A i \in k .. Bits - 1 : Bit(a, i) = Bit(d, i))
           <=> a \div Power(2)[k] = d \div Power(2)[k]
<1> DEFINE P == Power(2)
           Same(n) == \A i \in n .. Bits - 1 : Bit(a, i) = Bit(d, i)
           T == {j \in Nat : j <= Bits /\ Same(Bits - j)
                               => a \div P[Bits - j] = d \div P[Bits - j]}
<1>0. Bits \in Nat /\ k \in Nat
  BY BitsAssumption
<1>1. ASSUME Same(k) PROVE a \div P[k] = d \div P[k]
  <2>1. 0 \in T
    <3>1. Bits - 0 = Bits
      BY <1>0
    <3>2. a \div P[Bits] = d \div P[Bits]
      BY Zenon, AddressBits
    <3>3. 0 \in Nat
      OBVIOUS
    <3> QED
      BY Zenon, <3>1, <3>2, <3>3
  <2>2. ASSUME NEW j \in Nat, j \in T PROVE j + 1 \in T
    <3> DEFINE n == Bits - (j + 1)
    <3> SUFFICES ASSUME j + 1 <= Bits, Same(n) PROVE a \div P[n] = d \div P[n]
      OBVIOUS
    <3>1. n \in Nat /\ n + 1 = Bits - j /\ j <= Bits /\ n \in n .. Bits - 1
      BY <1>0
    <3>2. Same(Bits - j)
      <4>1. \A i \in Bits - j .. Bits - 1 : i \in n .. Bits - 1
        BY <1>0
      <4> QED
        BY Zenon, <4>1
    <3>3. a \div P[n + 1] = d \div P[n + 1]
      BY Zenon, <2>2, <3>1, <3>2
    <3>4. Bit(a, n) = Bit(d, n)
      BY Zenon, <3>1
    <3>5. /\ a \div P[n] = 2 * (a \div P[n + 1]) + Bit(a, n)
          /\ d \div P[n] = 2 * (d \div P[n + 1]) + Bit(d, n)
      BY Zenon, <3>1, AddressBits
    <3> QED
      BY Zenon, <3>3, <3>4, <3>5
  <2> HIDE DEF T
  <2>3. \A j \in Nat : j \in T
    BY Zenon, <2>1, <2>2, Induction
  <2>4. Bits - k \in Nat /\ Bits - k <= Bits /\ Bits - (Bits - k) = k
    BY <1>0
  <2>5. Bits - k \in T
    BY Zenon, <2>3, <2>4
  <2> QED
    BY Zenon, <1>1, <2>4, <2>5 DEF T
<1>2. ASSUME a \div P[k] = d \div P[k], NEW i \in k .. Bits - 1
      PROVE  Bit(a, i) = Bit(d, i)
  <2>1. i - k \in Nat /\ i = (i - k) + k
    BY <1>0
  <2> DEFINE x == P[i - k]
             w == P[k]
  <2>2. x \in Nat \ {0} /\ w \in Nat \ {0} /\ P[i] = x * w
    BY Zenon, <1>0, <2>1, Powers2, Split2
  <2>3. a \in Nat /\ d \in Nat
    BY Zenon, AddressBits
  <2> HIDE DEF x, w
  <2>4. a \div (x * w) = (a \div w) \div x /\ d \div (x * w) = (d \div w) \div x
    BY Zenon, <2>2, <2>3, Digit
  <2>5. a \div P[i] = d \div P[i]
    BY Zenon, <1>2, <2>2, <2>4 DEF w
  <2> QED
    BY Zenon, <2>5 DEF Bit
<1> QED
  BY Zenon, <1>1, <1>2

\* A number is in the block of size s around a when both have the same quotient.
LEMMA SameBlock ==
  ASSUME NEW a \in Nat, NEW d \in Nat, NEW s \in Nat \ {0}
  PROVE  d \in (a \div s) * s .. (a \div s) * s + s - 1 <=> d \div s = a \div s
<1> DEFINE q == a \div s
           e == d \div s
           r == d % s
<1>1. q \in Nat /\ e \in Nat /\ r \in 0 .. s - 1 /\ d = s * e + r
  BY Zenon, DivMod
<1>2. q * s \in Nat /\ q * s = s * q
  BY <1>1
<1>3. ASSUME d \in q * s .. q * s + s - 1 PROVE e = q
  <2> DEFINE t == d - q * s
  <2>1. t \in 0 .. s - 1 /\ d = s * q + t
    BY <1>1, <1>2, <1>3
  <2> HIDE DEF t, q
  <2> QED
    BY Zenon, <1>1, <2>1, DivUnique
<1>4. ASSUME e = q PROVE d \in q * s .. q * s + s - 1
  <2> HIDE DEF q, e, r
  <2> QED
    BY <1>1, <1>2, <1>4
<1> QED
  BY Zenon, <1>3, <1>4

\* Comparing under the mask is being in the block, for every prefix length.
LEMMA MaskedIsBlock ==
  ASSUME NEW a \in Address, NEW d \in Address, NEW prefix \in 0 .. Bits
  PROVE  BitAnd(d, Mask(prefix)) = BitAnd(a, Mask(prefix)) <=> d \in Block(a, prefix)
<1> DEFINE k == Bits - prefix
           s == Power(2)[k]
<1>1. Bits \in Nat /\ k \in 0 .. Bits /\ k \in Nat
  BY BitsAssumption
<1>2. \A i \in 0 .. Bits - 1 : i \in Nat /\ (i >= k <=> i \in k .. Bits - 1)
  BY <1>1
<1>3. \A i \in 0 .. Bits - 1 : Bit(Mask(prefix), i) = 1 <=> i \in k .. Bits - 1
  BY Zenon, <1>2, MaskBits
<1>4. \A i \in k .. Bits - 1 : i \in 0 .. Bits - 1
  BY <1>1
<1>5. BitAnd(d, Mask(prefix)) = BitAnd(a, Mask(prefix))
        <=> \A i \in k .. Bits - 1 : Bit(a, i) = 1 <=> Bit(d, i) = 1
  BY Zenon, <1>3, <1>4 DEF BitAnd
<1>6. \A i \in k .. Bits - 1 : Bit(a, i) \in {0, 1} /\ Bit(d, i) \in {0, 1}
  BY Zenon, <1>2, <1>4, AddressBits
<1>7. \A i \in k .. Bits - 1 : (Bit(a, i) = 1 <=> Bit(d, i) = 1) <=> Bit(a, i) = Bit(d, i)
  <2>1. \A x, y \in {0, 1} : (x = 1 <=> y = 1) <=> x = y
    OBVIOUS
  <2> QED
    BY Zenon, <1>6, <2>1
<1>8. BitAnd(d, Mask(prefix)) = BitAnd(a, Mask(prefix)) <=> a \div s = d \div s
  BY Zenon, <1>1, <1>5, <1>7, SameTop
<1>9. s \in Nat \ {0} /\ a \in Nat /\ d \in Nat
  BY Zenon, <1>1, Powers2, AddressBits
<1>10. d \in Block(a, prefix) <=> d \div s = a \div s
  BY Zenon, <1>9, SameBlock DEF Block
<1> QED
  BY Zenon, <1>8, <1>10

\* The loop of routing_find_peer_for_dest returns at the first section that
\* matches.
LEMMA FirstMatch ==
  ASSUME NEW routes \in Seq(Route), NEW dest \in Address, NEW i \in 1 .. Len(routes)
  PROVE  routing_find_peer_for_dest(routes, dest) = i
           <=> /\ dest \in BlockOf(routes[i])
               /\ \A j \in 1 .. i - 1 : dest \notin BlockOf(routes[j])
<1> DEFINE matches(j) == routing_matches(dest, routes[j].address, routes[j].prefix)
           first == {j \in 1 .. Len(routes) : matches(j) /\ \A h \in 1 .. j - 1 : ~ matches(h)}
           found == routing_find_peer_for_dest(routes, dest)
<1>1. ASSUME NEW j \in 1 .. Len(routes) PROVE matches(j) <=> dest \in BlockOf(routes[j])
  <2>1. routes[j] \in Route
    OBVIOUS
  <2>2. routes[j].address \in Address /\ routes[j].prefix \in 0 .. Bits
    BY Zenon, <2>1 DEF Route
  <2> QED
    BY Zenon, <2>2, MaskedIsBlock DEF routing_matches, BlockOf
<1>2. found = IF first = {} THEN NoPeer ELSE CHOOSE j \in first : TRUE
  BY Zenon DEF routing_find_peer_for_dest
<1>3. \A j \in 1 .. i - 1 : j \in 1 .. Len(routes)
  OBVIOUS
<1> HIDE DEF matches, found
<1>4. ASSUME NEW j \in first, NEW h \in first PROVE j = h
  <2>1. ~ (j < h) /\ ~ (h < j)
    OBVIOUS
  <2> QED
    BY <2>1
<1>5. NoPeer # i
  BY DEF NoPeer
<1>6. found = i <=> i \in first
  BY Zenon, <1>2, <1>4, <1>5
<1>7. i \in first <=> matches(i) /\ \A h \in 1 .. i - 1 : ~ matches(h)
  BY Zenon
<1> QED
  BY Zenon, <1>1, <1>3, <1>6, <1>7 DEF found

\* For every width of address, every table and every packet, and every prefix
\* length from 0 to the width: routing_matches under its mask is membership in
\* the block, and a packet goes to the first peer whose block holds it.
THEOREM AlwaysFirstCoveringPeer == Spec => []FirstCoveringPeer
<1>1. Init => FirstCoveringPeer
  BY DEF Init, Idle, FirstCoveringPeer
<1>2. FirstCoveringPeer /\ [Next]_call => FirstCoveringPeer'
  <2> SUFFICES ASSUME FirstCoveringPeer, [Next]_call PROVE FirstCoveringPeer'
    BY Zenon
  <2>1. ASSUME NEW routes \in Tables, NEW packet \in Packets, FindPeer(routes, packet)
        PROVE  FirstCoveringPeer'
    <3>1. routes \in Seq(Route)
      BY SizesAssumption DEF Tables
    <3>2. packet.dest \in Address
      BY Zenon, PacketsAssumption DEF Packet
    <3>3. call'.routes = routes /\ call'.packet = packet /\ call'.result = RouteOf(routes, packet)
      BY Zenon, <2>1 DEF FindPeer
    <3>4. ASSUME NEW i \in 1 .. Len(routes)
          PROVE  RouteOf(routes, packet) = i <=>
                   /\ packet.len >= HeaderLen /\ packet.version = 4
                   /\ packet.dest \in BlockOf(routes[i])
                   /\ \A j \in 1 .. i - 1 : packet.dest \notin BlockOf(routes[j])
      <4>1. NoPeer # i
        BY DEF NoPeer
      <4> QED
        BY Zenon, <3>1, <3>2, <4>1, FirstMatch DEF RouteOf, routing_parse_ipv4_dest_ok
    <3> QED
      BY Zenon, <3>3, <3>4 DEF FirstCoveringPeer
  <2>2. ASSUME NEW address, NEW prefix, ParseCidr(address, prefix) PROVE FirstCoveringPeer'
    BY <2>2 DEF ParseCidr, FirstCoveringPeer
  <2>3. ASSUME NEW text, LogLine(text) PROVE FirstCoveringPeer'
    BY <2>3 DEF LogLine, FirstCoveringPeer
  <2>4. ASSUME NEW len, NEW counter, Carry(len, counter) PROVE FirstCoveringPeer'
    BY <2>4 DEF Carry, FirstCoveringPeer
  <2>5. CASE Return
    BY <2>5 DEF Return, Idle, FirstCoveringPeer
  <2>6. CASE UNCHANGED call
    BY <2>6 DEF FirstCoveringPeer
  <2> QED
    BY Zenon, <2>1, <2>2, <2>3, <2>4, <2>5, <2>6 DEF Next
<1> QED
  BY <1>1, <1>2, PTL DEF Spec

\* A block of an address holds addresses only.
LEMMA BlockOfAddresses ==
  ASSUME NEW a \in Address, NEW prefix \in 0 .. Bits
  PROVE  Block(a, prefix) \subseteq Address
<1> DEFINE k == Bits - prefix
           s == Power(2)[k]
           n == Power(2)[prefix]
           w == Power(2)[Bits]
           q == a \div s
<1>1. Bits \in Nat /\ prefix \in Nat /\ k \in Nat /\ Bits = k + prefix
  BY BitsAssumption
<1>2. s \in Nat \ {0} /\ n \in Nat \ {0} /\ w \in Nat \ {0} /\ w = s * n
  BY Zenon, <1>1, Powers2, Split2
<1>3. a \in Nat /\ a < w
  <2> HIDE DEF w
  <2> QED
    BY <1>2 DEF Address, w
<1> HIDE DEF s, n, w
<1>4. q \in Nat /\ s * q <= a
  <2>1. q \in Nat /\ a % s \in 0 .. s - 1 /\ a = s * q + (a % s)
    BY Zenon, <1>2, <1>3, DivMod
  <2> HIDE DEF q
  <2>2. s * q \in Nat
    BY <1>2, <2>1
  <2> QED
    BY <2>1, <2>2
<1> HIDE DEF q
<1>5. q < n
  <2> SUFFICES ASSUME n <= q PROVE FALSE
    BY <1>2, <1>4
  <2>1. q - n \in Nat /\ s * q = s * n + s * (q - n)
    BY <1>2, <1>4
  <2>2. s * (q - n) \in Nat /\ s * n \in Nat
    BY <1>2, <2>1
  <2> QED
    BY <1>2, <1>3, <1>4, <2>1, <2>2
<1>6. q * s \in Nat /\ q * s + s <= w
  <2>1. n - q - 1 \in Nat /\ w = q * s + s + s * (n - q - 1)
    BY <1>2, <1>4, <1>5
  <2>2. s * (n - q - 1) \in Nat /\ q * s \in Nat
    BY <1>2, <1>4, <2>1
  <2> QED
    BY <1>2, <2>1, <2>2
<1>7. q * s .. q * s + s - 1 \subseteq 0 .. w - 1
  BY <1>2, <1>6
<1>8. Block(a, prefix) = q * s .. q * s + s - 1
  BY Zenon DEF Block, q, s
<1> QED
  BY Zenon, <1>7, <1>8 DEF Address, w

\* For every width: parse_cidr accepts the prefix lengths from 0 to the width,
\* and the netmask it writes for one covers exactly the block that routing uses.
THEOREM AlwaysNetmaskIsBlock == Spec => []NetmaskIsBlock
<1>1. Init => NetmaskIsBlock
  BY DEF Init, Idle, NetmaskIsBlock
<1>2. NetmaskIsBlock /\ [Next]_call => NetmaskIsBlock'
  <2> SUFFICES ASSUME NetmaskIsBlock, [Next]_call PROVE NetmaskIsBlock'
    BY Zenon
  <2>1. ASSUME NEW address \in Address, NEW prefix \in -1 .. Bits + 1,
               ParseCidr(address, prefix)
        PROVE  NetmaskIsBlock'
    <3> DEFINE covered == {a \in Address : BitAnd(a, Netmask(prefix))
                                              = BitAnd(address, Netmask(prefix))}
    <3>1. PrefixOk(prefix) = (prefix \in 0 .. Bits)
      BY BitsAssumption DEF PrefixOk
    <3>2. ASSUME prefix \in 0 .. Bits PROVE covered = Block(address, prefix)
      <4>1. Netmask(prefix) = Mask(prefix)
        BY Zenon DEF Netmask, Mask
      <4>2. \A a \in Address : a \in covered <=> a \in Block(address, prefix)
        BY Zenon, <3>2, <4>1, MaskedIsBlock
      <4> QED
        BY Zenon, <3>2, <4>2, BlockOfAddresses
    <3>3. /\ call'.address = address /\ call'.prefix = prefix
          /\ call'.accepted = PrefixOk(prefix)
          /\ call'.covered = IF PrefixOk(prefix) THEN covered ELSE {}
      BY Zenon, <2>1 DEF ParseCidr
    <3> HIDE DEF covered
    <3> QED
      BY Zenon, <3>1, <3>2, <3>3 DEF NetmaskIsBlock
  <2>2. ASSUME NEW routes, NEW packet, FindPeer(routes, packet) PROVE NetmaskIsBlock'
    BY <2>2 DEF FindPeer, NetmaskIsBlock
  <2>3. ASSUME NEW text, LogLine(text) PROVE NetmaskIsBlock'
    BY <2>3 DEF LogLine, NetmaskIsBlock
  <2>4. ASSUME NEW len, NEW counter, Carry(len, counter) PROVE NetmaskIsBlock'
    BY <2>4 DEF Carry, NetmaskIsBlock
  <2>5. CASE Return
    BY <2>5 DEF Return, Idle, NetmaskIsBlock
  <2>6. CASE UNCHANGED call
    BY <2>6 DEF NetmaskIsBlock
  <2> QED
    BY Zenon, <2>1, <2>2, <2>3, <2>4, <2>5, <2>6 DEF Next
<1> QED
  BY <1>1, <1>2, PTL DEF Spec

-----------------------------------------------------------------------------
(***************************************************************************)
(* A line of the log                                                       *)
(***************************************************************************)

\* What write_json_escaped writes, and what there is in a line.
Printed == {QUOTE, BACKSLASH} \union Plain
InLine  == Printed \union Chars \union {"brace"}

\* A character is written as itself, or as a backslash and a character that
\* stands for it.
LEMMA EscapedForms ==
  ASSUME NEW c \in Chars
  PROVE  /\ Escaped(c) \in Seq(Printed)
         /\ \/ c \in Plain /\ Escaped(c) = <<c>>
            \/ \E e \in Printed : Escaped(c) = <<BACKSLASH, e>> /\ Decoded(e) = c
<1> USE DEF QUOTE, BACKSLASH, NEWLINE, Control, Named, Plain
<1>1. CASE c \in {QUOTE, BACKSLASH}
  <2>1. Escaped(c) = <<BACKSLASH, c>> /\ c \in Printed /\ Decoded(c) = c
    BY <1>1 DEF Escaped, Printed, Decoded
  <2> QED
    BY <2>1 DEF Printed
<1>2. CASE c \in Named
  <2>1. Escaped(c) = <<BACKSLASH, Letter[c]>>
    BY <1>2 DEF Escaped
  <2>2. Letter[c] \in Printed /\ Decoded(Letter[c]) = c
    BY <1>2 DEF Letter, Printed, Decoded
  <2> QED
    BY <2>1, <2>2 DEF Printed
<1>3. CASE c = Control
  <2>1. Escaped(c) = <<BACKSLASH, "u">> /\ "u" \in Printed /\ Decoded("u") = c
    BY <1>3 DEF Escaped, Printed, Decoded
  <2> QED
    BY <2>1 DEF Printed
<1>4. CASE c \in Plain
  <2>1. Escaped(c) = <<c>> /\ c \in Printed
    BY <1>4 DEF Escaped, Printed
  <2> QED
    BY <1>4, <2>1
<1> QED
  BY Zenon, <1>1, <1>2, <1>3, <1>4 DEF Chars

\* Written is the function its definition describes.
LEMMA WrittenDef ==
  ASSUME NEW text \in Seq(Chars)
  PROVE  /\ Written(text) \in [0 .. Len(text) -> Seq(Printed)] /\ Written(text)[0] = <<>>
         /\ \A n \in 0 .. Len(text) - 1 :
              Written(text)[n + 1] = Written(text)[n] \o Escaped(text[n + 1])
<1> DEFINE N       == Len(text)
           S       == Seq(Printed)
           Body(f) == [n \in 0 .. N |-> IF n = 0 THEN <<>> ELSE f[n - 1] \o Escaped(text[n])]
           step    == [x \in Nat \X S |->
                         IF x[1] \in 0 .. N - 1 THEN x[2] \o Escaped(text[x[1] + 1]) ELSE <<>>]
           f       == Written(text)
<1>1. N \in Nat /\ <<>> \in S
  OBVIOUS
<1>2. ASSUME NEW n \in 0 .. N - 1 PROVE n + 1 \in 1 .. N /\ Escaped(text[n + 1]) \in S
  <2>1. n + 1 \in 1 .. N /\ text[n + 1] \in Chars
    OBVIOUS
  <2> QED
    BY Zenon, <2>1, EscapedForms
<1>3. \E g : g = Body(g)
  <2>1. \A x \in S, y \in S : x \o y \in S
    OBVIOUS
  <2> HIDE DEF S
  <2>2. step \in [Nat \X S -> S]
    BY <1>1, <1>2, <2>1
  <2>3. ASSUME NEW n \in 0 .. N - 1, NEW v \in S
        PROVE  step[<<n, v>>] = v \o Escaped(text[n + 1])
    <3>1. <<n, v>> \in Nat \X S /\ <<n, v>>[1] = n /\ <<n, v>>[2] = v
      BY <1>1
    <3> QED
      BY Zenon, <3>1
  <2> HIDE DEF step
  <2>4. PICK g : Starts(g, N, S, <<>>, step)
    BY Zenon, <1>1, <2>2, StartsExist
  <2>5. ASSUME NEW n \in 0 .. N, n # 0 PROVE g[n] = g[n - 1] \o Escaped(text[n])
    <3>1. n - 1 \in 0 .. N - 1 /\ n - 1 \in 0 .. N /\ (n - 1) + 1 = n
      BY <1>1, <2>5
    <3>2. g[(n - 1) + 1] = step[<<n - 1, g[n - 1]>>] /\ g[n - 1] \in S
      BY Zenon, <2>4, <3>1 DEF Starts
    <3>3. step[<<n - 1, g[n - 1]>>] = g[n - 1] \o Escaped(text[(n - 1) + 1])
      BY Zenon, <2>3, <3>1, <3>2
    <3> QED
      BY Zenon, <3>1, <3>2, <3>3
  <2>6. g = Body(g)
    BY Zenon, <2>4, <2>5 DEF Starts
  <2> QED
    BY Zenon, <2>6
<1>4. f = Body(f)
  BY Zenon, <1>3 DEF Written
<1> HIDE DEF f
<1>5. /\ f[0] = <<>>
      /\ \A n \in 0 .. N - 1 : f[n + 1] = f[n] \o Escaped(text[n + 1])
  <2>1. 0 \in 0 .. N
    BY <1>1
  <2>2. ASSUME NEW n \in 0 .. N - 1
        PROVE  n + 1 \in 0 .. N /\ n + 1 # 0 /\ (n + 1) - 1 = n
    BY <1>1
  <2>3. \A n \in 0 .. N : f[n] = IF n = 0 THEN <<>> ELSE f[n - 1] \o Escaped(text[n])
    BY Zenon, <1>4
  <2> QED
    BY Zenon, <2>1, <2>2, <2>3
<1>6. \A n \in 0 .. N : f[n] \in S
  <2> DEFINE T == {n \in Nat : n <= N => f[n] \in S}
  <2>1. 0 \in T
    BY Zenon, <1>1, <1>5
  <2>2. ASSUME NEW n \in Nat, n \in T PROVE n + 1 \in T
    <3> SUFFICES ASSUME n + 1 <= N PROVE f[n + 1] \in S
      OBVIOUS
    <3>1. n \in 0 .. N - 1 /\ n <= N
      BY <1>1
    <3>2. f[n] \in S /\ f[n + 1] = f[n] \o Escaped(text[n + 1]) /\ Escaped(text[n + 1]) \in S
      BY Zenon, <1>2, <1>5, <2>2, <3>1
    <3> QED
      BY <3>2
  <2> HIDE DEF T
  <2>3. \A n \in Nat : n \in T
    BY Zenon, <2>1, <2>2, Induction
  <2> QED
    BY <1>1, <2>3 DEF T
<1>7. f \in [0 .. N -> S]
  BY Zenon, <1>4, <1>6
<1> QED
  BY Zenon, <1>5, <1>7 DEF f

\* How far a reader of a line can be.
Readers == [text : Seq(InLine), rest : Seq(InLine), escape : BOOLEAN, ended : BOOLEAN]
Start   == [text |-> <<>>, rest |-> <<>>, escape |-> FALSE, ended |-> FALSE]

LEMMA ReadCharType ==
  ASSUME NEW r \in Readers, NEW c \in InLine
  PROVE  ReadChar(r, c) \in Readers
<1>1. Decoded(c) \in InLine
  BY DEF Decoded, InLine, Printed, Chars, QUOTE, BACKSLASH, NEWLINE, Control, Named, Plain
<1>2. /\ r.text \in Seq(InLine) /\ r.rest \in Seq(InLine)
      /\ r.escape \in BOOLEAN /\ r.ended \in BOOLEAN
  BY Zenon DEF Readers
<1>3. /\ Append(r.rest, c) \in Seq(InLine) /\ Append(r.text, c) \in Seq(InLine)
      /\ Append(r.text, Decoded(c)) \in Seq(InLine)
  BY <1>1, <1>2
<1>4. CASE r.ended
  BY Zenon, <1>3, <1>4 DEF ReadChar, Readers
<1>5. CASE ~ r.ended /\ r.escape
  BY Zenon, <1>3, <1>5 DEF ReadChar, Readers
<1>6. CASE ~ r.ended /\ ~ r.escape /\ c = BACKSLASH
  BY Zenon, <1>6 DEF ReadChar, Readers
<1>7. CASE ~ r.ended /\ ~ r.escape /\ c # BACKSLASH /\ c = QUOTE
  BY Zenon, <1>7 DEF ReadChar, Readers
<1>8. CASE ~ r.ended /\ ~ r.escape /\ c # BACKSLASH /\ c # QUOTE
  BY Zenon, <1>3, <1>8 DEF ReadChar, Readers
<1> QED
  BY Zenon, <1>4, <1>5, <1>6, <1>7, <1>8

\* Reader is the function its definition describes.
LEMMA ReaderDef ==
  ASSUME NEW line \in Seq(InLine)
  PROVE  /\ Reader(line)[0] = Start
         /\ \A n \in 0 .. Len(line) - 1 :
              Reader(line)[n + 1] = ReadChar(Reader(line)[n], line[n + 1])
<1> DEFINE N       == Len(line)
           Body(f) == [n \in 0 .. N |-> IF n = 0 THEN Start ELSE ReadChar(f[n - 1], line[n])]
           step    == [x \in Nat \X Readers |->
                         IF x[1] \in 0 .. N - 1 THEN ReadChar(x[2], line[x[1] + 1]) ELSE Start]
           f       == Reader(line)
<1>1. N \in Nat
  OBVIOUS
<1>2. Start \in Readers
  BY DEF Start, Readers
<1>3. ASSUME NEW n \in 0 .. N - 1, NEW r \in Readers PROVE ReadChar(r, line[n + 1]) \in Readers
  <2>1. line[n + 1] \in InLine
    OBVIOUS
  <2> QED
    BY Zenon, <2>1, ReadCharType
<1>4. \E g : g = Body(g)
  <2>1. step \in [Nat \X Readers -> Readers]
    <3>1. ASSUME NEW x \in Nat \X Readers
          PROVE  (IF x[1] \in 0 .. N - 1 THEN ReadChar(x[2], line[x[1] + 1]) ELSE Start) \in Readers
      <4>1. x[2] \in Readers
        OBVIOUS
      <4> QED
        BY Zenon, <1>2, <1>3, <4>1
    <3> QED
      BY Zenon, <3>1
  <2>2. ASSUME NEW n \in 0 .. N - 1, NEW r \in Readers
        PROVE  step[<<n, r>>] = ReadChar(r, line[n + 1])
    <3>1. <<n, r>> \in Nat \X Readers /\ <<n, r>>[1] = n /\ <<n, r>>[2] = r
      BY <1>1
    <3> QED
      BY Zenon, <3>1
  <2> HIDE DEF step
  <2>3. PICK g : Starts(g, N, Readers, Start, step)
    BY Zenon, <1>1, <1>2, <2>1, StartsExist
  <2>4. ASSUME NEW n \in 0 .. N, n # 0 PROVE g[n] = ReadChar(g[n - 1], line[n])
    <3>1. n - 1 \in 0 .. N - 1 /\ n - 1 \in 0 .. N /\ (n - 1) + 1 = n
      BY <1>1, <2>4
    <3>2. g[(n - 1) + 1] = step[<<n - 1, g[n - 1]>>] /\ g[n - 1] \in Readers
      BY Zenon, <2>3, <3>1 DEF Starts
    <3>3. step[<<n - 1, g[n - 1]>>] = ReadChar(g[n - 1], line[(n - 1) + 1])
      BY Zenon, <2>2, <3>1, <3>2
    <3> QED
      BY Zenon, <3>1, <3>2, <3>3
  <2>5. g = Body(g)
    BY Zenon, <2>3, <2>4 DEF Starts
  <2> QED
    BY Zenon, <2>5
<1>5. f = Body(f)
  BY Zenon, <1>4 DEF Reader, Start
<1> HIDE DEF f
<1>6. 0 \in 0 .. N
  BY <1>1
<1>7. ASSUME NEW n \in 0 .. N - 1 PROVE n + 1 \in 0 .. N /\ n + 1 # 0 /\ (n + 1) - 1 = n
  BY <1>1
<1>8. \A n \in 0 .. N : f[n] = IF n = 0 THEN Start ELSE ReadChar(f[n - 1], line[n])
  BY Zenon, <1>5
<1>9. f[0] = Start /\ \A n \in 0 .. N - 1 : f[n + 1] = ReadChar(f[n], line[n + 1])
  BY Zenon, <1>6, <1>7, <1>8
<1> QED
  BY Zenon, <1>9 DEF f

\* What has been written stays: each stage of the writing begins the end result.
LEMMA WrittenGrows ==
  ASSUME NEW text \in Seq(Chars), NEW n \in 0 .. Len(text)
  PROVE  LET s == Written(text)[n]
             e == Written(text)[Len(text)]
         IN  Len(s) <= Len(e) /\ \A i \in 1 .. Len(s) : e[i] = s[i]
<1> DEFINE N == Len(text)
           f == Written(text)
           s == f[n]
           T == {j \in Nat : n + j <= N => /\ Len(s) <= Len(f[n + j])
                                          /\ \A i \in 1 .. Len(s) : f[n + j][i] = s[i]}
<1>1. /\ N \in Nat /\ n \in Nat /\ f \in [0 .. N -> Seq(Printed)]
      /\ \A k \in 0 .. N - 1 : f[k + 1] = f[k] \o Escaped(text[k + 1])
  <2>1. N \in Nat /\ n \in Nat
    OBVIOUS
  <2> QED
    BY Zenon, <2>1, WrittenDef
<1> HIDE DEF f
<1>2. s \in Seq(Printed)
  BY <1>1
<1>3. 0 \in T
  <2>1. n + 0 = n
    BY <1>1
  <2> QED
    BY <1>2, <2>1
<1>4. ASSUME NEW j \in Nat, j \in T PROVE j + 1 \in T
  <2> SUFFICES ASSUME n + (j + 1) <= N
               PROVE  /\ Len(s) <= Len(f[n + (j + 1)])
                      /\ \A i \in 1 .. Len(s) : f[n + (j + 1)][i] = s[i]
    BY <1>1
  <2> DEFINE k == n + j
             u == f[k]
             x == Escaped(text[k + 1])
  <2>1. k \in 0 .. N - 1 /\ k \in 0 .. N /\ k <= N /\ n + (j + 1) = k + 1 /\ k + 1 \in 1 .. N
    BY <1>1
  <2>2. u \in Seq(Printed) /\ f[k + 1] = u \o x
    BY Zenon, <1>1, <2>1
  <2>3. x \in Seq(Printed)
    <3>1. text[k + 1] \in Chars
      BY <2>1
    <3> QED
      BY Zenon, <3>1, EscapedForms
  <2>4. Len(s) <= Len(u) /\ \A i \in 1 .. Len(s) : u[i] = s[i]
    BY Zenon, <1>4, <2>1
  <2> HIDE DEF u, x, k, s
  <2>5. Len(s) <= Len(u \o x) /\ \A i \in 1 .. Len(s) : (u \o x)[i] = s[i]
    <3>1. /\ Len(u \o x) = Len(u) + Len(x) /\ Len(u) \in Nat /\ Len(x) \in Nat
          /\ Len(s) \in Nat /\ \A i \in 1 .. Len(u) : (u \o x)[i] = u[i]
      BY <1>2, <2>2, <2>3
    <3>2. \A i \in 1 .. Len(s) : i \in 1 .. Len(u)
      BY <2>4, <3>1
    <3>3. Len(s) <= Len(u \o x)
      BY <2>4, <3>1
    <3> QED
      BY Zenon, <2>4, <3>1, <3>2, <3>3
  <2> QED
    BY Zenon, <2>1, <2>2, <2>5
<1> HIDE DEF T
<1>5. \A j \in Nat : j \in T
  BY Zenon, <1>3, <1>4, Induction
<1>6. N - n \in Nat /\ n + (N - n) = N /\ N <= N
  BY <1>1
<1>7. N - n \in T
  BY Zenon, <1>5, <1>6
<1> QED
  BY Zenon, <1>6, <1>7 DEF T, f

\* A reader that has read text and is neither behind a backslash nor at the end.
Within(text) == [text |-> text, rest |-> <<>>, escape |-> FALSE, ended |-> FALSE]

\* It takes a plain character as it is, and what follows a backslash as the
\* character it stands for; a quote ends the string.
LEMMA ReadWithin ==
  ASSUME NEW u
  PROVE  /\ \A c \in Plain : ReadChar(Within(u), c) = Within(Append(u, c))
         /\ \A e : ReadChar(ReadChar(Within(u), BACKSLASH), e) = Within(Append(u, Decoded(e)))
         /\ ReadChar(Within(u), QUOTE) = [Within(u) EXCEPT !.ended = TRUE]
<1>1. ASSUME NEW c \in Plain PROVE ReadChar(Within(u), c) = Within(Append(u, c))
  <2>1. c # QUOTE /\ c # BACKSLASH
    BY DEF Plain, QUOTE, BACKSLASH
  <2> QED
    BY Zenon, <2>1 DEF ReadChar, Within
<1>2. ASSUME NEW e
      PROVE  ReadChar(ReadChar(Within(u), BACKSLASH), e) = Within(Append(u, Decoded(e)))
  <2>1. ReadChar(Within(u), BACKSLASH) = [Within(u) EXCEPT !.escape = TRUE]
    <3>1. BACKSLASH # QUOTE
      BY DEF QUOTE, BACKSLASH
    <3> QED
      BY <3>1 DEF ReadChar, Within
  <2> QED
    BY Zenon, <2>1 DEF ReadChar, Within
<1>3. ReadChar(Within(u), QUOTE) = [Within(u) EXCEPT !.ended = TRUE]
  <2>1. QUOTE # BACKSLASH
    BY DEF QUOTE, BACKSLASH
  <2> QED
    BY <2>1 DEF ReadChar, Within
<1> QED
  BY Zenon, <1>1, <1>2, <1>3

\* One character more of a text.
LEMMA OneMore ==
  ASSUME NEW text \in Seq(Chars), NEW n \in 0 .. Len(text) - 1
  PROVE  Append(SubSeq(text, 1, n), text[n + 1]) = SubSeq(text, 1, n + 1)
OBVIOUS

\* Where the writer has written n characters, the reader has read them.
LEMMA ReadsWritten ==
  ASSUME NEW text \in Seq(Chars), NEW line \in Seq(InLine),
         Len(Written(text)[Len(text)]) <= Len(line),
         \A i \in 1 .. Len(Written(text)[Len(text)]) : line[i] = Written(text)[Len(text)][i]
  PROVE  Reader(line)[Len(Written(text)[Len(text)])] = Within(text)
<1> DEFINE N == Len(text)
           f == Written(text)
           R == Reader(line)
           T == {n \in Nat : n <= N => R[Len(f[n])] = Within(SubSeq(text, 1, n))}
<1>1. /\ f \in [0 .. N -> Seq(Printed)] /\ f[0] = <<>>
      /\ \A n \in 0 .. N - 1 : f[n + 1] = f[n] \o Escaped(text[n + 1])
  BY Zenon, WrittenDef
<1>2. R[0] = Start /\ \A n \in 0 .. Len(line) - 1 : R[n + 1] = ReadChar(R[n], line[n + 1])
  BY Zenon, ReaderDef
<1>3. \A n \in 0 .. N : Len(f[n]) <= Len(f[N]) /\ \A i \in 1 .. Len(f[n]) : f[N][i] = f[n][i]
  BY Zenon, WrittenGrows
<1>4. Len(f[N]) <= Len(line) /\ \A i \in 1 .. Len(f[N]) : line[i] = f[N][i]
  BY Zenon
<1> HIDE DEF f, R
<1>5. N \in Nat /\ Len(line) \in Nat /\ \A n \in 0 .. N : Len(f[n]) \in Nat
  BY <1>1
<1>6. 0 \in T
  <2>1. Len(f[0]) = 0 /\ SubSeq(text, 1, 0) = <<>>
    BY <1>1
  <2> QED
    BY Zenon, <1>2, <2>1 DEF Start, Within
<1>7. ASSUME NEW n \in Nat, n \in T PROVE n + 1 \in T
  <2> DEFINE c == text[n + 1]
             l == Len(f[n])
             u == SubSeq(text, 1, n)
             s == f[n + 1]
  <2> SUFFICES ASSUME n + 1 <= N PROVE R[Len(s)] = Within(SubSeq(text, 1, n + 1))
    OBVIOUS
  <2>1. n \in 0 .. N - 1 /\ n \in 0 .. N /\ n <= N /\ n + 1 \in 0 .. N /\ c \in Chars
    BY <1>5
  <2>2. s = f[n] \o Escaped(c) /\ R[l] = Within(u) /\ f[n] \in Seq(Printed)
    BY Zenon, <1>1, <1>7, <2>1
  <2>3. Append(u, c) = SubSeq(text, 1, n + 1)
    BY Zenon, <2>1, OneMore
  <2>4. l \in Nat /\ Len(s) \in Nat /\ Len(f[N]) \in Nat /\ Len(s) <= Len(f[N])
    <3>1. N \in 0 .. N
      BY <1>5
    <3> QED
      BY Zenon, <1>3, <1>5, <2>1, <3>1
  <2>5. Len(s) <= Len(line)
    BY <1>4, <1>5, <2>4
  <2>6. \A i \in 1 .. Len(s) : line[i] = s[i]
    <3>1. \A i \in 1 .. Len(s) : i \in 1 .. Len(f[N])
      BY <2>4
    <3> QED
      BY Zenon, <1>3, <1>4, <2>1, <3>1
  <2>7. CASE c \in Plain /\ Escaped(c) = <<c>>
    <3>1. Len(s) = l + 1 /\ s[l + 1] = c
      BY <2>2, <2>7
    <3>2. l + 1 \in 1 .. Len(s) /\ l \in 0 .. Len(line) - 1
      BY <1>5, <2>4, <2>5, <3>1
    <3>3. R[l + 1] = ReadChar(R[l], line[l + 1]) /\ line[l + 1] = c
      BY Zenon, <1>2, <2>6, <3>1, <3>2
    <3>4. ReadChar(Within(u), c) = Within(Append(u, c))
      BY Zenon, <2>7, ReadWithin
    <3> QED
      BY Zenon, <2>2, <2>3, <3>1, <3>3, <3>4
  <2>8. ASSUME NEW e \in Printed, Escaped(c) = <<BACKSLASH, e>>, Decoded(e) = c
        PROVE  R[Len(s)] = Within(SubSeq(text, 1, n + 1))
    <3>1. Len(s) = (l + 1) + 1 /\ s[l + 1] = BACKSLASH /\ s[(l + 1) + 1] = e
      BY <2>2, <2>8
    <3> HIDE DEF l, s
    <3>2. /\ l + 1 \in 1 .. Len(s) /\ l \in 0 .. Len(line) - 1
          /\ (l + 1) + 1 \in 1 .. Len(s) /\ l + 1 \in 0 .. Len(line) - 1
      BY <1>5, <2>4, <2>5, <3>1
    <3>3. R[l + 1] = ReadChar(R[l], BACKSLASH)
      BY Zenon, <1>2, <2>6, <3>1, <3>2
    <3>4. R[(l + 1) + 1] = ReadChar(R[l + 1], e)
      BY Zenon, <1>2, <2>6, <3>1, <3>2
    <3>5. ReadChar(ReadChar(Within(u), BACKSLASH), e) = Within(Append(u, Decoded(e)))
      BY Zenon, ReadWithin
    <3> QED
      BY Zenon, <2>2, <2>3, <2>8, <3>1, <3>3, <3>4, <3>5
  <2> QED
    BY Zenon, <2>1, <2>7, <2>8, EscapedForms
<1> HIDE DEF T
<1>8. N \in T /\ N <= N
  <2>1. \A n \in Nat : n \in T
    BY Zenon, <1>6, <1>7, Induction
  <2> QED
    BY <1>5, <2>1
<1>9. SubSeq(text, 1, N) = text
  OBVIOUS
<1> QED
  BY Zenon, <1>8, <1>9 DEF T, f, R

\* The line of a message, read to its end.
LEMMA LineReadsBack ==
  ASSUME NEW text \in Seq(Chars)
  PROVE  LET line == write_json_escaped(text) \o <<QUOTE, "brace", NEWLINE>>
             r    == ReadJson(line)
         IN  /\ r.text = text /\ r.ended /\ r.rest = <<"brace", NEWLINE>>
             /\ \A i \in 1 .. Len(line) - 1 : line[i] \notin Named \union {Control}
<1> DEFINE w    == Written(text)[Len(text)]
           tail == <<QUOTE, "brace", NEWLINE>>
           line == w \o tail
           R    == Reader(line)
           l    == Len(w)
<1>1. w \in Seq(Printed) /\ l \in Nat
  <2>1. Len(text) \in 0 .. Len(text)
    OBVIOUS
  <2>2. w \in Seq(Printed)
    BY Zenon, <2>1, WrittenDef
  <2> QED
    BY <2>2
<1> HIDE DEF w
<1>2. Printed \subseteq InLine /\ {QUOTE, "brace", NEWLINE} \subseteq InLine
  BY Zenon DEF InLine, Printed, Chars, Named
<1>3. /\ line \in Seq(InLine) /\ Len(line) = ((l + 1) + 1) + 1
      /\ line[l + 1] = QUOTE /\ line[(l + 1) + 1] = "brace" /\ line[((l + 1) + 1) + 1] = NEWLINE
      /\ \A i \in 1 .. l : line[i] = w[i]
  <2>1. w \in Seq(InLine) /\ tail \in Seq(InLine)
    BY <1>1, <1>2
  <2> QED
    BY <1>1, <2>1
<1> HIDE DEF line, tail
<1>4. R[l] = Within(text)
  <2>1. l <= Len(line)
    BY <1>1, <1>3
  <2> QED
    BY Zenon, <1>3, <2>1, ReadsWritten DEF w
<1>5. /\ l \in 0 .. Len(line) - 1 /\ l + 1 \in 0 .. Len(line) - 1
      /\ (l + 1) + 1 \in 0 .. Len(line) - 1
  BY <1>1, <1>3
<1>6. R[l + 1] = [Within(text) EXCEPT !.ended = TRUE]
  <2>1. ReadChar(Within(text), QUOTE) = [Within(text) EXCEPT !.ended = TRUE]
    BY Zenon, ReadWithin
  <2>2. R[l + 1] = ReadChar(R[l], line[l + 1])
    BY Zenon, <1>3, <1>5, ReaderDef
  <2> QED
    BY Zenon, <1>3, <1>4, <2>1, <2>2
<1> DEFINE Behind(rest) == [text |-> text, rest |-> rest, escape |-> FALSE, ended |-> TRUE]
<1>7. ASSUME NEW rest, NEW c PROVE ReadChar(Behind(rest), c) = Behind(Append(rest, c))
  BY Zenon DEF ReadChar
<1>8. R[l + 1] = Behind(<<>>)
  BY Zenon, <1>6 DEF Within
<1>9. R[(l + 1) + 1] = Behind(Append(<<>>, "brace"))
  BY Zenon, <1>3, <1>5, <1>7, <1>8, ReaderDef
<1>10. R[((l + 1) + 1) + 1] = Behind(Append(Append(<<>>, "brace"), NEWLINE))
  <2>1. R[((l + 1) + 1) + 1] = ReadChar(R[(l + 1) + 1], line[((l + 1) + 1) + 1])
    BY Zenon, <1>3, <1>5, ReaderDef
  <2> QED
    BY Zenon, <1>3, <1>7, <1>9, <2>1
<1>11. Append(Append(<<>>, "brace"), NEWLINE) = <<"brace", NEWLINE>>
  <2>1. ASSUME NEW S, NEW a \in S, NEW b \in S
        PROVE  Append(Append(<<>>, a), b) = <<a, b>>
    <3>1. Append(<<>>, a) = <<a>> /\ <<a>> \in Seq(S) /\ <<a, b>> \in Seq(S)
      OBVIOUS
    <3>2. /\ Append(<<a>>, b) \in Seq(S) /\ Len(Append(<<a>>, b)) = Len(<<a, b>>)
          /\ \A i \in 1 .. Len(Append(<<a>>, b)) : Append(<<a>>, b)[i] = <<a, b>>[i]
      BY <3>1
    <3> QED
      BY Zenon, <3>1, <3>2, SeqEqual
  <2> QED
    BY Zenon, <1>2, <2>1
<1>12. ReadJson(line) = Behind(<<"brace", NEWLINE>>)
  BY Zenon, <1>3, <1>10, <1>11 DEF ReadJson
<1>13. ASSUME NEW i \in 1 .. Len(line) - 1 PROVE line[i] \notin Named \union {Control}
  <2>1. i \in 1 .. l \/ i = l + 1 \/ i = (l + 1) + 1
    BY <1>1, <1>3
  <2>2. \A j \in 1 .. l : w[j] \in Printed
    BY <1>1
  <2>3. line[i] \in Printed \union {QUOTE, "brace"}
    BY Zenon, <1>3, <2>1, <2>2
  <2> QED
    BY <2>3 DEF Printed, Named, Control, NEWLINE, QUOTE, BACKSLASH, Plain
<1>14. line = write_json_escaped(text) \o <<QUOTE, "brace", NEWLINE>>
  BY Zenon DEF write_json_escaped, line, tail, w
<1>15. LET r == ReadJson(line) IN r.text = text /\ r.ended /\ r.rest = <<"brace", NEWLINE>>
  BY <1>12
<1> HIDE DEF Behind, R, l
<1> QED
  BY Zenon, <1>13, <1>14, <1>15

\* For every size of the message buffer and every message: however it is cut, the
\* line in the JSON format is one line and one string, from which a reader gets
\* back exactly the characters that were kept.
THEOREM AlwaysJsonReadsBack == Spec => []JsonReadsBack
<1>1. Init => JsonReadsBack
  BY DEF Init, Idle, JsonReadsBack
<1>2. JsonReadsBack /\ [Next]_call => JsonReadsBack'
  <2> SUFFICES ASSUME JsonReadsBack, [Next]_call PROVE JsonReadsBack'
    BY Zenon
  <2>1. ASSUME NEW text \in Messages, LogLine(text) PROVE JsonReadsBack'
    <3>1. text \in Seq(Chars)
      BY SizesAssumption DEF Messages
    <3>2. Cut(text) \in Seq(Chars)
      <4>1. ReadInto(Len(text), MessageSize - 1) \in 0 .. Len(text)
        BY <3>1, SizesAssumption DEF ReadInto
      <4> QED
        BY <3>1, <4>1 DEF Cut
    <3>3. call'.text = text /\ call'.line = JsonEnd(text)
      BY Zenon, <2>1 DEF LogLine
    <3> QED
      BY Zenon, <3>2, <3>3, LineReadsBack DEF JsonReadsBack, JsonEnd
  <2>2. ASSUME NEW routes, NEW packet, FindPeer(routes, packet) PROVE JsonReadsBack'
    BY Zenon, <2>2 DEF FindPeer, JsonReadsBack
  <2>3. ASSUME NEW address, NEW prefix, ParseCidr(address, prefix) PROVE JsonReadsBack'
    BY Zenon, <2>3 DEF ParseCidr, JsonReadsBack
  <2>4. ASSUME NEW len, NEW counter, Carry(len, counter) PROVE JsonReadsBack'
    BY Zenon, <2>4 DEF Carry, JsonReadsBack
  <2>5. CASE Return
    BY Zenon, <2>5 DEF Return, Idle, JsonReadsBack
  <2>6. CASE UNCHANGED call
    BY Zenon, <2>6 DEF JsonReadsBack
  <2> QED
    BY Zenon, <2>1, <2>2, <2>3, <2>4, <2>5, <2>6 DEF Next
<1> QED
  BY <1>1, <1>2, PTL DEF Spec
=============================================================================
