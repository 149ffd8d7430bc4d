------------------------------ MODULE Routing -------------------------------
(***************************************************************************)
(* Outbound routing (src/src/routing.c): which configured peer a packet    *)
(* read from the TUN device goes to.                                       *)
(*                                                                         *)
(* An address is a number of Bits bits (32 in the code), a route is the    *)
(* allowed_address and allowed_prefix of one [Peer] section, and a routing *)
(* table is the sequence of them in the order of the file.  Both sides of  *)
(* the code's comparison are in network byte order, and so is the mask, so *)
(* the comparison is the one of the numbers.                               *)
(***************************************************************************)
EXTENDS Powers, Sequences

CONSTANTS
  Bits,        \* the width of an address
  HeaderLen    \* the length of a minimal IPv4 header, 20

ASSUME BitsAssumption   == Bits \in Nat \ {0}
ASSUME HeaderAssumption == HeaderLen \in Nat

Address == 0 .. Power(2)[Bits] - 1
Route   == [address : Address, prefix : 0 .. Bits]

\* What a packet shows to routing: its length, its version nibble and the
\* four bytes at offset 16, which are there only when it is long enough.
Packet  == [len : Nat, version : 0 .. 15, dest : Address]

routing_parse_ipv4_dest_ok(packet) ==
  packet.len >= HeaderLen /\ packet.version = 4

\* ~0U << n, in Bits bits.  C leaves a shift by the width undefined; the
\* machine the daemon is built for takes the shift count modulo the width.
ShiftLeft(n) ==
  LET ones == Power(2)[Bits] - 1
  IN  (ones * Power(2)[n % Bits]) % Power(2)[Bits]

\* Mutant: a prefix of 0 is shifted like any other.
MaskUnguarded(prefix) == ShiftLeft(Bits - prefix)
Mask(prefix) == IF prefix = 0 THEN 0 ELSE ShiftLeft(Bits - prefix)

\* a & m, bit by bit.
Bit(a, i)    == (a \div Power(2)[i]) % 2
BitAnd(a, m) == {i \in 0 .. Bits - 1 : Bit(a, i) = 1 /\ Bit(m, i) = 1}

routing_matches(addr, network, prefix) ==
  BitAnd(addr, Mask(prefix)) = BitAnd(network, Mask(prefix))

NoPeer == 0   \* the -1 of the code; sequences count from 1

\* The index the loop returns at.
routing_find_peer_for_dest(routes, dest) ==
  LET matches(i) == routing_matches(dest, routes[i].address, routes[i].prefix)
      first == {i \in 1 .. Len(routes) : matches(i) /\ \A j \in 1 .. i - 1 : ~ matches(j)}
  IN  IF first = {} THEN NoPeer ELSE CHOOSE i \in first : TRUE

\* Where main.c sends a packet from the TUN device.
RouteOf(routes, packet) ==
  IF routing_parse_ipv4_dest_ok(packet)
  THEN routing_find_peer_for_dest(routes, packet.dest) ELSE NoPeer
=============================================================================
