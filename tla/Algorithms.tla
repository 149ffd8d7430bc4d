----------------------------- MODULE Algorithms -----------------------------
(***************************************************************************)
(* The pure functions of the daemon, called one at a time with every       *)
(* argument of a bounded size: routing a packet, the netmask of Address,   *)
(* a line of the JSON log, and a packet's way over the wire.  The results  *)
(* are compared with what the functions are for.                           *)
(***************************************************************************)
EXTENDS Routing, Log, Wire

CONSTANTS
  MaxRoutes,     \* bound: [Peer] sections
  Packets,       \* packets that are routed
  MessageSize,   \* sizeof(message) in log_at, 1024
  MaxMessage,    \* bound: characters of a message before it is cut
  MaxLen         \* bound: length of a packet on the TUN device

ASSUME PacketsAssumption == Packets \subseteq Packet
ASSUME SizesAssumption ==
  /\ MaxRoutes \in Nat /\ MaxMessage \in Nat /\ MaxLen \in Nat
  /\ MessageSize \in Nat \ {0}

VARIABLE call   \* the call that has just returned: its arguments and result

Idle == [name |-> "idle"]

Tables == UNION {[1 .. n -> Route] : n \in 0 .. MaxRoutes}

FindPeer(routes, packet) ==
  /\ call = Idle
  /\ call' = [name |-> "route", routes |-> routes, packet |-> packet,
              result |-> RouteOf(routes, packet)]

-----------------------------------------------------------------------------
\* Mutant: the full width is left out.
PrefixBelowWidth(prefix) == 0 <= prefix /\ prefix < Bits
PrefixOk(prefix) == 0 <= prefix /\ prefix <= Bits

\* The netmask that parse_cidr writes and tun_configure gives the device.
Netmask(prefix) == IF prefix = 0 THEN 0 ELSE ShiftLeft(Bits - prefix)

ParseCidr(address, prefix) ==
  /\ call = Idle
  /\ call' = [name |-> "cidr", address |-> address, prefix |-> prefix,
              accepted |-> PrefixOk(prefix),
              covered |-> IF PrefixOk(prefix)
                          THEN {a \in Address : BitAnd(a, Netmask(prefix))
                                                  = BitAnd(address, Netmask(prefix))}
                          ELSE {}]

-----------------------------------------------------------------------------
Messages == UNION {[1 .. n -> Chars] : n \in 0 .. MaxMessage}

\* vsnprintf leaves room for the terminating zero.
Cut(text) == SubSeq(text, 1, ReadInto(Len(text), MessageSize - 1))

\* What has been written after n characters.
Written(text) ==
  LET out[n \in 0 .. Len(text)] ==
        IF n = 0 THEN <<>> ELSE out[n - 1] \o Escaped(text[n])
  IN  out
write_json_escaped(text) == Written(text)[Len(text)]

\* The end of the line that emit writes: the message and what follows it.
JsonEnd(text) == write_json_escaped(Cut(text)) \o <<QUOTE, "brace", NEWLINE>>

LogLine(text) ==
  /\ call = Idle
  /\ call' = [name |-> "log", text |-> text, line |-> JsonEnd(text)]

-----------------------------------------------------------------------------
Counters == 0 .. Power(ByteValues)[CRYPTO_COUNTER_BYTES] - 1

Carry(len, counter) ==
  LET read   == ReadInto(len, MAX_PACKET_SIZE)
      sealed == SealDataLen(read, SEALED_BUF_SIZE)
      got    == ReadInto(sealed, SEALED_BUF_SIZE)
  IN  /\ call = Idle
      /\ call' = [name |-> "carry", read |-> read, counter |-> counter,
                  opened |-> OpenDataLen(got, got = sealed, MAX_PACKET_SIZE),
                  seen |-> DecodeCounter(EncodeCounter(counter))]

-----------------------------------------------------------------------------
Return == call # Idle /\ call' = Idle

Init == call = Idle
Next ==
  \/ \E routes \in Tables, packet \in Packets : FindPeer(routes, packet)
  \/ \E address \in Address, prefix \in -1 .. Bits + 1 : ParseCidr(address, prefix)
  \/ \E text \in Messages : LogLine(text)
  \/ \E len \in 0 .. MaxLen, counter \in Counters : Carry(len, counter)
  \/ Return

Spec == Init /\ [][Next]_call

-----------------------------------------------------------------------------
(***************************************************************************)
(* Properties                                                              *)
(***************************************************************************)

\* The block of 2^(Bits - prefix) addresses that a range stands for.
Block(address, prefix) ==
  LET size  == Power(2)[Bits - prefix]
      first == (address \div size) * size
  IN  first .. first + size - 1
BlockOf(r) == Block(r.address, r.prefix)

\* A packet goes to a peer exactly when it is IPv4 with a full header and the
\* peer's section is the first one whose AllowedIPs block holds the packet's
\* destination, for every prefix length from 0 (everything, where the shift in
\* routing_matches would be undefined) to the full width (one host).
FirstCoveringPeer ==
  call.name = "route" =>
    \A i \in 1 .. Len(call.routes) :
      call.result = i <=>
        /\ call.packet.len >= HeaderLen /\ call.packet.version = 4
        /\ call.packet.dest \in BlockOf(call.routes[i])
        /\ \A j \in 1 .. i - 1 : call.packet.dest \notin BlockOf(call.routes[j])

\* The kernel's idea of the overlay network, from the netmask of Address, is the
\* block that an AllowedIPs of the same text would route, for every prefix length
\* that parse_cidr accepts: exactly those from 0 to the full width.
NetmaskIsBlock ==
  call.name = "cidr" =>
    /\ call.accepted = (call.prefix \in 0 .. Bits)
    /\ call.accepted => call.covered = Block(call.address, call.prefix)

\* How a JSON reader goes through a line: what it has read, whether it is behind
\* a backslash, and whether the string has ended.
Decoded(c) == CASE c = "n" -> NEWLINE [] c = "r" -> "return" [] c = "t" -> "tab"
                [] c = "u" -> Control [] OTHER -> c
ReadChar(r, c) ==
  CASE r.ended -> [r EXCEPT !.rest = Append(@, c)]
    [] ~ r.ended /\ r.escape -> [r EXCEPT !.text = Append(@, Decoded(c)), !.escape = FALSE]
    [] ~ r.ended /\ ~ r.escape /\ c = BACKSLASH -> [r EXCEPT !.escape = TRUE]
    [] ~ r.ended /\ ~ r.escape /\ c = QUOTE -> [r EXCEPT !.ended = TRUE]
    [] OTHER -> [r EXCEPT !.text = Append(@, c)]
Reader(line) ==
  LET start == [text |-> <<>>, rest |-> <<>>, escape |-> FALSE, ended |-> FALSE]
      read[n \in 0 .. Len(line)] ==
        IF n = 0 THEN start ELSE ReadChar(read[n - 1], line[n])
  IN  read
ReadJson(line) == Reader(line)[Len(line)]

\* Whatever a message holds, and wherever log_at cuts it, its line is one line
\* and one JSON object from which a reader gets the message back, as an aggregator
\* does (docs/LOGGING.md, the json format).
JsonReadsBack ==
  call.name = "log" =>
    LET r == ReadJson(call.line)
    IN  /\ r.text = Cut(call.text)
        /\ r.ended /\ r.rest = <<"brace", NEWLINE>>
        /\ \A i \in 1 .. Len(call.line) - 1 : call.line[i] \notin Named \union {Control}

\* A packet of any length that tun_read returns gets through: no buffer or length
\* check on the way refuses or shortens it, and the other end reads the counter
\* that the packet was sealed with.
CarriedWhole ==
  call.name = "carry" => call.opened = call.read /\ call.seen = call.counter
=============================================================================
