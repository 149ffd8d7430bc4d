------------------------------ MODULE MCDaemon ------------------------------
(***************************************************************************)
(* A hub with up to three peers, a, b and c, on an address space of two    *)
(* bits.                                                                   *)
(***************************************************************************)
EXTENDS Daemon

\* Three peers: the hub responds to a and c and initiates toward b.
ThreePeers   == <<"a", "b", "c">>
ThreeRoles   == [n \in Nodes |-> IF n = "b" THEN INITIATOR ELSE RESPONDER]
ThreeRoutes  == <<[address |-> 1, prefix |-> 2], [address |-> 2, prefix |-> 1],
                  [address |-> 0, prefix |-> 2]>>
Homes        == [n \in Nodes |-> CASE n = "a" -> "addr1" [] n = "b" -> "addr2"
                                   [] n = "c" -> "addr4"]
\* One packet for a, one of IPv6.
SomePackets  == {[len |-> 20, version |-> 4, dest |-> 1],
                 [len |-> 40, version |-> 6, dest |-> 1]}
\* a may take over the address b had.
Chain        == [n \in Nodes |-> CASE n = "a" -> {"addr2"} [] n = "b" -> {"addr3"}
                                   [] n = "c" -> {}]
ReInits      == [n \in Nodes |-> IF n = "a" THEN 2 ELSE 1]
DataOfA      == [n \in Nodes |-> IF n = "a" THEN 1 ELSE 0]
SomeDegenerate == {Ephemeral("a", 3)}

\* Two peers, that the hub responds to or initiates toward.
TwoPeers     == <<"a", "b">>
TwoRoutes    == SubSeq(ThreeRoutes, 1, 2)
Responds     == [n \in Nodes |-> RESPONDER]
Initiates    == [n \in Nodes |-> INITIATOR]
ReuseMoves   == [n \in Nodes |-> IF n = "a" THEN {"addr3"} ELSE {"addr1"}]

\* One peer that the hub initiates toward.
OnePeer      == <<"b">>
OneRoute     == SubSeq(ThreeRoutes, 2, 2)
BMoves       == [n \in Nodes |-> {"addr3"}]

\* c's address passes on what others send.
ViaC         == {"addr4"}
\* udp_resolve answers at once, or takes up to SESSION_TIMEOUT_MS.
AtOnce       == {0}
UpToTimeout  == 0 .. TIMEOUT

NoRelays     == {}
NoMoves      == [n \in Nodes |-> {}]
NoPackets    == {}
NoDegenerate == {}
Zero         == [n \in Nodes |-> 0]
One          == [n \in Nodes |-> 1]
Two          == [n \in Nodes |-> 2]
=============================================================================
