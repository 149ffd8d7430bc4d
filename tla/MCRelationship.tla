--------------------------- MODULE MCRelationship ---------------------------
(***************************************************************************)
(* Values for the constants of Relationship.  RetryAfter is 2, the least   *)
(* its assumption allows: the closest the handshake counter can come to    *)
(* the clock.  Two degenerate keys, one of each side and neither of them   *)
(* its first, make key derivation fail in the middle of a history.         *)
(***************************************************************************)
EXTENDS Relationship

TwoPayloads       == {<<"data", 0>>, <<"data", 1>>}
OnePayload        == {<<"data", 0>>}
NoRestarts        == [p \in Side |-> 0]
ResponderRestarts == [p \in Side |-> IF p = "R" THEN 1 ELSE 0]
BothRestart       == [p \in Side |-> IF p = "I" THEN 2 ELSE 1]
NoDegenerate      == {}
SomeDegenerate    == {Ephemeral("I", 3), Ephemeral("R", 2)}
=============================================================================
