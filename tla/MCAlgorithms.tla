---------------------------- MODULE MCAlgorithms ----------------------------
(***************************************************************************)
(* Addresses of 3 bits, every table of at most two routes, every           *)
(* destination, and packets around the two limits of the parser.           *)
(***************************************************************************)
EXTENDS Algorithms

SomePackets ==
  [len : {HeaderLen}, version : {4}, dest : Address] \union
  [len : {HeaderLen - 1}, version : {4}, dest : {5}] \union
  [len : {HeaderLen + 1}, version : {6}, dest : {5}]
=============================================================================
