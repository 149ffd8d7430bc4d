----------------------------- MODULE MCProcess ------------------------------
(***************************************************************************)
(* The process with two peers at most: files that are short, too long by   *)
(* one section, repeated and incomplete ones among them.                   *)
(***************************************************************************)
EXTENDS Process

Values == [Name |-> {"name"}, DeviceName |-> {"device"}, Address |-> {"address"},
           ListenPort |-> {"port"}, PrivateKey |-> {"key"}, Endpoint |-> {"endpoint"},
           PublicKey |-> {"key"}, Role |-> {"initiator", "responder"},
           AllowedIPs |-> {"range"}]
=============================================================================
