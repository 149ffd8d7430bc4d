------------------------------- MODULE Config -------------------------------
(***************************************************************************)
(* The configuration file (src/src/config.c): config_load reads a file     *)
(* piece by piece, as fgets cuts it, into an edgarvpn_config_t.  The file  *)
(* is any sequence of pieces, of any length.  A piece is kept to what      *)
(* config_load tells apart in it after trim: nothing or a comment, a       *)
(* section header, a key with a value that the key's parser takes or not,  *)
(* or anything else.  A line longer than the buffer is several pieces: the *)
(* code does not tell them from lines.                                     *)
(***************************************************************************)
EXTENDS Integers, Sequences

CONSTANTS
  CONFIG_MAX_PEERS,   \* 8 in the code
  ValuesOf            \* ValuesOf[key]: what the values of a key parse to

InterfaceKeys == {"Name", "DeviceName", "Address", "ListenPort", "PrivateKey"}
PeerKeys      == {"Endpoint", "PublicKey", "Role", "AllowedIPs"}

Unset   == "unset"     \* the bytes of a memset, or a default
Invalid == "invalid"   \* a value that its parser, or the length check, refuses

ASSUME ConfigAssumption ==
  /\ CONFIG_MAX_PEERS \in Nat
  /\ DOMAIN ValuesOf = InterfaceKeys \union PeerKeys
  /\ \A key \in DOMAIN ValuesOf : Unset \notin ValuesOf[key]

VARIABLES
  cfg,            \* cfg.interface[key], cfg.peers[k][key]
  section,        \* SECTION_NONE, SECTION_INTERFACE or SECTION_PEER
  have,           \* have[key]: the flags of the current [Peer] section
  have_address,
  f,              \* the stream: "closed" or "open"
  result          \* "called", "reading", then "loaded" or "failed": 0 or -1

configVars == <<cfg, section, have, have_address, f, result>>

NONE      == "none"
INTERFACE == "Interface"
PEER      == "Peer"

NoKeys == [key \in PeerKeys |-> FALSE]
EmptyPeer == [key \in PeerKeys |-> Unset]
Complete == \A key \in PeerKeys : have[key]

-----------------------------------------------------------------------------
Blanks   == {[kind |-> "blank"]}
Headers  == [kind : {"header"}, name : {INTERFACE, PEER, "other"}, closed : BOOLEAN]
SettingsOf(key) == [kind : {"setting"}, key : {key}, value : ValuesOf[key] \union {Invalid}]
Unknown  == [kind : {"setting"}, key : {"other"}, value : {Invalid}]
Settings == Unknown \union UNION {SettingsOf(key) : key \in InterfaceKeys \union PeerKeys}
Others   == {[kind |-> "other"]}

ConfigInit ==
  /\ cfg = [interface |-> [key \in InterfaceKeys |-> Unset], peers |-> <<>>]
  /\ section = NONE /\ have = NoKeys /\ have_address = FALSE
  /\ f = "closed" /\ result = "called"

OpenFile(ok) ==
  /\ result = "called"
  /\ IF ok THEN f' = "open" /\ result' = "reading"
           ELSE f' = f /\ result' = "failed"
  /\ UNCHANGED <<cfg, section, have, have_address>>

Continue == UNCHANGED <<f, result>>
Fail == f' = "closed" /\ result' = "failed" /\ UNCHANGED <<cfg, section, have, have_address>>

SkipLine(line) ==
  /\ result = "reading"
  /\ line.kind = "blank"
  /\ Continue
  /\ UNCHANGED <<cfg, section, have, have_address>>

\* Mutant: the flags of the section before are kept.
NewPeerKeepsFlags ==
  /\ section' = PEER
  /\ cfg' = [cfg EXCEPT !.peers = Append(@, EmptyPeer)]
  /\ UNCHANGED have
NewPeer ==
  /\ section' = PEER
  /\ cfg' = [cfg EXCEPT !.peers = Append(@, EmptyPeer)]
  /\ have' = NoKeys

\* Mutant: one section too many gets past the limit.
RoomOneMore == Len(cfg.peers) <= CONFIG_MAX_PEERS
Room == Len(cfg.peers) < CONFIG_MAX_PEERS

ReadHeader(line) ==
  LET started == line.closed /\ (section = PEER => Complete)
  IN  /\ result = "reading"
      /\ line.kind = "header"
      /\ \/ /\ started /\ line.name = INTERFACE
            /\ section' = INTERFACE
            /\ Continue /\ UNCHANGED <<cfg, have, have_address>>
         \/ /\ started /\ line.name = PEER /\ Room
            /\ NewPeer
            /\ Continue /\ UNCHANGED have_address
         \/ /\ started => line.name = "other" \/ (line.name = PEER /\ ~ Room)
            /\ Fail

\* A key may come again: the last value counts.
ReadSetting(line) ==
  /\ result = "reading"
  /\ line.kind = "setting"
  /\ \/ /\ section = INTERFACE /\ line.key \in InterfaceKeys /\ line.value # Invalid
        /\ cfg' = [cfg EXCEPT !.interface[line.key] = line.value]
        /\ have_address' = (have_address \/ line.key = "Address")
        /\ Continue /\ UNCHANGED <<section, have>>
     \/ /\ section = PEER /\ line.key \in PeerKeys /\ line.value # Invalid
        /\ cfg' = [cfg EXCEPT !.peers[Len(cfg.peers)][line.key] = line.value]
        /\ have' = [have EXCEPT ![line.key] = TRUE]
        /\ Continue /\ UNCHANGED <<section, have_address>>
     \/ /\ \/ line.value = Invalid
           \/ section = INTERFACE /\ line.key \notin InterfaceKeys
           \/ section = PEER /\ line.key \notin PeerKeys
           \/ section = NONE
        /\ Fail

ReadOther(line) ==
  /\ result = "reading"
  /\ line.kind = "other"
  /\ Fail

Acceptable ==
  /\ section = PEER => Complete
  /\ have_address
  /\ Len(cfg.peers) > 0 => cfg.interface["PrivateKey"] # Unset

\* The file is closed, then what it said is looked at.
EndOfFile ==
  /\ result = "reading"
  /\ f' = "closed"
  /\ result' = IF Acceptable THEN "loaded" ELSE "failed"
  /\ UNCHANGED <<cfg, section, have, have_address>>

config_load ==
  \/ \E ok \in BOOLEAN : OpenFile(ok)
  \/ \E line \in Blanks : SkipLine(line)
  \/ \E line \in Headers : ReadHeader(line)
  \/ \E line \in Settings : ReadSetting(line)
  \/ \E line \in Others : ReadOther(line)
  \/ EndOfFile

ConfigSpec == ConfigInit /\ [][config_load]_configVars

-----------------------------------------------------------------------------
(***************************************************************************)
(* Properties                                                              *)
(***************************************************************************)
\* A configuration that is accepted can be run: each peer has all of its four
\* keys from its own section, wherever [Interface] sections stand between, there
\* is room for all of them, and what main.c needs of [Interface] is there.
AcceptedIsComplete ==
  result = "loaded" =>
    /\ \A k \in 1 .. Len(cfg.peers) : \A key \in PeerKeys : cfg.peers[k][key] # Unset
    /\ cfg.interface["Address"] # Unset
    /\ Len(cfg.peers) > 0 => cfg.interface["PrivateKey"] # Unset

\* The array of peers is never written past its end, rejected files included.
PeersFit == Len(cfg.peers) <= CONFIG_MAX_PEERS
=============================================================================
