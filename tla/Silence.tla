------------------------------ MODULE Silence -------------------------------
(***************************************************************************)
(* The daemon with a history of when it last heard something valid from    *)
(* each peer, to compare with what its dead-peer timer goes by.            *)
(***************************************************************************)
EXTENDS MCDaemon

VARIABLE heard   \* heard[n]: the age of the last valid datagram from n

\* A datagram that is read changes a session only if it is valid.
Valid(n) == phase = <<"udp">> /\ ps'[n].session # ps[n].session

Heard ==
  heard' = [n \in Nodes |->
              IF Valid(n) THEN 0 ELSE Aged(heard[n], time' - time, TIMEOUT)]

HeardSpec == /\ Init /\ heard = [n \in Nodes |-> TIMEOUT]
             /\ [][Next /\ Heard]_<<vars, heard>>

\* docs/NETWORKING.md: an initiator "additionally tracks how long it's been since
\* it last heard *anything* valid from that peer; past SESSION_TIMEOUT_MS, it
\* assumes the session is dead".  So an established session whose keys are not
\* due for rotation is given up only after such a silence.
DeadAfterSilence ==
  [][\A n \in Nodes :
       (/\ Established(n) /\ ps[n].key_age < ROTATION
        /\ ps'[n].session.pending_handshake_counter
             > ps[n].session.pending_handshake_counter) =>
         heard[n] >= TIMEOUT]_<<vars, heard>>
=============================================================================
