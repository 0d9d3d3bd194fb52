-------------------------- MODULE SessionAgreement --------------------------
(***************************************************************************)
(* What the session handshake promises (remote_core/src/session_auth.rs):  *)
(* the host establishes a session at most once, for at most one session    *)
(* per attempt of a client, and a client only ever establishes the session *)
(* that the host has established for this attempt, with the same key.      *)
(***************************************************************************)
CONSTANTS Sid, Attempt, Addr, Key

VARIABLES hostSide, clientSide   \* the sessions each side has established

\* A session: its id, the client's attempt, the address it was made from and
\* the key that authenticated it.
Sessions == [sid : Sid, attempt : Attempt, addr : Addr, key : Key]

AgreeInit == hostSide = {} /\ clientSide = {}

HostEstablishes(s) ==
  /\ \A t \in hostSide : t.sid # s.sid /\ t.attempt # s.attempt
  /\ hostSide' = hostSide \cup {s}
  /\ UNCHANGED clientSide
ClientEstablishes(s) ==
  /\ s \in hostSide
  /\ \A t \in clientSide : t.attempt # s.attempt
  /\ clientSide' = clientSide \cup {s}
  /\ UNCHANGED hostSide

AgreeNext == \E s \in Sessions : HostEstablishes(s) \/ ClientEstablishes(s)
AgreeSpec == AgreeInit /\ [][AgreeNext]_<<hostSide, clientSide>>
=============================================================================
