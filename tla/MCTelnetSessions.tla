-------------------------- MODULE MCTelnetSessions --------------------------
(***************************************************************************)
(* TLC instance of TelnetSessions: two connections.                        *)
(***************************************************************************)
EXTENDS TelnetSessions

MCConnections == {"c1", "c2"}
=============================================================================
