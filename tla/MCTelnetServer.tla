--------------------------- MODULE MCTelnetServer ---------------------------
(***************************************************************************)
(* TLC instances of TelnetServer.  The peers are interchangeable: they are *)
(* model values, Init and Next name none of them, and None is not one.     *)
(* Only the runs without liveness properties reduce by this symmetry.      *)
(***************************************************************************)
EXTENDS TelnetServer, TLC

PeerSymmetry == Permutations(Peers)
=============================================================================
