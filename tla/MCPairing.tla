----------------------------- MODULE MCPairing -----------------------------
(* The instances of Pairing that TLC checks.                               *)
EXTENDS Pairing

CONSTANTS c1, c2, n1, n2

MCOneClient == {c1}
MCTwoClients == {c1, c2}
MCOneConn == {n1}
MCTwoConns == {n1, n2}
============================================================================
