------------------------ MODULE MCSessionLifecycle ------------------------
(* The instances of SessionLifecycle that TLC checks.                      *)
EXTENDS SessionLifecycle

CONSTANTS n1, n2

MCConns == {n1, n2}
===========================================================================
