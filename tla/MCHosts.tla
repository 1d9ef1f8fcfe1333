------------------------------- MODULE MCHosts -------------------------------
(***************************************************************************)
(* Four parts that share no state, side by side: what the operator is      *)
(* shown (StatusDisplay), the Windows service and its helpers              *)
(* (WindowsService), the files a machine is known by (PeerIdentity), and   *)
(* the Mac's taps and cursor under overlapping sessions (MacInput).        *)
(* A behaviour belongs to one part from its first state on, the others     *)
(* stay in an initial state.                                               *)
(***************************************************************************)
EXTENDS StatusDisplay, WindowsService, PeerIdentity, MacInput

VARIABLE part \* the part that runs

vars == <<displayVars, hostVars, identityVars, inputVars, part>>

\* The other parts rest in one state each.
Init ==
  /\ part \in {"display", "service", "files", "taps"}
  /\ DisplayInit /\ HostInit /\ IdentityInit /\ InputInit
  /\ part # "service" => ~user

Next ==
  /\ \/ part = "display" /\ DisplayNext /\ UNCHANGED <<hostVars, identityVars, inputVars>>
     \/ part = "service" /\ HostNext /\ UNCHANGED <<displayVars, identityVars, inputVars>>
     \/ part = "files" /\ IdentityNext /\ UNCHANGED <<displayVars, hostVars, inputVars>>
     \/ part = "taps" /\ InputNext /\ UNCHANGED <<displayVars, hostVars, identityVars>>
  /\ UNCHANGED part

\* Of the actions these name none is enabled in a part that rests.
Spec == Init /\ [][Next]_vars /\ DisplayFairness /\ HostFairness /\ InputFairness

TypesOK == DisplayTypeOK /\ HostTypeOK /\ IdentityTypeOK /\ InputTypeOK

\* Runs in which two processes have written at one time end there: nothing is
\* claimed of what follows.
OneWriter == ~raced
=============================================================================
