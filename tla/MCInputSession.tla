-------------------------- MODULE MCInputSession --------------------------
(* The instances of InputSession that TLC checks.                          *)
EXTENDS InputSession

CONSTANTS k1, k2

\* Two keys, both modifiers.
MCKeys == {k1, k2}

\* The default configuration on Cmd and Ctrl: both become Ctrl (k2).
MCMerged == [k \in MCKeys |-> k2]

\* One ordinary key.
MCOneKey == {k1}
MCNoMods == {}
MCOneIdentity == [k \in MCOneKey |-> k]

\* What local applications saw feeds nothing back into the session.
WithoutMacDown ==
  <<phys, cursorHidden, tapVars, brainQ, brainVars, srvVars, cliVars, outVars,
    toServer, srcLost>>
============================================================================
