--------------------------- MODULE MCEdgeCrossing ---------------------------
(* Two displays, the narrower one above the main one, and unit motions. *)
EXTENDS EdgeCrossing

MCDisplays == <<[x |-> 0, y |-> 0, w |-> 3, h |-> 2], [x |-> 0, y |-> -1, w |-> 2, h |-> 1]>>
MCSteps == {[dx |-> 1, dy |-> 0], [dx |-> -1, dy |-> 0], [dx |-> 0, dy |-> -1], [dx |-> 0, dy |-> 1]}
=============================================================================
