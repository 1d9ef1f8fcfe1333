--------------------------- MODULE ControlHandoff ---------------------------
(***************************************************************************)
(* What a session promises about control, without any of its machinery:    *)
(* keyboard and mouse belong to one machine, and change hands by a message *)
(* that is either under way or delivered, never both, never doubled.  The  *)
(* two machines' views (edge::State on the server, `active' on the client) *)
(* are one variable here.                                                  *)
(***************************************************************************)

VARIABLE owner  \* who has control, or where control is on its way

\* "over": no session; "stranded": the message that carried control was refused
\* by a full channel, and only the end of the session brings it back.
TypeOK == owner \in {"mac", "toWindows", "windows", "toMac", "stranded", "over"}

Init == owner = "mac"

\* The cursor crosses the Mac's right edge.
Cross == owner = "mac" /\ owner' = "toWindows"

\* TakeControl reaches the client.
Arrive == owner = "toWindows" /\ owner' = "windows"

\* The cursor leaves Windows by its left edge.
Leave == owner = "windows" /\ owner' = "toMac"

\* ReleaseControl reaches the edge state machine.
Return == owner = "toMac" /\ owner' = "mac"

\* A full channel refuses the control frame: TakeControl at the crossing,
\* ReleaseControl at the client's end or before the brain.
Refuse == owner \in {"mac", "windows", "toMac"} /\ owner' = "stranded"

\* Either end leaves the session, with control wherever it is.
Abandon == owner # "over" /\ owner' = "over"

\* A new session starts on the Mac.
Restart == owner = "over" /\ owner' = "mac"

Next == Cross \/ Arrive \/ Leave \/ Return \/ Refuse \/ Abandon \/ Restart

Spec == Init /\ [][Next]_owner
=============================================================================
