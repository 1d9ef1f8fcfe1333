-------------------------- MODULE MCClipboardSync --------------------------
(* The instances of ClipboardSync that TLC checks.                         *)
EXTENDS ClipboardSync

CONSTANTS t1, t2, t3

MCTexts == {t1, t2}

\* A text of one chunk and one of two.
MCSizes == [t \in MCTexts |-> IF t = t1 THEN 1 ELSE 2]

\* Three texts, so that three copies can all be fresh; two of them of two chunks,
\* so that they can be mixed.
MCThreeTexts == {t1, t2, t3}
MCThreeSizes == [t \in MCThreeTexts |-> IF t = t3 THEN 1 ELSE 2]
============================================================================
