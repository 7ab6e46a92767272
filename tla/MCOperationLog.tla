--------------------------- MODULE MCOperationLog ---------------------------
(***************************************************************************)
(* OperationLog for TLC: two decisions, two payloads and a switch.         *)
(***************************************************************************)
EXTENDS OperationLog, TLC

CONSTANTS d1, d2, p1, p2, normal, disabled

MCDecisions == {d1, d2}
MCPayloads  == {p1, p2}
MCModes     == {normal, disabled}

\* No definition tells one decision or one payload from another, and every
\* property is one of safety.
MCSymmetry == Permutations(MCDecisions) \union Permutations(MCPayloads)
=============================================================================
