---------------------------- MODULE MCRootPolicy ----------------------------
(***************************************************************************)
(* RootPolicy for TLC: three automatic requests, a manual one, the         *)
(* commands of one operator, and which of them may overlap with a run of   *)
(* the executor.                                                           *)
(***************************************************************************)
EXTENDS RootPolicy, TLC

CONSTANTS i1, i2, i3, m

MCManual == {m}
MCIds == {i1, i2, i3, m}
MCSymmetry == Permutations({i1, i2, i3})

MCConfirm == [do : {"confirm"}, to : BOOLEAN]
MCCommands == MCConfirm \union {[do |-> "acknowledge"]}
=============================================================================
