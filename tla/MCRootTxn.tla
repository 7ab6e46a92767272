----------------------------- MODULE MCRootTxn -----------------------------
(***************************************************************************)
(* RootTxn for TLC: a and b are requests, e is a host edit.                *)
(***************************************************************************)
EXTENDS RootTxn

CONSTANTS a, b, e

MCTwo   == {a, b}
MCAuto  == {a}
MCEdits == {e}
=============================================================================
