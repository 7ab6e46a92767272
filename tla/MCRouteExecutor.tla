-------------------------- MODULE MCRouteExecutor --------------------------
(***************************************************************************)
(* RouteExecutor for TLC: a is an automatic request, b a manual one, and e  *)
(* the configuration the host installs.                                    *)
(***************************************************************************)
EXTENDS RouteExecutor

CONSTANTS a, b, e

MCTxns  == {a, b}
MCAuto  == {a}
MCEdit  == {e}
=============================================================================
