---------------------------- MODULE AtomicConfig ----------------------------
(***************************************************************************)
(* What the root transaction promises its callers, with every intermediate *)
(* write hidden: a request either becomes the live configuration or leaves *)
(* it alone, is decided at most once, and between decisions only the host  *)
(* changes the configuration.                                              *)
(***************************************************************************)
CONSTANTS Txns,   \* the requests
          Edits,  \* configurations the host itself may install
          Absent, \* no configuration file
          None    \* undecided

VARIABLES config,  \* the configuration a settled host has
          outcome  \* the decision on each request

vars == <<config, outcome>>

Init == /\ config \in Edits \union {Absent}
        /\ outcome = [t \in Txns |-> None]

Commit(t) == /\ outcome[t] = None
             /\ config' = t
             /\ outcome' = [outcome EXCEPT ![t] = "committed"]

RollBack(t) == /\ outcome[t] = None
               /\ config' = config
               /\ outcome' = [outcome EXCEPT ![t] = "rolledBack"]

HostEdit == /\ config' \in Edits
            /\ outcome' = outcome

Next == HostEdit \/ \E t \in Txns : Commit(t) \/ RollBack(t)

Spec == Init /\ [][Next]_vars
=============================================================================
