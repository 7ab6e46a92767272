---------------------------- MODULE RuntimeSlots ----------------------------
(***************************************************************************)
(* What the lifecycle of the native runtime promises, with every file      *)
(* operation hidden: two slots, the active runtime and the previous good   *)
(* one.  An activation keeps the active runtime as the previous good one,  *)
(* a rollback uses the previous good one up, and a file that no longer     *)
(* matches its record counts as no runtime.                                *)
(***************************************************************************)
CONSTANTS Versions, \* released versions
          None      \* an empty slot

VARIABLES cur,  \* the active runtime
          prev, \* the previous good one
          busy  \* an operation is in progress

vars == <<cur, prev, busy>>

Init == cur = None /\ prev = None /\ busy = FALSE

Begin == ~busy /\ busy' = TRUE /\ UNCHANGED <<cur, prev>>
End   == busy /\ busy' = FALSE /\ UNCHANGED <<cur, prev>>

Activate(v) == /\ busy /\ UNCHANGED busy
               /\ cur' = v
               /\ prev' = IF cur # None THEN cur ELSE prev

RollBack == /\ busy /\ UNCHANGED busy
            /\ prev # None
            /\ cur' = prev
            /\ prev' = None

Damage == /\ ~busy /\ UNCHANGED busy
          /\ \/ cur' = None /\ prev' = prev
             \/ cur' = cur /\ prev' = None

Next == Begin \/ End \/ RollBack \/ Damage \/ \E v \in Versions : Activate(v)

Spec == Init /\ [][Next]_vars
=============================================================================
