--------------------------- MODULE MCRouteIntent ---------------------------
(***************************************************************************)
(* RouteIntent for TLC: two managed rules, one rule of the user's, and an  *)
(* intent that may have both, a plain string, or a legacy entry.           *)
(***************************************************************************)
EXTENDS RouteIntent

CONSTANTS m1, m2, u, a, b, direct, block

MCIds == {m1, m2}
MCUsers == {u}
MCTexts == {a, b}
MCOuts == {direct, block}

Listed(t) == [text |-> t, list |-> TRUE]
Entry(i, t) == [id |-> i, legacy |-> FALSE, type |-> "domain",
                value |-> Listed(t), out |-> block]

MCIntents == {<<Entry(m1, b), Entry(m2, a)>>,
              <<[Entry(m1, a) EXCEPT !.value.list = FALSE]>>,
              <<Entry(m1, a), [Entry(m2, b) EXCEPT !.legacy = TRUE]>>}

UserRule == [tag |-> u, out |-> direct,
             sel |-> [domain |-> None, ip |-> Listed(a), inbound |-> None]]
MCStart == <<UserRule>>

\* The first rule as intended but for an inbound tag, and one of another type.
MCEdits ==
  {[tag |-> m1, out |-> block,
    sel |-> [domain |-> Listed(a), ip |-> None, inbound |-> Listed(b)]],
   [tag |-> m1, out |-> block,
    sel |-> [domain |-> None, ip |-> Listed(b), inbound |-> None]]}
=============================================================================
