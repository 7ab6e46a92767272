------------------------ MODULE MCObserverTransition ------------------------
(***************************************************************************)
(* ObserverTransition for TLC: two observers, two aspects (the Xray        *)
(* configuration and service) and a host that may return to a state.       *)
(***************************************************************************)
EXTENDS ObserverTransition

CONSTANTS o1, o2

MCObservers == {o1, o2}
MCAspects   == <<"config", "service">>
\* Both aspects change, one changes, and the first state comes back.
MCContent   == << [config |-> 0, service |-> TRUE],
                  [config |-> 1, service |-> FALSE],
                  [config |-> 1, service |-> TRUE],
                  [config |-> 0, service |-> TRUE] >>
=============================================================================
