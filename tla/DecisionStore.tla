--------------------------- MODULE DecisionStore ---------------------------
(***************************************************************************)
(* What the Runtime promises the users of its decision lifecycle, with the *)
(* write-ahead log, the audit log and the closed ledger hidden: every      *)
(* operation takes effect at once or not at all, a decision is answered at *)
(* most once, and the answer is never forgotten.                           *)
(***************************************************************************)
CONSTANTS Decisions, Payloads, Modes, None

VARIABLES open,    \* decisions registered and not answered yet
          answer,  \* the feedback accepted for each decision
          mode     \* the operating mode an operator has set

vars == <<open, answer, mode>>

Init == /\ open = {} /\ mode \in Modes
        /\ answer = [d \in Decisions |-> None]

Register(d) == /\ d \notin open /\ answer[d] = None
               /\ open' = open \union {d}
               /\ UNCHANGED <<answer, mode>>

Answer(d, p) == /\ d \in open /\ open' = open \ {d}
                /\ answer' = [answer EXCEPT ![d] = p]
                /\ UNCHANGED mode

SetMode(m) == mode' = m /\ UNCHANGED <<open, answer>>

Next == \/ \E d \in Decisions : Register(d) \/ \E p \in Payloads : Answer(d, p)
        \/ \E m \in Modes : SetMode(m)

Spec == Init /\ [][Next]_vars
=============================================================================
