------------------------ MODULE SocketServicesProofs ------------------------
(***************************************************************************)
(* The acceptance gate loses no slot, for any number of clients, slots and *)
(* faults.  Every step moves one connection of one service, a kill and a   *)
(* shutdown excepted; the lemmas say what a move does to the slots.        *)
(***************************************************************************)
EXTENDS SocketServices, FiniteSetTheorems, TLAPS

\* Until the Agent forwards a request the Runtime has no connection for it.
NotForwarded == {"backlog", "accepted", "admitted", "queued", "reading", "handling"}
Fresh == \A c \in Clients : at["agent"][c] \in NotForwarded => at["runtime"][c] = "none"

IInv == TypeOK /\ SlotsAreConserved /\ Fresh

-----------------------------------------------------------------------------

\* Connections that hold a slot are finitely many.
LEMMA HoldersFinite ==
  ASSUME NEW s \in Services
  PROVE  /\ IsFiniteSet(In(s, Held)) /\ Cardinality(In(s, Held)) \in Nat
         /\ IsFiniteSet(In(s, Held))' /\ Cardinality(In(s, Held))' \in Nat
<1>1. In(s, Held) \subseteq Clients /\ (In(s, Held) \subseteq Clients)'
  BY DEF In
<1>2. IsFiniteSet(In(s, Held)) /\ IsFiniteSet(In(s, Held))'
  BY <1>1, ServicesOK, FS_Subset
<1> QED
  BY <1>2, FS_CardinalityType

\* What the move of one connection does to the sets of holders.
LEMMA HoldersMoved ==
  ASSUME TypeOK, NEW s \in Services, NEW c \in Clients, NEW q \in Places,
         at' = [at EXCEPT ![s][c] = q]
  PROVE  /\ at' \in [Services -> [Clients -> Places]]
         /\ \A t \in Services \ {s} : In(t, Held)' = In(t, Held)
         /\ q \in Held => In(s, Held)' = In(s, Held) \union {c}
         /\ q \notin Held => In(s, Held)' = In(s, Held) \ {c}
<1>1. at \in [Services -> [Clients -> Places]]
  BY DEF TypeOK
<1>2. at' \in [Services -> [Clients -> Places]]
  BY <1>1
<1>3. \A t \in Services \ {s} : at'[t] = at[t]
  BY <1>1
<1>4. \A d \in Clients : at'[s][d] = IF d = c THEN q ELSE at[s][d]
  BY <1>1
<1> QED
  BY <1>2, <1>3, <1>4 DEF In

\* A move within the holders, or outside them, leaves the permits right.
LEMMA SlotKept ==
  ASSUME IInv, NEW s \in Services, NEW c \in Clients, NEW q \in Places,
         at' = [at EXCEPT ![s][c] = q], at[s][c] \in Held <=> q \in Held, free' = free
  PROVE  SlotsAreConserved'
<1>1. In(s, Held)' = In(s, Held)
  <2>1. c \in In(s, Held) <=> q \in Held
    BY DEF In
  <2>2. CASE q \in Held
    <3>1. In(s, Held)' = In(s, Held) \union {c}
      BY <2>2, HoldersMoved DEF IInv
    <3> QED
      BY <2>1, <2>2, <3>1
  <2>3. CASE q \notin Held
    <3>1. In(s, Held)' = In(s, Held) \ {c}
      BY <2>3, HoldersMoved DEF IInv
    <3> QED
      BY <2>1, <2>3, <3>1
  <2> QED
    BY <2>2, <2>3
<1>2. \A t \in Services : In(t, Held)' = In(t, Held)
  BY <1>1, HoldersMoved DEF IInv
<1> QED
  BY <1>2 DEF IInv, SlotsAreConserved

\* A connection that is admitted takes one permit.
LEMMA SlotTaken ==
  ASSUME IInv, NEW s \in Services, NEW c \in Clients, NEW q \in Places,
         at' = [at EXCEPT ![s][c] = q], at[s][c] \notin Held, q \in Held,
         free[s] > 0, free' = [free EXCEPT ![s] = @ - 1]
  PROVE  SlotsAreConserved' /\ free' \in [Services -> 0..Capacity]
<1>1. c \notin In(s, Held) /\ In(s, Held)' = In(s, Held) \union {c}
  BY HoldersMoved DEF IInv, In
<1>2. Cardinality(In(s, Held))' = Cardinality(In(s, Held)) + 1
  BY <1>1, HoldersFinite, FS_AddElement
<1>3. \A t \in Services \ {s} : In(t, Held)' = In(t, Held)
  BY HoldersMoved DEF IInv
<1>4. free \in [Services -> 0..Capacity]
  BY DEF IInv, TypeOK
<1>5. free'[s] + Cardinality(In(s, Held))' = Capacity
  BY <1>2, <1>4, HoldersFinite, ServicesOK DEF IInv, SlotsAreConserved
<1>6. \A t \in Services \ {s} : free'[t] + Cardinality(In(t, Held))' = Capacity
  BY <1>3, <1>4 DEF IInv, SlotsAreConserved
<1>7. free' \in [Services -> 0..Capacity]
  BY <1>4, ServicesOK
<1> QED
  BY <1>5, <1>6, <1>7 DEF SlotsAreConserved

\* A connection that leaves gives its permit back, and never one too many.
LEMMA SlotGiven ==
  ASSUME IInv, NEW s \in Services, NEW c \in Clients, NEW q \in Places,
         at' = [at EXCEPT ![s][c] = q], at[s][c] \in Held, q \notin Held,
         free' = [free EXCEPT ![s] = @ + 1]
  PROVE  SlotsAreConserved' /\ free' \in [Services -> 0..Capacity]
<1>1. c \in In(s, Held) /\ In(s, Held)' = In(s, Held) \ {c}
  BY HoldersMoved DEF IInv, In
<1>2. Cardinality(In(s, Held))' = Cardinality(In(s, Held)) - 1
  <2>1. IsFiniteSet(In(s, Held))
    BY HoldersFinite
  <2>2. Cardinality(In(s, Held) \ {c}) = Cardinality(In(s, Held)) - 1
    BY <1>1, <2>1, FS_RemoveElement
  <2> QED
    BY <1>1, <2>2
<1>3. \A t \in Services \ {s} : In(t, Held)' = In(t, Held)
  BY HoldersMoved DEF IInv
<1>4. free \in [Services -> 0..Capacity]
  BY DEF IInv, TypeOK
<1>5. free'[s] + Cardinality(In(s, Held))' = Capacity
  BY <1>2, <1>4, HoldersFinite, ServicesOK DEF IInv, SlotsAreConserved
<1>6. \A t \in Services \ {s} : free'[t] + Cardinality(In(t, Held))' = Capacity
  BY <1>3, <1>4 DEF IInv, SlotsAreConserved
<1>7. free'[s] \in 0..Capacity
  BY <1>4, <1>5, HoldersFinite, ServicesOK
<1>8. free' \in [Services -> 0..Capacity]
  BY <1>4, <1>7
<1> QED
  BY <1>5, <1>6, <1>8 DEF SlotsAreConserved

\* Forwarding moves only connections that the Agent has in hand.
LEMMA FreshKept ==
  ASSUME IInv, NEW s \in Services, NEW c \in Clients, NEW q \in Places,
         at' = [at EXCEPT ![s][c] = q],
         s = "agent" => \/ q \notin NotForwarded \/ at["agent"][c] \in NotForwarded
                        \/ at["runtime"][c] = "none",
         s = "runtime" => at["agent"][c] = "none" \/ at["runtime"][c] # "none"
  PROVE  Fresh'
<1>1. at \in [Services -> [Clients -> Places]]
  BY DEF IInv, TypeOK
<1>2. at'[s][c] = q
  BY <1>1
<1>3. \A t \in Services, d \in Clients : t # s \/ d # c => at'[t][d] = at[t][d]
  BY <1>1
<1>4. SUFFICES ASSUME NEW d \in Clients, at'["agent"][d] \in NotForwarded
               PROVE  at'["runtime"][d] = "none"
  BY DEF Fresh
<1>5. "agent" \in Services /\ "runtime" \in Services /\ "none" \notin NotForwarded
  BY DEF Services, NotForwarded
<1>6. CASE d # c
  BY <1>3, <1>4, <1>5, <1>6 DEF IInv, Fresh
<1>7. CASE d = c /\ s = "agent"
  BY <1>2, <1>3, <1>4, <1>5, <1>7 DEF IInv, Fresh
<1>8. CASE d = c /\ s = "runtime"
  BY <1>2, <1>3, <1>4, <1>5, <1>8 DEF IInv, Fresh
<1> QED
  BY <1>6, <1>7, <1>8 DEF Services

\* What a peer gets is an answer.
LEMMA GotType ==
  ASSUME TypeOK, NEW s \in Services, NEW c \in Clients, NEW a \in Answers \union {None}
  PROVE  Got(s, c, a) \in [Services -> [Clients -> Answers \union {None}]]
<1> QED
  BY DEF TypeOK, Got

\* One whose peer has gone gets it late.
LEMMA LateType ==
  ASSUME IInv, NEW s \in Services, NEW c \in Clients
  PROVE  Got(s, c, "late") \in [Services -> [Clients -> Answers \union {None}]]
<1>1. "late" \in Answers \union {None} /\ TypeOK
  BY DEF Answers, IInv
<1> QED
  BY <1>1, GotType

-----------------------------------------------------------------------------

\* The variables that are not about slots keep their types.
RestOK == /\ loop \in [Services -> {"serving", "draining", "down"}]
          /\ stop \in [Services -> BOOLEAN]
          /\ out \in [Services -> [Clients -> Answers \union {None}]]
          /\ answer \in [Services -> [Clients -> Answers \union {None}]]
          /\ applied \in [Clients -> BOOLEAN] /\ faults \in 0..MaxFaults

\* A step that moves one connection and no slot.
LEMMA MoveKeeps ==
  ASSUME IInv, NEW s \in Services, NEW c \in Clients, NEW q \in Places,
         at' = [at EXCEPT ![s][c] = q], at[s][c] \in Held <=> q \in Held, free' = free, RestOK',
         s = "agent" => \/ q \notin NotForwarded \/ at["agent"][c] \in NotForwarded
                        \/ at["runtime"][c] = "none",
         s = "runtime" => at["agent"][c] = "none" \/ at["runtime"][c] # "none"
  PROVE  IInv'
<1>1. Fresh'
  BY FreshKept
<1>2. SlotsAreConserved'
  BY SlotKept
<1>3. at' \in [Services -> [Clients -> Places]]
  BY HoldersMoved DEF IInv
<1> QED
  BY <1>1, <1>2, <1>3 DEF IInv, TypeOK, RestOK

\* A step that takes a connection away and gives its slot back.
LEMMA MoveGives ==
  ASSUME IInv, NEW s \in Services, NEW c \in Clients, NEW q \in Places,
         at' = [at EXCEPT ![s][c] = q], at[s][c] \in Held, q \notin Held,
         free' = [free EXCEPT ![s] = @ + 1], RestOK', q \notin NotForwarded
  PROVE  IInv'
<1>1. at[s][c] # "none"
  BY DEF Held, Working
<1>2. Fresh'
  BY <1>1, FreshKept
<1>3. SlotsAreConserved' /\ free' \in [Services -> 0..Capacity]
  BY SlotGiven
<1>4. at' \in [Services -> [Clients -> Places]]
  BY HoldersMoved DEF IInv
<1> QED
  BY <1>2, <1>3, <1>4 DEF IInv, TypeOK, RestOK

-----------------------------------------------------------------------------

\* A connection in the backlog holds no slot.
LEMMA ConnectSafe ==
  ASSUME IInv, NEW s \in Services, NEW c \in Clients, Connect(s, c)
  PROVE  IInv'
<1>1. at' = [at EXCEPT ![s][c] = "backlog"]
  BY DEF Connect, Move
<1>2. RestOK'
  BY GotType, ServicesOK DEF Connect, IInv, TypeOK, RestOK, life, Answers
<1> QED
  BY <1>1, <1>2, MoveKeeps DEF Connect, Services, Places, Held, Working, Hand, NotForwarded

\* Nor does one that was only accepted.
LEMMA AcceptSafe ==
  ASSUME IInv, NEW s \in Services, NEW c \in Clients, Accept(s, c)
  PROVE  IInv'
<1>1. at' = [at EXCEPT ![s][c] = "accepted"]
  BY DEF Accept, Move
<1>2. RestOK'
  BY GotType, ServicesOK DEF Accept, IInv, TypeOK, RestOK, life, Answers
<1> QED
  BY <1>1, <1>2, MoveKeeps DEF Accept, Places, Held, Working, Hand, NotForwarded

\* Submitting keeps the slot.
LEMMA SubmitSafe ==
  ASSUME IInv, NEW s \in Services, NEW c \in Clients, Submit(s, c)
  PROVE  IInv'
<1>1. at' = [at EXCEPT ![s][c] = "queued"]
  BY DEF Submit, Move
<1>2. RestOK'
  BY GotType, ServicesOK DEF Submit, IInv, TypeOK, RestOK, life, Answers
<1> QED
  BY <1>1, <1>2, MoveKeeps DEF Submit, Places, Held, Working, Hand, NotForwarded

\* The loop gives the slot of a failed submission back.
LEMMA SubmitFailsSafe ==
  ASSUME IInv, NEW s \in Services, NEW c \in Clients, SubmitFails(s, c)
  PROVE  IInv'
<1>1. at' = [at EXCEPT ![s][c] = "closed"]
  BY DEF SubmitFails, Move
<1>2. RestOK'
  BY GotType, ServicesOK DEF SubmitFails, IInv, TypeOK, RestOK, life, Answers, Fault
<1> QED
  BY <1>1, <1>2, MoveGives DEF SubmitFails, Places, Held, Working, Hand, NotForwarded

\* The slot passes from the pool to a worker.
LEMMA TakeSafe ==
  ASSUME IInv, NEW s \in Services, NEW c \in Clients, Take(s, c)
  PROVE  IInv'
<1>1. at' = [at EXCEPT ![s][c] = "reading"]
  BY DEF Take, Move
<1>2. RestOK'
  BY GotType, ServicesOK DEF Take, IInv, TypeOK, RestOK, life, Answers
<1> QED
  BY <1>1, <1>2, MoveKeeps DEF Take, Places, Held, Working, Hand, NotForwarded

\* Reading a request keeps the slot.
LEMMA RequestSafe ==
  ASSUME IInv, NEW s \in Services, NEW c \in Clients, Request(s, c)
  PROVE  IInv'
<1>1. at' = [at EXCEPT ![s][c] = "handling"]
  BY DEF Request, Move
<1>2. RestOK'
  BY GotType, ServicesOK DEF Request, IInv, TypeOK, RestOK, life, Answers
<1> QED
  BY <1>1, <1>2, MoveKeeps DEF Request, Places, Held, Working, Hand, NotForwarded

\* So does failing to.
LEMMA ReadFailsSafe ==
  ASSUME IInv, NEW s \in Services, NEW c \in Clients, ReadFails(s, c)
  PROVE  IInv'
<1>1. at' = [at EXCEPT ![s][c] = "leaving"]
  BY DEF ReadFails, Fail, Move
<1>2. RestOK'
  BY GotType, ServicesOK DEF ReadFails, IInv, TypeOK, RestOK, life, Answers, Fail, Move
<1> QED
  BY <1>1, <1>2, MoveKeeps DEF ReadFails, Places, Held, Working, Hand, NotForwarded, Fail, Move

\* client's inner finally clause gives the slot back, once.
LEMMA ReleaseSafe ==
  ASSUME IInv, NEW s \in Services, NEW c \in Clients, Release(s, c)
  PROVE  IInv'
<1>1. at' = [at EXCEPT ![s][c] = "released"]
  BY DEF Release, Move
<1>2. RestOK'
  BY GotType, ServicesOK DEF Release, IInv, TypeOK, RestOK, life, Answers
<1> QED
  BY <1>1, <1>2, MoveGives DEF Release, Places, Held, Working, Hand, NotForwarded


\* The gate takes a permit, or the connection is refused and closed.
LEMMA AcquireSafe ==
  ASSUME IInv, NEW s \in Services, NEW c \in Clients, Acquire(s, c)
  PROVE  IInv'
<1>1. RestOK'
  <2>1. answer' = answer \/ answer' = Got(s, c, "busy")
    BY DEF Acquire
  <2>2. answer' \in [Services -> [Clients -> Answers \union {None}]]
    BY <2>1, GotType DEF IInv, TypeOK, Answers
  <2> QED
    BY <2>2 DEF Acquire, IInv, TypeOK, RestOK, life
<1>2. at[s][c] = "accepted" /\ free \in [Services -> 0..Capacity]
  BY DEF Acquire, IInv, TypeOK
<1>3. CASE /\ free[s] > 0 /\ free' = [free EXCEPT ![s] = @ - 1]
           /\ at' = [at EXCEPT ![s][c] = "admitted"]
  <2>1. at[s][c] \notin Held /\ "admitted" \in Held /\ "admitted" \in Places
    BY <1>2 DEF Places, Held, Working, Hand
  <2>2. SlotsAreConserved' /\ free' \in [Services -> 0..Capacity]
    BY <1>3, <2>1, SlotTaken
  <2>3. Fresh'
    BY <1>2, <1>3, <2>1, FreshKept DEF NotForwarded
  <2>4. at' \in [Services -> [Clients -> Places]]
    BY <1>3, <2>1, HoldersMoved DEF IInv
  <2> QED
    BY <1>1, <2>2, <2>3, <2>4 DEF IInv, TypeOK, RestOK
<1>4. CASE free' = free /\ at' = [at EXCEPT ![s][c] = "closed"]
  BY <1>1, <1>2, <1>4, MoveKeeps DEF Places, Held, Working, Hand, NotForwarded
<1> QED
  BY <1>3, <1>4 DEF Acquire, Move

\* Closing comes after the slot was given back.
LEMMA CloseSafe ==
  ASSUME IInv, NEW s \in Services, NEW c \in Clients, Close(s, c)
  PROVE  IInv'
<1>1. at' = [at EXCEPT ![s][c] = "closed"]
  BY DEF Close, Move
<1>2. out[s][c] \in Answers \union {None}
  BY DEF IInv, TypeOK
<1>3. RestOK'
  BY <1>2, GotType, ServicesOK DEF Close, IInv, TypeOK, RestOK, life
<1> QED
  BY <1>1, <1>3, MoveKeeps DEF Close, Places, Held, Working, Hand, NotForwarded

\* Sending an answer keeps the slot, whether the peer is there or not.
LEMMA SendSafe ==
  ASSUME IInv, NEW s \in Services, NEW c \in Clients, Send(s, c)
  PROVE  IInv'
<1>1. at' = [at EXCEPT ![s][c] = "leaving"]
  BY DEF Send, Move, Fail
<1>2. out[s][c] \in Answers \union {None}
  BY DEF IInv, TypeOK
<1>3. RestOK'
  <2>1. answer' \in [Services -> [Clients -> Answers \union {None}]]
    BY <1>2, GotType DEF Send, IInv
  <2>2. out' = out \/ out' = [out EXCEPT ![s][c] = "error"]
    BY DEF Send, Fail
  <2>3. out' \in [Services -> [Clients -> Answers \union {None}]]
    <3>1. "error" \in Answers /\ out \in [Services -> [Clients -> Answers \union {None}]]
      BY DEF Answers, IInv, TypeOK
    <3>2. CASE out' = [out EXCEPT ![s][c] = "error"]
      BY <3>1, <3>2
    <3> QED
      BY <2>2, <3>1, <3>2
  <2> QED
    BY <2>1, <2>3 DEF Send, IInv, TypeOK, RestOK, life
<1> QED
  BY <1>1, <1>3, MoveKeeps DEF Send, Places, Held, Working, Hand, NotForwarded

\* Handling a request keeps the slot, on the path where the access log fails too.
LEMMA HandleSafe ==
  ASSUME IInv, NEW c \in Clients, Handle(c)
  PROVE  IInv'
<1>1. "runtime" \in Services
  BY DEF Services
<1>2. RestOK'
  <2>1. PICK result \in Answers, effect \in BOOLEAN :
          /\ applied' = [applied EXCEPT ![c] = effect]
          /\ out' = [out EXCEPT !["runtime"][c] = result]
    BY DEF Handle, Reply, Fail, Answers
  <2>2. applied' \in [Clients -> BOOLEAN]
    BY <2>1, Zenon DEF IInv, TypeOK
  <2>3. out' \in [Services -> [Clients -> Answers \union {None}]]
    BY <1>1, <2>1 DEF IInv, TypeOK
  <2> QED
    BY <2>2, <2>3 DEF Handle, IInv, TypeOK, RestOK, life
<1>3. CASE at' = [at EXCEPT !["runtime"][c] = "replying"]
  BY <1>1, <1>2, <1>3, MoveKeeps DEF Handle, Places, Held, Working, Hand, NotForwarded
<1>4. CASE at' = [at EXCEPT !["runtime"][c] = "leaving"]
  BY <1>1, <1>2, <1>4, MoveKeeps DEF Handle, Places, Held, Working, Hand, NotForwarded
<1> QED
  BY <1>3, <1>4 DEF Handle, Reply, Fail, Move

\* An answer of the Agent, its own or the Runtime's, is sent with the slot held.
LEMMA ReplySafe ==
  ASSUME IInv, NEW c \in Clients, Refuse(c) \/ Forward(c) \/ ProxyTimeout(c)
  PROVE  IInv'
<1>1. "agent" \in Services /\ "runtime" \in Services
  BY DEF Services
<1>2. /\ at' = [at EXCEPT !["agent"][c] = "replying"]
      /\ at["agent"][c] \in {"handling", "waiting"} /\ free' = free
  BY DEF Refuse, Forward, ProxyTimeout, Reply, Move
<1>3. RestOK'
  <2>1. answer["runtime"][c] \in Answers \union {None}
    BY <1>1 DEF IInv, TypeOK
  <2>2. PICK a \in Answers : out' = [out EXCEPT !["agent"][c] = a]
    BY <2>1 DEF Refuse, Forward, ProxyTimeout, Reply, Answers
  <2>3. out' \in [Services -> [Clients -> Answers \union {None}]]
    BY <1>1, <2>2 DEF IInv, TypeOK
  <2>4. answer' = answer \/ answer' = Got("runtime", c, "late")
    BY DEF Refuse, Forward, ProxyTimeout
  <2>5. answer' \in [Services -> [Clients -> Answers \union {None}]]
    BY <1>1, <2>4, LateType DEF IInv, TypeOK
  <2> QED
    BY <2>3, <2>5 DEF Refuse, Forward, ProxyTimeout, IInv, TypeOK, RestOK, life
<1> QED
  BY <1>1, <1>2, <1>3, MoveKeeps DEF Places, Held, Working, Hand, NotForwarded


\* Forwarding moves the Agent's connection and makes one of the Runtime's, which
\* no gate has seen yet.
LEMMA ProxySafe ==
  ASSUME IInv, NEW c \in Clients, Proxy(c)
  PROVE  IInv'
<1>1. "agent" \in Services /\ "runtime" \in Services /\ at["agent"][c] = "handling"
  BY DEF Services, Proxy
<1>2. CASE /\ at' = [at EXCEPT !["agent"][c] = "waiting", !["runtime"][c] = "backlog"]
           /\ out' = out
  <2>1. at \in [Services -> [Clients -> Places]] /\ at["runtime"][c] = "none"
    BY <1>1 DEF IInv, TypeOK, Fresh, NotForwarded
  <2>2. "waiting" \in Places /\ "backlog" \in Places
    BY DEF Places, Working
  <2>3. at' \in [Services -> [Clients -> Places]]
    BY <1>2, <2>1, <2>2
  <2>4. at'["agent"][c] = "waiting" /\ at'["runtime"][c] = "backlog"
    BY <1>1, <1>2, <2>1
  <2>5. \A t \in Services, d \in Clients : d # c => at'[t][d] = at[t][d]
    BY <1>2, <2>1
  <2>6. Fresh'
    BY <2>4, <2>5, <1>1 DEF IInv, Fresh, NotForwarded
  <2>7. \A t \in Services : at'[t][c] \in Held <=> at[t][c] \in Held
    BY <1>1, <2>1, <2>4 DEF Services, Held, Working
  <2>8. \A t \in Services : In(t, Held)' = In(t, Held)
    BY <2>5, <2>7 DEF In
  <2>9. free' = free
    BY DEF Proxy
  <2>10. SlotsAreConserved'
    BY <2>8, <2>9 DEF IInv, SlotsAreConserved
  <2> QED
    BY <1>2, <2>3, <2>6, <2>9, <2>10 DEF Proxy, IInv, TypeOK, life
<1>3. CASE Reply("agent", c, "unavailable")
  <2>1. at' = [at EXCEPT !["agent"][c] = "replying"]
    BY <1>3 DEF Reply, Move
  <2>2. RestOK'
    BY <1>1, <1>3 DEF Reply, Proxy, IInv, TypeOK, RestOK, life, Answers
  <2> QED
    BY <1>1, <2>1, <2>2, MoveKeeps DEF Proxy, Places, Held, Working, Hand, NotForwarded
<1> QED
  BY <1>2, <1>3 DEF Proxy

\* Steps that move no connection.
LEMMA StillSafe ==
  ASSUME IInv, RestOK', UNCHANGED <<free, at>>
  PROVE  IInv'
<1>1. \A t \in Services : In(t, Held)' = In(t, Held)
  BY DEF In
<1>2. SlotsAreConserved'
  BY <1>1 DEF IInv, SlotsAreConserved
<1> QED
  BY <1>2 DEF IInv, TypeOK, RestOK, Fresh

\* A hang-up, a stop, the end of a drained loop and a start.
LEMMA IdleSafe ==
  ASSUME IInv, NEW s \in Services,
         \/ \E c \in Clients : HangUp(s, c)
         \/ Stop(s) \/ Drained(s) \/ Start(s)
  PROVE  IInv'
<1>1. CASE \E c \in Clients : HangUp(s, c)
  <2>1. PICK c \in Clients : HangUp(s, c)
    BY <1>1
  <2>2. answer' \in [Services -> [Clients -> Answers \union {None}]]
    BY <2>1, LateType DEF HangUp
  <2>3. faults' \in 0..MaxFaults /\ UNCHANGED <<loop, stop, out, applied>>
    BY <2>1, ServicesOK DEF HangUp, Fault, IInv, TypeOK
  <2>4. RestOK'
    BY <2>2, <2>3 DEF IInv, TypeOK, RestOK
  <2> QED
    BY <2>1, <2>4, StillSafe DEF HangUp
<1>2. CASE Stop(s)
  <2>1. RestOK'
    BY <1>2, ServicesOK DEF Stop, Fault, IInv, TypeOK, RestOK
  <2> QED
    BY <1>2, <2>1, StillSafe DEF Stop
<1>3. CASE Drained(s)
  <2>1. RestOK'
    BY <1>3 DEF Drained, IInv, TypeOK, RestOK
  <2> QED
    BY <1>3, <2>1, StillSafe DEF Drained
<1>4. CASE Start(s)
  <2>1. RestOK'
    BY <1>4 DEF Start, IInv, TypeOK, RestOK
  <2> QED
    BY <1>4, <2>1, StillSafe DEF Start
<1> QED
  BY <1>1, <1>2, <1>3, <1>4

\* Closing many connections of one service at once.
LEMMA ClosingMoves ==
  ASSUME IInv, NEW s \in Services, NEW P \in SUBSET Places, "none" \notin P, Closing(s, P)
  PROVE  /\ at' \in [Services -> [Clients -> Places]]
         /\ answer' \in [Services -> [Clients -> Answers \union {None}]]
         /\ \A t \in Services \ {s}, d \in Clients : at'[t][d] = at[t][d]
         /\ \A d \in Clients : at'[s][d] = IF at[s][d] \in P THEN "closed" ELSE at[s][d]
         /\ Fresh'
<1>1. /\ at \in [Services -> [Clients -> Places]]
      /\ answer \in [Services -> [Clients -> Answers \union {None}]]
  BY DEF IInv, TypeOK
<1>2. "closed" \in Places /\ "eof" \in Answers
  BY DEF Places, Answers
<1>3. at' = [at EXCEPT ![s] = [c \in Clients |-> IF at[s][c] \in P THEN "closed" ELSE at[s][c]]]
  BY DEF Closing
<1>4. answer' = [answer EXCEPT ![s] = [c \in Clients |->
                  IF at[s][c] \in P /\ answer[s][c] = None THEN "eof" ELSE answer[s][c]]]
  BY DEF Closing
<1>5. at' \in [Services -> [Clients -> Places]]
  BY <1>1, <1>2, <1>3
<1>6. answer' \in [Services -> [Clients -> Answers \union {None}]]
  BY <1>1, <1>2, <1>4
<1>7. \A t \in Services \ {s}, d \in Clients : at'[t][d] = at[t][d]
  BY <1>1, <1>3
<1>8. \A d \in Clients : at'[s][d] = IF at[s][d] \in P THEN "closed" ELSE at[s][d]
  BY <1>1, <1>3
<1>9. Fresh'
  BY <1>7, <1>8 DEF IInv, Fresh, NotForwarded, Services
<1> QED
  BY <1>5, <1>6, <1>7, <1>8, <1>9


\* The loop ends: what waits in the backlog has no slot.
LEMMA LeaveSafe ==
  ASSUME IInv, NEW s \in Services, Shut(s) \/ AcceptFails(s)
  PROVE  IInv'
<1>1. Closing(s, {"backlog"}) /\ UNCHANGED <<stop, free, out, applied>>
  BY DEF Shut, AcceptFails, Leave
<1>2. {"backlog"} \in SUBSET Places /\ "none" \notin {"backlog"}
  BY DEF Places
<1>3. \A t \in Services : In(t, Held)' = In(t, Held)
  <2>1. \A t \in Services, d \in Clients : at'[t][d] \in Held <=> at[t][d] \in Held
    BY <1>1, <1>2, ClosingMoves DEF Held, Working
  <2> QED
    BY <2>1 DEF In
<1>4. SlotsAreConserved'
  BY <1>1, <1>3 DEF IInv, SlotsAreConserved
<1>5. loop' \in [Services -> {"serving", "draining", "down"}]
  BY DEF Shut, AcceptFails, Leave, IInv, TypeOK
<1>6. faults' \in 0..MaxFaults
  <2>1. CASE faults' = faults
    BY <2>1 DEF IInv, TypeOK
  <2>2. CASE Fault
    BY <2>2, ServicesOK DEF Fault, IInv, TypeOK
  <2> QED
    BY <2>1, <2>2 DEF Shut, AcceptFails
<1> QED
  BY <1>1, <1>2, <1>4, <1>5, <1>6, ClosingMoves DEF IInv, TypeOK

\* A killed service starts again with a gate of its own, and nothing is held.
LEMMA KillSafe ==
  ASSUME IInv, NEW s \in Services, Kill(s)
  PROVE  IInv'
<1> DEFINE P == Places \ {"none", "closed"}
<1>1. Closing(s, P) /\ UNCHANGED <<stop, applied>>
  BY DEF Kill
<1>2. P \in SUBSET Places /\ "none" \notin P
  OBVIOUS
<1>3. /\ at' \in [Services -> [Clients -> Places]]
      /\ answer' \in [Services -> [Clients -> Answers \union {None}]]
      /\ \A t \in Services \ {s}, d \in Clients : at'[t][d] = at[t][d]
      /\ \A d \in Clients : at'[s][d] = IF at[s][d] \in P THEN "closed" ELSE at[s][d]
      /\ Fresh'
  BY <1>1, <1>2, ClosingMoves
<1>4. In(s, Held)' = {}
  <2>1. \A d \in Clients : at'[s][d] \in {"none", "closed"}
    BY <1>3 DEF IInv, TypeOK
  <2> QED
    BY <2>1 DEF In, Held, Working
<1>5. \A t \in Services \ {s} : In(t, Held)' = In(t, Held)
  BY <1>3 DEF In
<1>6. free' = [free EXCEPT ![s] = Capacity] /\ free \in [Services -> 0..Capacity]
  BY DEF Kill, IInv, TypeOK
<1>7. Cardinality(In(s, Held))' = 0
  BY <1>4, FS_EmptySet
<1>8. SlotsAreConserved'
  <2>1. free'[s] + Cardinality(In(s, Held))' = Capacity
    BY <1>6, <1>7, ServicesOK
  <2>2. \A t \in Services \ {s} : free'[t] + Cardinality(In(t, Held))' = Capacity
    BY <1>5, <1>6 DEF IInv, SlotsAreConserved
  <2> QED
    BY <2>1, <2>2 DEF SlotsAreConserved
<1>9. /\ loop' \in [Services -> {"serving", "draining", "down"}]
      /\ free' \in [Services -> 0..Capacity] /\ faults' \in 0..MaxFaults
  BY <1>6, ServicesOK DEF Kill, Fault, IInv, TypeOK
<1>10. out' \in [Services -> [Clients -> Answers \union {None}]]
  BY DEF Kill, IInv, TypeOK
<1> QED
  BY <1>1, <1>3, <1>8, <1>9, <1>10 DEF IInv, TypeOK

-----------------------------------------------------------------------------

\* At first every permit is free and no connection is anywhere.
LEMMA InitSafe == Init => IInv
<1> SUFFICES ASSUME Init PROVE IInv
  OBVIOUS
<1>1. TypeOK
  BY ServicesOK DEF Init, TypeOK, Everywhere, Places
<1>2. \A s \in Services : In(s, Held) = {}
  BY DEF Init, Everywhere, In, Held, Working
<1>3. SlotsAreConserved
  BY <1>2, FS_EmptySet, ServicesOK DEF Init, SlotsAreConserved
<1>4. Fresh
  BY DEF Init, Everywhere, Fresh, Services
<1> QED
  BY <1>1, <1>3, <1>4 DEF IInv

\* No step of a service, a client or the host breaks the invariant.
LEMMA NextSafe == IInv /\ [Next]_vars => IInv'
<1> SUFFICES ASSUME IInv, [Next]_vars PROVE IInv'
  OBVIOUS
<1>1. CASE \E s \in Services : LoopStep(s)
  BY <1>1, AcceptSafe, AcquireSafe, SubmitSafe, LeaveSafe, IdleSafe DEF LoopStep
<1>2. CASE \E s \in Services : Environment(s)
  BY <1>2, ConnectSafe, RequestSafe, SubmitFailsSafe, LeaveSafe, KillSafe, IdleSafe DEF Environment
<1>3. CASE \E s \in Services, c \in Clients : WorkerStep(s, c)
  BY <1>3, TakeSafe, ReadFailsSafe, SendSafe, ReleaseSafe, CloseSafe, HandleSafe, ReplySafe, ProxySafe
  DEF WorkerStep
<1>4. CASE UNCHANGED vars
  <2>1. RestOK' /\ UNCHANGED <<free, at>>
    BY <1>4 DEF vars, IInv, TypeOK, RestOK
  <2> QED
    BY <2>1, StillSafe
<1> QED
  BY <1>1, <1>2, <1>3, <1>4 DEF Next

\* The invariant holds for every number of clients, slots and faults.
LEMMA AlwaysIInv == Spec => []IInv
BY InitSafe, NextSafe, PTL DEF Spec

\* Types are kept, and a semaphore is never released beyond its capacity, which
\* in client's finally clause would lose the answer (BoundedQueue.release).
THEOREM ServicesTypeCorrect == Spec => []TypeOK
<1>1. IInv => TypeOK
  BY DEF IInv
<1> QED
  BY <1>1, AlwaysIInv, PTL

\* No slot of the gate leaks and none is given twice, on any path that a
\* connection takes through serve and client (BoundedQueue).
THEOREM NoSlotLeaks == Spec => []SlotsAreConserved
<1>1. IInv => SlotsAreConserved
  BY DEF IInv
<1> QED
  BY <1>1, AlwaysIInv, PTL

-----------------------------------------------------------------------------
(* What the peers are told *)

\* Answers that claim to know what became of the request.
Verdicts == {"ok", "busy", "forbidden"}

\* An answer that was given, or is about to be, by either service.
Says(c, a) == \E s \in Services : answer[s][c] = a \/ out[s][c] = a

\* Requests the Runtime has not handled; those nobody has judged; and those that
\* reached the Runtime through the Agent.
Unhandled(c) == at["runtime"][c] \in NotForwarded \union {"none"}
Pending(c) == \/ at["runtime"][c] \in NotForwarded
              \/ at["runtime"][c] = "none" /\ at["agent"][c] \in NotForwarded \union {"none"}
Forwarded(c) == at["agent"][c] # "none" /\ at["runtime"][c] # "none"

\* A verdict is true wherever it stands, and none is given before its time; the
\* Agent forwards only what its peer may ask for.
ClientInv(c) ==
  /\ Says(c, "ok") => applied[c]
  /\ Says(c, "busy") \/ Says(c, "forbidden") => ~applied[c]
  /\ Pending(c) => \A a \in Verdicts : ~Says(c, a)
  /\ Unhandled(c) => ~applied[c]
  /\ Forwarded(c) => MethodAllowed(c, Uid[c])
  /\ applied[c] => Permitted(c)

AnswerInv == \A c \in Clients : ClientInv(c)

\* Who cannot be told from the kernel is on no allow list (AccessControl).
LEMMA NobodyIsAuthorised ==
  ASSUME NEW c \in Clients
  PROVE  /\ ~Authorised(None) /\ ~MethodAllowed(c, None)
BY ServicesOK DEF Authorised, AllowedUids, MethodAllowed

\* A step that gives no verdict, copies at most one that was given, and handles
\* nothing leaves what is said of a request true.
LEMMA Quiet ==
  ASSUME NEW d \in Clients, ClientInv(d), applied'[d] = applied[d],
         \A a \in Verdicts : Says(d, a)' => Says(d, a),
         Pending(d)' => Pending(d), Unhandled(d)' => Unhandled(d),
         Forwarded(d)' => Forwarded(d),
         applied[d] => (at'["agent"][d] = "none" <=> at["agent"][d] = "none")
  PROVE  ClientInv(d)'
<1>1. /\ Says(d, "ok")' => Says(d, "ok")
      /\ Says(d, "busy")' => Says(d, "busy")
      /\ Says(d, "forbidden")' => Says(d, "forbidden")
  BY DEF Verdicts
<1>2. (Pending(d) => \A a \in Verdicts : ~Says(d, a))'
  BY DEF ClientInv
<1>3. (applied[d] => Permitted(d))'
  BY DEF ClientInv, Permitted, AllowedUids
<1>4. (Forwarded(d) => MethodAllowed(d, Uid[d]))'
  BY DEF ClientInv, Authorised, AllowedUids, MethodAllowed
<1>5. (Unhandled(d) => ~applied[d])'
  BY DEF ClientInv
<1>6. /\ (Says(d, "ok") => applied[d])'
      /\ (Says(d, "busy") \/ Says(d, "forbidden") => ~applied[d])'
  BY <1>1 DEF ClientInv
<1> QED
  BY <1>2, <1>3, <1>4, <1>5, <1>6 DEF ClientInv

\* A connection that no step touches.
LEMMA Untouched ==
  ASSUME NEW d \in Clients, ClientInv(d), applied'[d] = applied[d],
         \A t \in Services : /\ at'[t][d] = at[t][d]
                            /\ out'[t][d] = out[t][d]
                            /\ answer'[t][d] = answer[t][d]
  PROVE  ClientInv(d)'
<1>1. "agent" \in Services /\ "runtime" \in Services
  BY DEF Services
<1>2. \A a \in Verdicts : Says(d, a)' => Says(d, a)
  BY DEF Says
<1>3. /\ Pending(d)' => Pending(d)
      /\ Unhandled(d)' => Unhandled(d)
      /\ Forwarded(d)' => Forwarded(d)
  BY <1>1 DEF Pending, Unhandled, Forwarded
<1> QED
  BY <1>1, <1>2, <1>3, Quiet

\* The move of one connection, pointwise.
LEMMA Moved ==
  ASSUME TypeOK, NEW s \in Services, NEW c \in Clients, NEW q, at' = [at EXCEPT ![s][c] = q]
  PROVE  /\ at'[s][c] = q
         /\ \A t \in Services, d \in Clients : t # s \/ d # c => at'[t][d] = at[t][d]
BY DEF TypeOK

\* An answer reaches one connection, and only if none has before.
LEMMA GotAt ==
  ASSUME TypeOK, NEW s \in Services, NEW c \in Clients, NEW a
  PROVE  /\ Got(s, c, a)[s][c] = IF answer[s][c] = None THEN a ELSE answer[s][c]
         /\ \A t \in Services, d \in Clients : t # s \/ d # c => Got(s, c, a)[t][d] = answer[t][d]
BY DEF TypeOK, Got

\* The same of what a worker is about to send.
LEMMA OutAt ==
  ASSUME TypeOK, NEW s \in Services, NEW c \in Clients, NEW b,
         out' = out \/ out' = [out EXCEPT ![s][c] = b]
  PROVE  /\ out'[s][c] \in {out[s][c], b}
         /\ out' = [out EXCEPT ![s][c] = b] => out'[s][c] = b
         /\ \A t \in Services, d \in Clients : t # s \/ d # c => out'[t][d] = out[t][d]
<1>1. CASE out' = out
  BY <1>1 DEF TypeOK
<1>2. CASE out' = [out EXCEPT ![s][c] = b]
  BY <1>2 DEF TypeOK
<1> QED
  BY <1>1, <1>2

\* A step about one request that adds no verdict.
LEMMA QuietStep ==
  ASSUME AnswerInv, NEW c \in Clients, applied' = applied,
         \A t \in Services, d \in Clients :
           d # c => /\ at'[t][d] = at[t][d]
                    /\ out'[t][d] = out[t][d]
                    /\ answer'[t][d] = answer[t][d],
         \A a \in Verdicts : Says(c, a)' => Says(c, a),
         Pending(c)' => Pending(c), Unhandled(c)' => Unhandled(c), Forwarded(c)' => Forwarded(c),
         ~Unhandled(c) => (at'["agent"][c] = "none" <=> at["agent"][c] = "none")
  PROVE  AnswerInv'
<1>1. ASSUME NEW d \in Clients PROVE ClientInv(d)'
  <2>1. CASE d # c
    BY <1>1, <2>1, Untouched DEF AnswerInv
  <2>2. CASE d = c
    <3>1. applied[d] => (at'["agent"][d] = "none" <=> at["agent"][d] = "none")
      BY <2>2 DEF AnswerInv, ClientInv
    <3> QED
      BY <2>2, <3>1, Quiet DEF AnswerInv
  <2> QED
    BY <2>1, <2>2
<1> QED
  BY <1>1 DEF AnswerInv

\* What is said stays said while nobody speaks.
LEMMA Unsaid ==
  ASSUME NEW c \in Clients, UNCHANGED <<out, answer>>
  PROVE  \A a \in Verdicts : Says(c, a)' => Says(c, a)
BY DEF Says

\* Connections that move on without a word.
LEMMA MovesAreQuiet ==
  ASSUME IInv, AnswerInv, NEW s \in Services, NEW c \in Clients,
         \/ Connect(s, c) \/ Accept(s, c) \/ Submit(s, c) \/ Take(s, c)
         \/ Request(s, c) \/ Release(s, c)
  PROVE  AnswerInv'
<1>1. UNCHANGED <<out, answer, applied>>
  BY DEF Connect, Accept, Submit, Take, Request, Release
<1>2. PICK q \in Places :
        /\ at' = [at EXCEPT ![s][c] = q]
        /\ \/ at[s][c] \in NotForwarded /\ q \in NotForwarded
           \/ at[s][c] = "leaving" /\ q = "released"
           \/ at["agent"][c] = "none" /\ at["runtime"][c] = "none" /\ q = "backlog"
  BY DEF Connect, Accept, Submit, Take, Request, Release, Move, NotForwarded, Services, Places,
         Hand, Working
<1>3. /\ at'[s][c] = q
      /\ \A t \in Services, d \in Clients : t # s \/ d # c => at'[t][d] = at[t][d]
  BY <1>2, Moved DEF IInv
<1>4. "agent" \in Services /\ "runtime" \in Services /\ "agent" # "runtime"
  BY DEF Services
<1>5. s = "agent" \/ s = "runtime"
  BY DEF Services
<1>6. /\ Pending(c)' => Pending(c)
      /\ Unhandled(c)' => Unhandled(c)
      /\ Forwarded(c)' => Forwarded(c)
      /\ ~Unhandled(c) => (at'["agent"][c] = "none" <=> at["agent"][c] = "none")
  BY <1>2, <1>3, <1>4, <1>5 DEF Pending, Unhandled, Forwarded, NotForwarded
<1> QED
  BY <1>1, <1>3, <1>6, Unsaid, QuietStep

\* A verdict is sent as it was decided, or not at all.
LEMMA SendIsQuiet ==
  ASSUME IInv, AnswerInv, NEW s \in Services, NEW c \in Clients, Send(s, c) \/ Close(s, c)
  PROVE  AnswerInv'
<1>1. PICK q \in {"leaving", "closed"}, b \in {out[s][c], "error", None} :
        /\ at' = [at EXCEPT ![s][c] = q] /\ at[s][c] \in {"replying", "released"}
        /\ answer' = Got(s, c, out[s][c]) /\ applied' = applied
        /\ out' = out \/ out' = [out EXCEPT ![s][c] = b]
  BY DEF Send, Close, Fail, Move
<1>2. /\ at'[s][c] = q
      /\ \A t \in Services, d \in Clients : t # s \/ d # c => at'[t][d] = at[t][d]
  <2>1. TypeOK
    BY DEF IInv
  <2> QED
    BY <1>1, <2>1, Zenon DEF TypeOK
<1>3. /\ answer'[s][c] \in {answer[s][c], out[s][c]}
      /\ \A t \in Services, d \in Clients : t # s \/ d # c => answer'[t][d] = answer[t][d]
  BY <1>1, GotAt DEF IInv
<1>4. /\ out'[s][c] \in {out[s][c], "error", None}
      /\ \A t \in Services, d \in Clients : t # s \/ d # c => out'[t][d] = out[t][d]
  BY <1>1, OutAt DEF IInv
<1>5. \A a \in Verdicts : Says(c, a)' => Says(c, a)
  BY <1>3, <1>4, ServicesOK DEF Verdicts, Says, Answers
<1>6. "agent" \in Services /\ "runtime" \in Services /\ (s = "agent" \/ s = "runtime")
  BY DEF Services
<1>7. /\ Pending(c)' => Pending(c)
      /\ Unhandled(c)' => Unhandled(c)
      /\ Forwarded(c)' => Forwarded(c)
      /\ ~Unhandled(c) => (at'["agent"][c] = "none" <=> at["agent"][c] = "none")
  BY <1>1, <1>2, <1>6 DEF Pending, Unhandled, Forwarded, NotForwarded
<1> QED
  BY <1>1, <1>2, <1>3, <1>4, <1>5, <1>7, QuietStep

\* A connection that fails in a service gets no verdict from it.
LEMMA FailuresAreQuiet ==
  ASSUME IInv, AnswerInv, NEW s \in Services, NEW c \in Clients,
         SubmitFails(s, c) \/ ReadFails(s, c) \/ HangUp(s, c)
  PROVE  AnswerInv'
<1>1. /\ at' = at \/ \E q \in {"closed", "leaving"} : at' = [at EXCEPT ![s][c] = q]
      /\ at' # at => at[s][c] # "none"
      /\ answer' = answer \/ \E b \in {"eof", "late"} : answer' = Got(s, c, b)
      /\ out' = out \/ out' = [out EXCEPT ![s][c] = "error"]
      /\ applied' = applied
  BY DEF SubmitFails, ReadFails, HangUp, Fail, Move
<1>2. /\ \/ at'[s][c] = at[s][c]
         \/ at[s][c] # "none" /\ at'[s][c] \in {"closed", "leaving"}
      /\ \A t \in Services, d \in Clients : t # s \/ d # c => at'[t][d] = at[t][d]
  <2>1. CASE at' = at
    BY <2>1
  <2>2. CASE at' # at
    <3>1. PICK q \in {"closed", "leaving"} : at' = [at EXCEPT ![s][c] = q]
      BY <1>1, <2>2
    <3> QED
      BY <1>1, <2>2, <3>1, Moved DEF IInv
  <2> QED
    BY <2>1, <2>2
<1>3. /\ answer'[s][c] \in {answer[s][c], "eof", "late"}
      /\ \A t \in Services, d \in Clients : t # s \/ d # c => answer'[t][d] = answer[t][d]
  BY <1>1, GotAt DEF IInv
<1>4. /\ out'[s][c] \in {out[s][c], "error"}
      /\ \A t \in Services, d \in Clients : t # s \/ d # c => out'[t][d] = out[t][d]
  BY <1>1, OutAt DEF IInv
<1>5. \A a \in Verdicts : Says(c, a)' => Says(c, a)
  BY <1>3, <1>4 DEF Verdicts, Says
<1>6. "agent" \in Services /\ "runtime" \in Services /\ (s = "agent" \/ s = "runtime")
  BY DEF Services
<1>7. /\ Pending(c)' => Pending(c)
      /\ Unhandled(c)' => Unhandled(c)
      /\ Forwarded(c)' => Forwarded(c)
      /\ ~Unhandled(c) => (at'["agent"][c] = "none" <=> at["agent"][c] = "none")
  BY <1>2, <1>6 DEF Pending, Unhandled, Forwarded, NotForwarded
<1> QED
  BY <1>1, <1>2, <1>3, <1>4, <1>5, <1>7, QuietStep

\* The Agent passes the Runtime's verdict on, and has none of its own when the
\* Runtime is silent.
LEMMA ForwardIsQuiet ==
  ASSUME IInv, AnswerInv, NEW c \in Clients, Forward(c) \/ ProxyTimeout(c)
  PROVE  AnswerInv'
<1>1. "agent" \in Services /\ "runtime" \in Services /\ "agent" # "runtime"
  BY DEF Services
<1>2. PICK b \in {answer["runtime"][c], "unavailable"} :
        /\ at' = [at EXCEPT !["agent"][c] = "replying"] /\ at["agent"][c] = "waiting"
        /\ out' = [out EXCEPT !["agent"][c] = b]
        /\ answer' = answer \/ answer' = Got("runtime", c, "late")
        /\ applied' = applied
  BY DEF Forward, ProxyTimeout, Reply, Move
<1>3. /\ at'["agent"][c] = "replying"
      /\ \A t \in Services, d \in Clients : t # "agent" \/ d # c => at'[t][d] = at[t][d]
  BY <1>1, <1>2, Moved DEF IInv
<1>4. /\ answer'["runtime"][c] \in {answer["runtime"][c], "late"}
      /\ \A t \in Services, d \in Clients : t # "runtime" \/ d # c => answer'[t][d] = answer[t][d]
  BY <1>1, <1>2, GotAt DEF IInv
<1>5. /\ out'["agent"][c] = b
      /\ \A t \in Services, d \in Clients : t # "agent" \/ d # c => out'[t][d] = out[t][d]
  <2>1. TypeOK /\ out' = [out EXCEPT !["agent"][c] = b]
    BY <1>2 DEF IInv
  <2> QED
    BY <1>1, <2>1 DEF TypeOK
<1>6. \A a \in Verdicts : Says(c, a)' => Says(c, a)
  BY <1>1, <1>4, <1>5 DEF Verdicts, Says, Services
<1>7. /\ Pending(c)' => Pending(c)
      /\ Unhandled(c)' => Unhandled(c)
      /\ Forwarded(c)' => Forwarded(c)
      /\ ~Unhandled(c) => (at'["agent"][c] = "none" <=> at["agent"][c] = "none")
  BY <1>1, <1>2, <1>3 DEF Pending, Unhandled, Forwarded, NotForwarded
<1> QED
  BY <1>1, <1>2, <1>3, <1>4, <1>5, <1>6, <1>7, QuietStep

\* What is forwarded was allowed to this peer (AgentService.method_allowed).
LEMMA ProxyTells ==
  ASSUME IInv, AnswerInv, NEW c \in Clients, Proxy(c)
  PROVE  AnswerInv'
<1>1. "agent" \in Services /\ "runtime" \in Services /\ "agent" # "runtime"
  BY DEF Services
<1>2. /\ at["agent"][c] = "handling" /\ at["runtime"][c] = "none"
      /\ UNCHANGED <<answer, applied>>
  BY DEF Proxy, IInv, Fresh, NotForwarded
<1>3. MethodAllowed(c, Uid[c])
  <2>1. PICK uid \in {Uid[c], None} : MethodAllowed(c, uid)
    BY DEF Proxy, PeerUids
  <2> QED
    BY <2>1, NobodyIsAuthorised
<1>4. /\ at'["agent"][c] \in {"waiting", "replying"} /\ at'["runtime"][c] \in {"none", "backlog"}
      /\ \A t \in Services, d \in Clients : d # c => at'[t][d] = at[t][d]
  <2>1. CASE at' = [at EXCEPT !["agent"][c] = "waiting", !["runtime"][c] = "backlog"]
    BY <1>1, <2>1 DEF IInv, TypeOK
  <2>2. CASE at' = [at EXCEPT !["agent"][c] = "replying"]
    BY <1>1, <1>2, <2>2 DEF IInv, TypeOK
  <2> QED
    BY <2>1, <2>2 DEF Proxy, Reply, Move
<1>5. /\ out'["agent"][c] \in {out["agent"][c], "unavailable"}
      /\ \A t \in Services, d \in Clients : t # "agent" \/ d # c => out'[t][d] = out[t][d]
  <2>1. out' = out \/ out' = [out EXCEPT !["agent"][c] = "unavailable"]
    BY DEF Proxy, Reply
  <2>2. TypeOK
    BY DEF IInv
  <2> QED
    BY <1>1, <2>1, <2>2, OutAt
<1>6. ASSUME NEW d \in Clients, d # c PROVE ClientInv(d)'
  BY <1>2, <1>4, <1>5, <1>6, Untouched DEF AnswerInv
<1>7. ClientInv(c)'
  <2>1. Pending(c) /\ Unhandled(c) /\ ClientInv(c)
    BY <1>2 DEF Pending, Unhandled, NotForwarded, AnswerInv
  <2>2. ~applied[c] /\ ~applied'[c] /\ \A a \in Verdicts : ~Says(c, a)
    BY <1>2, <2>1 DEF ClientInv
  <2>3. \A a \in Verdicts : ~Says(c, a)'
    BY <1>1, <1>2, <1>5, <2>2 DEF Verdicts, Says, Services
  <2>4. MethodAllowed(c, Uid[c])'
    BY <1>3 DEF MethodAllowed, Authorised, AllowedUids
  <2> QED
    BY <2>2, <2>3, <2>4 DEF ClientInv, Verdicts
<1> QED
  BY <1>6, <1>7 DEF AnswerInv

\* A request that is refused, by the gate or by the Agent, was never handled and
\* never will be.
LEMMA RefusalTells ==
  ASSUME IInv, AnswerInv, NEW s \in Services, NEW c \in Clients,
         Acquire(s, c) \/ (s = "agent" /\ Refuse(c))
  PROVE  AnswerInv'
<1>1. "agent" \in Services /\ "runtime" \in Services /\ (s = "agent" \/ s = "runtime")
  BY DEF Services
<1>2. /\ at[s][c] \in {"accepted", "handling"} /\ applied' = applied
      /\ \/ at' = [at EXCEPT ![s][c] = "admitted"] /\ UNCHANGED <<out, answer>>
         \/ at' = [at EXCEPT ![s][c] = "closed"] /\ answer' = Got(s, c, "busy") /\ out' = out
         \/ /\ at' = [at EXCEPT ![s][c] = "replying"] /\ out' = [out EXCEPT ![s][c] = "forbidden"]
            /\ answer' = answer
  BY DEF Acquire, Refuse, Reply, Move
<1>3. /\ \/ at'[s][c] = "admitted" /\ UNCHANGED <<out, answer>>
         \/ at'[s][c] \in {"closed", "replying"}
      /\ \A t \in Services, d \in Clients : t # s \/ d # c => at'[t][d] = at[t][d]
  BY <1>2, Moved DEF IInv
<1>4. /\ answer'[s][c] \in {answer[s][c], "busy"}
      /\ \A t \in Services, d \in Clients : t # s \/ d # c => answer'[t][d] = answer[t][d]
  BY <1>2, GotAt DEF IInv
<1>5. /\ out'[s][c] \in {out[s][c], "forbidden"}
      /\ \A t \in Services, d \in Clients : t # s \/ d # c => out'[t][d] = out[t][d]
  <2>1. out' = out \/ out' = [out EXCEPT ![s][c] = "forbidden"]
    BY <1>2
  <2> QED
    BY <2>1, OutAt DEF IInv
<1>6. CASE at'[s][c] = "admitted" /\ UNCHANGED <<out, answer>>
  <2>1. /\ Pending(c)' => Pending(c)
        /\ Unhandled(c)' => Unhandled(c)
        /\ Forwarded(c)' => Forwarded(c)
        /\ ~Unhandled(c) => (at'["agent"][c] = "none" <=> at["agent"][c] = "none")
    BY <1>1, <1>2, <1>3, <1>6 DEF Pending, Unhandled, Forwarded, NotForwarded
  <2> QED
    BY <1>2, <1>3, <1>6, <2>1, Unsaid, QuietStep
<1>7. CASE at'[s][c] \in {"closed", "replying"}
  <2>1. at'[s][c] \in {"closed", "replying"}
    BY <1>7
  <2>2. ASSUME NEW d \in Clients, d # c PROVE ClientInv(d)'
    BY <1>2, <1>3, <1>4, <1>5, <2>2, Untouched DEF AnswerInv
  <2>3. ClientInv(c)'
    <3>1. Pending(c) /\ Unhandled(c) /\ ClientInv(c)
      BY <1>1, <1>2 DEF Pending, Unhandled, NotForwarded, AnswerInv, IInv, Fresh
    <3>2. ~applied'[c] /\ ~Says(c, "ok")
      BY <1>2, <3>1 DEF ClientInv, Verdicts
    <3>3. ~Says(c, "ok")'
      BY <1>4, <1>5, <3>2 DEF Says
    <3>4. ~Pending(c)' /\ (Forwarded(c)' => Forwarded(c))
      BY <1>1, <1>2, <1>3, <2>1 DEF Pending, Forwarded, NotForwarded, IInv, Fresh
    <3>5. (Forwarded(c) => MethodAllowed(c, Uid[c]))'
      BY <3>1, <3>4 DEF ClientInv, MethodAllowed, Authorised, AllowedUids
    <3> QED
      BY <3>2, <3>3, <3>4, <3>5 DEF ClientInv
  <2> QED
    BY <2>2, <2>3 DEF AnswerInv
<1> QED
  BY <1>3, <1>6, <1>7

\* A request that was handled has a verdict, for the first time; and it took
\* effect only for a peer that was authorised, the Agent for its own included.
LEMMA HandleTells ==
  ASSUME IInv, AnswerInv, NEW c \in Clients, Handle(c)
  PROVE  AnswerInv'
<1>1. "agent" \in Services /\ "runtime" \in Services /\ "agent" # "runtime"
  BY DEF Services
<1>2. PICK uid \in PeerUids(Sender(c)), result \in {"ok", "forbidden", "failed"}, effect \in BOOLEAN :
        /\ result = "forbidden" <=> ~Authorised(uid)
        /\ result = "ok" => effect
        /\ result = "forbidden" => ~effect
        /\ applied' = [applied EXCEPT ![c] = effect]
        /\ \/ Reply("runtime", c, result)
           \/ In("runtime", Working) # {c} /\ result # "forbidden" /\ Fail("runtime", c)
  BY Zenon DEF Handle
<1>3. at["runtime"][c] = "handling" /\ answer' = answer
  BY DEF Handle
<1>4. /\ applied'[c] = effect
      /\ \A d \in Clients : d # c => applied'[d] = applied[d]
  BY <1>2 DEF IInv, TypeOK
<1>5. PICK q \in {"replying", "leaving"}, b \in {result, "error"} :
        at' = [at EXCEPT !["runtime"][c] = q] /\ out' = [out EXCEPT !["runtime"][c] = b]
  BY <1>2 DEF Reply, Fail, Move
<1>6. /\ at'["runtime"][c] = q
      /\ \A t \in Services, d \in Clients : t # "runtime" \/ d # c => at'[t][d] = at[t][d]
  <2>1. TypeOK /\ at' = [at EXCEPT !["runtime"][c] = q]
    BY <1>5 DEF IInv
  <2> QED
    BY <1>1, <2>1, Zenon DEF TypeOK
<1>7. /\ out'["runtime"][c] = b
      /\ \A t \in Services, d \in Clients : t # "runtime" \/ d # c => out'[t][d] = out[t][d]
  BY <1>1, <1>5 DEF IInv, TypeOK
<1>8. ASSUME NEW d \in Clients, d # c PROVE ClientInv(d)'
  BY <1>3, <1>4, <1>6, <1>7, <1>8, Untouched DEF AnswerInv
<1>9. ClientInv(c)'
  <2>1. Pending(c) /\ ClientInv(c)
    BY <1>3 DEF Pending, NotForwarded, AnswerInv
  <2>2. \A a \in Verdicts : Says(c, a)' => a = result
    <3>1. \A a \in Verdicts : ~Says(c, a)
      BY <2>1 DEF ClientInv
    <3> QED
      BY <1>1, <1>3, <1>5, <1>7, <3>1 DEF Verdicts, Says, Services
  <2>3. ~Pending(c)' /\ ~Unhandled(c)' /\ (Forwarded(c)' => Forwarded(c))
    BY <1>1, <1>3, <1>5, <1>6 DEF Pending, Unhandled, Forwarded, NotForwarded
  <2>4. effect => Permitted(c)
    <3>1. ASSUME effect PROVE Authorised(Sender(c))
      <4>1. Authorised(uid) /\ uid \in {Sender(c), None}
        BY <1>2, <3>1 DEF PeerUids
      <4> QED
        BY <4>1, NobodyIsAuthorised
    <3>2. CASE at["agent"][c] = "none"
      BY <3>1, <3>2 DEF Sender, Permitted, Authorised
    <3>3. CASE at["agent"][c] # "none"
      BY <1>3, <2>1, <3>3 DEF ClientInv, Forwarded, Permitted, MethodAllowed, Authorised
    <3> QED
      BY <3>2, <3>3
  <2>5. (applied[c] => Permitted(c))'
    BY <1>1, <1>4, <1>6, <2>4 DEF Permitted, AllowedUids
  <2>6. (Forwarded(c) => MethodAllowed(c, Uid[c]))'
    BY <2>1, <2>3 DEF ClientInv, MethodAllowed, Authorised, AllowedUids
  <2>7. /\ (Says(c, "ok") => applied[c])'
        /\ (Says(c, "busy") \/ Says(c, "forbidden") => ~applied[c])'
    BY <1>2, <1>4, <2>2 DEF Verdicts
  <2> QED
    BY <2>3, <2>5, <2>6, <2>7 DEF ClientInv
<1> QED
  BY <1>8, <1>9 DEF AnswerInv

\* Services that end, stop and start say nothing, and closing is no verdict.
LEMMA ServiceIsQuiet ==
  ASSUME IInv, AnswerInv, NEW s \in Services,
         Shut(s) \/ AcceptFails(s) \/ Kill(s) \/ Stop(s) \/ Drained(s) \/ Start(s)
  PROVE  AnswerInv'
<1>1. CASE UNCHANGED <<at, out, answer, applied>>
  BY <1>1, Untouched DEF AnswerInv
<1>2. CASE Shut(s) \/ AcceptFails(s) \/ Kill(s)
  <2>1. PICK P \in SUBSET Places : "none" \notin P /\ Closing(s, P)
    BY <1>2 DEF Shut, AcceptFails, Leave, Kill, Places
  <2>2. /\ applied' = applied
        /\ out' = out \/ out' = [out EXCEPT ![s] = [c \in Clients |-> None]]
    BY <1>2 DEF Shut, AcceptFails, Leave, Kill
  <2>3. ASSUME NEW d \in Clients PROVE ClientInv(d)'
    <3>1. ASSUME NEW t \in Services, at'[t][d] # at[t][d]
          PROVE  at[t][d] # "none" /\ at'[t][d] = "closed"
      <4>1. /\ \A u \in Services \ {s} : at'[u][d] = at[u][d]
            /\ at'[s][d] = IF at[s][d] \in P THEN "closed" ELSE at[s][d]
        BY <2>1, ClosingMoves
      <4>2. t = s /\ at[s][d] \in P
        BY <3>1, <4>1
      <4> QED
        BY <2>1, <4>1, <4>2
    <3>2. \A t \in Services : answer'[t][d] \in {answer[t][d], "eof"}
      BY <2>1 DEF Closing, IInv, TypeOK
    <3>3. \A t \in Services : out'[t][d] \in {out[t][d], None}
      BY <2>2 DEF IInv, TypeOK
    <3>4. \A a \in Verdicts : Says(d, a)' => Says(d, a)
      BY <3>2, <3>3, ServicesOK DEF Says, Verdicts, Answers
    <3>5. "agent" \in Services /\ "runtime" \in Services
      BY DEF Services
    <3>6. /\ Pending(d)' => Pending(d)
          /\ Unhandled(d)' => Unhandled(d)
          /\ Forwarded(d)' => Forwarded(d)
          /\ at'["agent"][d] = "none" <=> at["agent"][d] = "none"
      BY <3>1, <3>5 DEF Pending, Unhandled, Forwarded, NotForwarded
    <3> QED
      BY <2>2, <3>4, <3>6, Quiet DEF AnswerInv
  <2> QED
    BY <2>3 DEF AnswerInv
<1> QED
  BY <1>1, <1>2 DEF Stop, Drained, Start

\* Nothing is said at first.
LEMMA AnswersInit == Init => AnswerInv
<1> SUFFICES ASSUME Init, NEW c \in Clients PROVE ClientInv(c)
  BY DEF AnswerInv
<1>1. \A a \in Verdicts : ~Says(c, a)
  BY ServicesOK DEF Init, Everywhere, Says, Verdicts, Answers
<1>2. ~applied[c] /\ at["agent"][c] = "none"
  BY DEF Init, Everywhere, Services
<1> QED
  BY <1>1, <1>2 DEF ClientInv, Verdicts, Forwarded

\* No step of a service, a client or the host makes an answer untrue.
LEMMA AnswersStep == IInv /\ AnswerInv /\ [Next]_vars => AnswerInv'
<1> SUFFICES ASSUME IInv, AnswerInv, [Next]_vars PROVE AnswerInv'
  OBVIOUS
<1>1. CASE \E s \in Services : LoopStep(s)
  BY <1>1, MovesAreQuiet, RefusalTells, ServiceIsQuiet DEF LoopStep
<1>2. CASE \E s \in Services : Environment(s)
  BY <1>2, MovesAreQuiet, FailuresAreQuiet, ServiceIsQuiet DEF Environment
<1>3. CASE \E s \in Services, c \in Clients : WorkerStep(s, c)
  BY <1>3, MovesAreQuiet, FailuresAreQuiet, SendIsQuiet, HandleTells, RefusalTells, ProxyTells,
     ForwardIsQuiet
  DEF WorkerStep
<1>4. CASE UNCHANGED vars
  BY <1>4, Untouched DEF vars, AnswerInv
<1> QED
  BY <1>1, <1>2, <1>3, <1>4 DEF Next

\* An answer says what happened, whichever service gives it and however late, and
\* nobody's request takes effect in the Agent's name that would not in his own
\* (client, AgentService.proxy and method_allowed, AccessControl).
THEOREM AnswersTrue == Spec => []AnswersAreTrue
<1>1. IInv /\ AnswerInv => AnswersAreTrue
  BY DEF AnswerInv, ClientInv, Says, AnswersAreTrue
<1> QED
  BY <1>1, InitSafe, NextSafe, AnswersInit, AnswersStep, PTL DEF Spec

=============================================================================
