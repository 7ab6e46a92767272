--------------------------- MODULE SocketServices ---------------------------
(***************************************************************************)
(* The two socket services, the Agent and the Runtime it forwards to: the  *)
(* serve loop, the bounded acceptance gate they share (BoundedQueue), the  *)
(* worker pool, one worker per connection, shutdown, and the proxy with    *)
(* its timeout.  A client sends one request, through the Agent or to the   *)
(* Runtime itself; applied tells whether the request took effect.          *)
(***************************************************************************)
EXTENDS Naturals, FiniteSets

CONSTANTS
  Clients,
  Uid,       \* the user each client runs as
  Method,    \* what it asks for: "mode", which is the root user's, or "other"
  Root,      \* the root user
  Account,   \* the user both services run as
  None,
  Capacity,  \* max_concurrency: slots of the gate and workers of the pool
  MaxFaults  \* bound: stops, kills, hang-ups and failing calls, together

Services == {"agent", "runtime"}

\* "failed" is an answer of the handler, "error" one of client, "eof" is none
\* at all, and "late" marks a peer that no longer waits for one.
Answers == {"ok", "forbidden", "failed", "busy", "error", "unavailable", "eof", "late"}

ASSUME ServicesOK == /\ IsFiniteSet(Clients)
                     /\ None \notin Answers \union {Root, Account}
                     /\ Capacity \in Nat \ {0} /\ MaxFaults \in Nat

\* Where a connection is.  In the hands of the serve loop:
Hand == {"accepted", "admitted"}
\* of a worker, the last two in client's finally clauses:
Working == {"reading", "handling", "waiting", "replying", "leaving", "released"}
Held == {"admitted", "queued"} \union (Working \ {"released"})
Places == {"none", "backlog", "queued", "cancelled", "closed"} \union Hand \union Working

VARIABLES
  loop,     \* each service: serving, draining or down
  stop,     \* _stop is set
  free,     \* permits of the gate's semaphore; its counters move with them
  at,       \* place of each connection
  out,      \* the answer a worker is about to send
  answer,   \* what the peer of the connection has got
  applied, faults

vars == <<loop, stop, free, at, out, answer, applied, faults>>
life == <<loop, stop, faults>>

Everywhere(x) == [s \in Services |-> [c \in Clients |-> x]]

Init == /\ loop = [s \in Services |-> "serving"] /\ stop = [s \in Services |-> FALSE]
        /\ free = [s \in Services |-> Capacity]
        /\ at = Everywhere("none") /\ out = Everywhere(None) /\ answer = Everywhere(None)
        /\ applied = [c \in Clients |-> FALSE] /\ faults = 0

Fault == faults < MaxFaults /\ faults' = faults + 1

In(s, places) == {c \in Clients : at[s][c] \in places}
Move(s, c, place) == at' = [at EXCEPT ![s][c] = place]
Got(s, c, a) == [answer EXCEPT ![s][c] = IF @ = None THEN a ELSE @]

-----------------------------------------------------------------------------
(* The serve loop *)

\* A client talks to the Agent or straight to the Runtime.
Connect(s, c) ==
  /\ loop[s] = "serving" /\ \A t \in Services : at[t][c] = "none"
  /\ Move(s, c, "backlog")
  /\ UNCHANGED <<life, free, out, answer, applied>>

\* The loop has one connection in hand at a time.
Accept(s, c) ==
  /\ loop[s] = "serving" /\ In(s, Hand) = {} /\ at[s][c] = "backlog" /\ ~stop[s]
  /\ Move(s, c, "accepted")
  /\ UNCHANGED <<life, free, out, answer, applied>>

Acquire(s, c) ==
  /\ at[s][c] = "accepted"
  /\ \/ /\ free[s] > 0 /\ free' = [free EXCEPT ![s] = @ - 1]
        /\ Move(s, c, "admitted") /\ UNCHANGED answer
     \/ /\ free[s] = 0 /\ answer' = Got(s, c, "busy")
        /\ Move(s, c, "closed") /\ UNCHANGED free
  /\ UNCHANGED <<life, out, applied>>

Submit(s, c) ==
  /\ at[s][c] = "admitted" /\ Move(s, c, "queued")
  /\ UNCHANGED <<life, free, out, answer, applied>>

\* Mutant: the connection stays submitted.
SubmitFailsQueued(s, c) ==
  /\ at[s][c] = "admitted" /\ Fault
  /\ free' = [free EXCEPT ![s] = @ + 1]
  /\ Move(s, c, "queued")
  /\ UNCHANGED <<loop, stop, out, answer, applied>>

\* No thread can be started: the loop itself releases the slot and closes.
SubmitFails(s, c) ==
  /\ at[s][c] = "admitted" /\ Fault
  /\ free' = [free EXCEPT ![s] = @ + 1]
  /\ answer' = Got(s, c, "eof") /\ Move(s, c, "closed")
  /\ UNCHANGED <<loop, stop, out, applied>>

Stop(s) ==
  /\ loop[s] = "serving" /\ ~stop[s] /\ Fault /\ stop' = [stop EXCEPT ![s] = TRUE]
  /\ UNCHANGED <<loop, free, at, out, answer, applied>>

Closing(s, places) ==
  /\ at' = [at EXCEPT ![s] = [c \in Clients |-> IF @[c] \in places THEN "closed" ELSE @[c]]]
  /\ answer' = [answer EXCEPT ![s] = [c \in Clients |->
                  IF at[s][c] \in places /\ @[c] = None THEN "eof" ELSE @[c]]]

\* Mutant: futures are cancelled.
ShutCancels(s) ==
  /\ loop[s] = "serving" /\ In(s, Hand) = {} /\ stop[s] /\ UNCHANGED faults
  /\ loop' = [loop EXCEPT ![s] = "draining"]
  /\ at' = [at EXCEPT ![s] = [c \in Clients |-> IF @[c] = "backlog" THEN "closed"
                                ELSE IF @[c] = "queued" THEN "cancelled" ELSE @[c]]]
  /\ UNCHANGED <<stop, free, out, answer, applied>>

\* The loop ends by _stop or by an error of accept: what was in the backlog, or
\* accepted just before _stop was seen, is closed; nothing submitted is cancelled.
Leave(s) ==
  /\ loop[s] = "serving" /\ In(s, Hand) = {}
  /\ loop' = [loop EXCEPT ![s] = "draining"] /\ Closing(s, {"backlog"})
  /\ UNCHANGED <<stop, free, out, applied>>

Shut(s) == stop[s] /\ Leave(s) /\ UNCHANGED faults
AcceptFails(s) == ~stop[s] /\ Leave(s) /\ Fault

Drained(s) ==
  /\ loop[s] = "draining" /\ In(s, Working \union {"queued"}) = {}
  /\ loop' = [loop EXCEPT ![s] = "down"]
  /\ UNCHANGED <<stop, faults, free, at, out, answer, applied>>

Kill(s) ==
  /\ loop[s] # "down" /\ Fault /\ loop' = [loop EXCEPT ![s] = "down"]
  /\ Closing(s, Places \ {"none", "closed"})
  /\ free' = [free EXCEPT ![s] = Capacity]
  /\ out' = [out EXCEPT ![s] = [c \in Clients |-> None]]
  /\ UNCHANGED <<stop, applied>>

Start(s) ==
  /\ loop[s] = "down" /\ loop' = [loop EXCEPT ![s] = "serving"]
  /\ stop' = [stop EXCEPT ![s] = FALSE]
  /\ UNCHANGED <<faults, free, at, out, answer, applied>>

-----------------------------------------------------------------------------
(* client *)

Reply(s, c, a) == out' = [out EXCEPT ![s][c] = a] /\ Move(s, c, "replying")
Fail(s, c) == out' = [out EXCEPT ![s][c] = "error"] /\ Move(s, c, "leaving")

Take(s, c) ==
  /\ at[s][c] = "queued" /\ Cardinality(In(s, Working)) < Capacity
  /\ Move(s, c, "reading")
  /\ UNCHANGED <<life, free, out, answer, applied>>

\* The peer's line is read, even when it has timed out or left since it sent it.
Request(s, c) ==
  /\ at[s][c] = "reading" /\ Move(s, c, "handling")
  /\ UNCHANGED <<life, free, out, answer, applied>>

\* Mutant: without the finally clause of the slot.
ReadLeaks(s, c) ==
  /\ at[s][c] = "reading"
  /\ out' = [out EXCEPT ![s][c] = "error"] /\ Move(s, c, "released")
  /\ UNCHANGED <<life, free, answer, applied>>

\* Mutant: without a timeout only a peer that has left ends the read.
ReadBlocks(s, c) ==
  /\ at[s][c] = "reading" /\ answer[s][c] # None /\ Fail(s, c)
  /\ UNCHANGED <<life, free, answer, applied>>

\* Timeout, end of file, an overlong or unreadable line.
ReadFails(s, c) ==
  /\ at[s][c] = "reading" /\ Fail(s, c)
  /\ UNCHANGED <<life, free, answer, applied>>

\* The kernel may not tell who the peer is.
PeerUids(uid) == {uid, None}

\* Both services are started with one allow list, and deny who is not on it.
AllowedUids == {Root, Account}
Authorised(uid) == uid \in AllowedUids

\* The Runtime sees the Agent behind every request that was forwarded.
Sender(c) == IF at["agent"][c] = "none" THEN Uid[c] ELSE Account

\* handle catches what goes wrong inside; "failed" leaves open whether the
\* operation took effect.
Handle(c) ==
  /\ at["runtime"][c] = "handling"
  /\ \E uid \in PeerUids(Sender(c)), result \in {"ok", "forbidden", "failed"}, effect \in BOOLEAN :
       /\ result = "forbidden" <=> ~Authorised(uid)
       /\ result = "ok" => effect
       /\ result = "forbidden" => ~effect
       /\ applied' = [applied EXCEPT ![c] = effect]
       /\ \/ Reply("runtime", c, result)
          \/ /\ In("runtime", Working) # {c} /\ result # "forbidden"
             /\ Fail("runtime", c)
  /\ UNCHANGED <<life, free, answer>>

MethodAllowed(c, uid) == Authorised(uid) /\ (Method[c] = "mode" => uid = Root)

\* The Agent refuses by method and uid, or forwards.
Refuse(c) ==
  /\ at["agent"][c] = "handling" /\ \E uid \in PeerUids(Uid[c]) : ~MethodAllowed(c, uid)
  /\ Reply("agent", c, "forbidden")
  /\ UNCHANGED <<life, free, answer, applied>>

Proxy(c) ==
  /\ at["agent"][c] = "handling" /\ \E uid \in PeerUids(Uid[c]) : MethodAllowed(c, uid)
  /\ \/ /\ loop["runtime"] = "serving"
        /\ at' = [at EXCEPT !["agent"][c] = "waiting", !["runtime"][c] = "backlog"]
        /\ UNCHANGED out
     \/ loop["runtime"] # "serving" /\ Reply("agent", c, "unavailable")
  /\ UNCHANGED <<life, free, answer, applied>>

Forward(c) ==
  /\ at["agent"][c] = "waiting" /\ answer["runtime"][c] # None
  /\ Reply("agent", c, IF answer["runtime"][c] = "eof" THEN "unavailable"
                                                       ELSE answer["runtime"][c])
  /\ UNCHANGED <<life, free, answer, applied>>

\* Mutant: a timeout is called busy.
ProxyTimeoutBusy(c) ==
  /\ at["agent"][c] = "waiting" /\ answer["runtime"][c] = None
  /\ answer' = Got("runtime", c, "late") /\ Reply("agent", c, "busy")
  /\ UNCHANGED <<life, free, applied>>

\* After five seconds without a byte; the Runtime works on.
ProxyTimeout(c) ==
  /\ at["agent"][c] = "waiting" /\ answer["runtime"][c] = None
  /\ answer' = Got("runtime", c, "late") /\ Reply("agent", c, "unavailable")
  /\ UNCHANGED <<life, free, applied>>

\* sendall raises when the peer has left.
Send(s, c) ==
  /\ at[s][c] = "replying" /\ answer' = Got(s, c, out[s][c])
  /\ IF answer[s][c] = None THEN Move(s, c, "leaving") /\ UNCHANGED out ELSE Fail(s, c)
  /\ UNCHANGED <<life, free, applied>>

Release(s, c) ==
  /\ at[s][c] = "leaving"
  /\ free' = [free EXCEPT ![s] = @ + 1] /\ Move(s, c, "released")
  /\ UNCHANGED <<life, out, answer, applied>>

\* The error is sent after the slot is given back.
Close(s, c) ==
  /\ at[s][c] = "released" /\ Move(s, c, "closed")
  /\ answer' = Got(s, c, out[s][c]) /\ out' = [out EXCEPT ![s][c] = None]
  /\ UNCHANGED <<life, free, applied>>

\* A client hangs up before it is answered.
HangUp(s, c) ==
  /\ s = "agent" \/ at["agent"][c] = "none"
  /\ at[s][c] \notin {"none", "closed"} /\ answer[s][c] = None
  /\ answer' = Got(s, c, "late") /\ Fault
  /\ UNCHANGED <<loop, stop, free, at, out, applied>>

-----------------------------------------------------------------------------

LoopStep(s) == \/ \E c \in Clients : Accept(s, c) \/ Acquire(s, c) \/ Submit(s, c)
               \/ Shut(s) \/ Drained(s)

WorkerStep(s, c) == \/ Take(s, c) \/ ReadFails(s, c) \/ Send(s, c)
                    \/ Release(s, c) \/ Close(s, c)
                    \/ s = "runtime" /\ Handle(c)
                    \/ s = "agent" /\ (Refuse(c) \/ Proxy(c) \/ Forward(c) \/ ProxyTimeout(c))

Environment(s) == \/ \E c \in Clients : \/ Connect(s, c) \/ Request(s, c) \/ HangUp(s, c)
                                        \/ SubmitFails(s, c)
                  \/ Stop(s) \/ Kill(s) \/ Start(s) \/ AcceptFails(s)

Next == \E s \in Services : \/ LoopStep(s) \/ Environment(s)
                           \/ \E c \in Clients : WorkerStep(s, c)

Spec == Init /\ [][Next]_vars

\* accept, recv and the proxy time out; a started worker thread runs on.
Fairness == /\ \A s \in Services : WF_vars(LoopStep(s))
            /\ \A s \in Services, c \in Clients : WF_vars(WorkerStep(s, c))

FairSpec == Spec /\ Fairness

-----------------------------------------------------------------------------
(* Properties *)

\* Types; the semaphore is never released beyond its capacity (BoundedSemaphore
\* would raise in client's finally clause and lose the answer).
TypeOK == /\ loop \in [Services -> {"serving", "draining", "down"}]
          /\ stop \in [Services -> BOOLEAN]
          /\ free \in [Services -> 0..Capacity]
          /\ at \in [Services -> [Clients -> Places]]
          /\ out \in [Services -> [Clients -> Answers \union {None}]]
          /\ answer \in [Services -> [Clients -> Answers \union {None}]]
          /\ applied \in [Clients -> BOOLEAN] /\ faults \in 0..MaxFaults

\* No slot leaks and none is given twice, on whatever path a connection leaves:
\* permits and connections that hold one add up to the capacity.
SlotsAreConserved ==
  \A s \in Services : free[s] + Cardinality(In(s, Held)) = Capacity

\* An answer says what happened: ok is only said of a request that took effect,
\* busy and forbidden only of one that did not and never will, whichever of the
\* services said it; error, failed and unavailable leave it open.  And no request
\* takes effect in the Agent's name that its own peer may not make.
Permitted(c) == /\ Uid[c] \in AllowedUids
                /\ at["agent"][c] # "none" /\ Method[c] = "mode" => Uid[c] = Root

AnswersAreTrue ==
  \A s \in Services, c \in Clients :
    /\ answer[s][c] = "ok" => applied[c]
    /\ answer[s][c] \in {"busy", "forbidden"} => ~applied[c]
    /\ applied[c] => Permitted(c)

\* Every connection the serve loop took is closed in the end: peers that never
\* send, a Runtime that never answers and a shutdown included.
AcceptedIsClosed ==
  \A s \in Services, c \in Clients : at[s][c] = "accepted" ~> at[s][c] = "closed"

\* A service that is told to stop is down in the end, whatever its clients do.
StopCompletes == \A s \in Services : stop[s] ~> loop[s] = "down"
=============================================================================
