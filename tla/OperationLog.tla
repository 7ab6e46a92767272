---------------------------- MODULE OperationLog ----------------------------
(***************************************************************************)
(* The Runtime's write-ahead log (operation.py) over the three stores that *)
(* one operation changes: runtime-state.json, the closed ledger (state.py) *)
(* and the audit log (audit.py).  One action per durable write.  The       *)
(* operations are the Runtime's own: register, feedback (which may evict   *)
(* completed decisions into the ledger) and mode.                          *)
(***************************************************************************)
EXTENDS Sequences, FiniteSets, Naturals

CONSTANTS
  Decisions, Payloads, Modes, None,
  Torn,          \* a file created and not written yet
  MaxCompleted,  \* RuntimeState.max_completed
  MaxEvents,     \* bound: events in the audit log
  MaxFaults,     \* bound: crashes and failing writes, together
  Legacy         \* does the state file have the schema of an older version

Requests == [type : {"register"}, id : Decisions]
              \union [type : {"feedback"}, id : Decisions, payload : Payloads]
              \union [type : {"mode"}, mode : Modes]

Events == [seq : 1..MaxEvents, request : Requests]
Contents == [pending : SUBSET Decisions,
             completed : [Decisions -> Payloads \union {None}],
             mode : Modes, legacy : BOOLEAN]
Operations == [pre : Contents, post : Contents, event : Events,
               evict : [Decisions -> Payloads \union {None}]]

ASSUME BoundsOK == /\ MaxCompleted \in Nat \ {0}
                   /\ MaxEvents \in Nat /\ MaxFaults \in Nat
                   /\ Legacy \in BOOLEAN
                   /\ None \notin Payloads \union Events \union Contents \union Operations
                   /\ Torn \notin Events \union {None}

VARIABLES
  state,      \* runtime-state.json
  ledger,     \* the tombstone of each evicted decision: its payload
  events,     \* the lines of the audit log, up to a torn one
  torn,       \* does an unreadable line end them: what follows it is not read
  head,       \* sequence number in head.json, 0 without one
  reserved,   \* append-intent.json: the event about to be appended
  intent,     \* op-*.intent.json: at most one, execute is fenced by it
  terminal,   \* does op-*.terminal.json exist for that intent
  pc, op,     \* where the Runtime is, and the operation it works on
  recovering, \* is it recover that works on op, or execute
  reader,     \* the copy of an old state file a read-only request holds
  overtaken,  \* history: was such a copy written back over an operation
  faults

disk     == <<state, ledger, events, torn, head, reserved, intent, terminal>>
auditlog == <<events, torn, head, reserved>>
proc     == <<pc, op, recovering>>
others   == <<reader, overtaken, faults>>
vars     == <<disk, proc, others>>

NoAnswers == [d \in Decisions |-> None]

Init == /\ state \in [pending : {{}}, completed : {NoAnswers}, mode : Modes,
                      legacy : {Legacy}]
        /\ ledger = NoAnswers
        /\ events = <<>> /\ torn = FALSE /\ head = 0 /\ reserved = None
        /\ intent = None /\ terminal = FALSE
        /\ pc = "idle" /\ op = None /\ recovering = FALSE
        /\ reader = None /\ overtaken = FALSE /\ faults = 0

Goto(to) == pc' = to /\ UNCHANGED <<op, recovering>>

Completed(s) == {d \in Decisions : s.completed[d] # None}

-----------------------------------------------------------------------------
(* The operations: what each state callback of handle computes *)

\* Replays are idempotent and conflicts refused, both without a write: neither
\* is among the effects.  An effect is the state after it and its evictions.
Registered(d) ==
  IF d \in state.pending \union Completed(state) \/ ledger[d] # None THEN {}
  ELSE {[post |-> [state EXCEPT !.pending = @ \union {d}], evict |-> NoAnswers]}

\* Any completed decision may be the first in sorted order.
Answered(d, p) ==
  IF d \notin state.pending THEN {}
  ELSE LET full == [state EXCEPT !.pending = @ \ {d}, !.completed[d] = p]
           over == {E \in SUBSET Completed(full) :
                      Cardinality(Completed(full) \ E) <= MaxCompleted
                      /\ \A e \in E :
                           Cardinality(Completed(full) \ E) + 1 > MaxCompleted}
       IN {[post  |-> [full EXCEPT !.completed =
                         [e \in Decisions |-> IF e \in E THEN None ELSE @[e]]],
            evict |-> [e \in Decisions |->
                         IF e \in E THEN full.completed[e] ELSE None]] : E \in over}

Effects(r) ==
  CASE r.type = "register" -> Registered(r.id)
    [] r.type = "feedback" -> Answered(r.id, r.payload)
    [] r.type = "mode"     -> {[post |-> [state EXCEPT !.mode = r.mode],
                                evict |-> NoAnswers]}

-----------------------------------------------------------------------------
(* execute, and the writes it shares with recover *)

\* AuditLog.verify: it stops at a line that is not JSON; without one the chain
\* holds when the head names the last line, for lines are appended in order.
Verified == ~torn /\ head = Len(events)

\* build_event: the next number and the request, chained to the head.
BuildEvent(r) == [seq |-> Len(events) + 1, request |-> r]

BeginUnfenced(r) ==
  /\ pc = "idle" /\ Len(events) + Cardinality({reserved} \ {None}) < MaxEvents
  /\ \E eff \in Effects(r) :
       op' = [pre |-> state, post |-> eff.post, evict |-> eff.evict,
              event |-> BuildEvent(r)]
  /\ recovering' = FALSE
  /\ IF reserved = None THEN pc' = "open" /\ Verified
                        ELSE pc' = "reconcile" /\ reserved # Torn
  /\ UNCHANGED <<disk, others>>

\* The fence, and build_event: without a left-over reservation the audit chain
\* must verify; with one it is reconciled first, which needs a readable one.
Begin(r) ==
  /\ pc = "idle" /\ intent = None /\ Len(events) + Cardinality({reserved} \ {None}) < MaxEvents
  /\ \E eff \in Effects(r) :
       op' = [pre |-> state, post |-> eff.post, evict |-> eff.evict,
              event |-> BuildEvent(r)]
  /\ recovering' = FALSE
  /\ IF reserved = None THEN pc' = "open" /\ Verified
                        ELSE pc' = "reconcile" /\ reserved # Torn
  /\ UNCHANGED <<disk, others>>

\* contains gives up at an unreadable line, too: what is appended to a torn line,
\* or after it, is lost.
HasEvent(e) == \E i \in 1..Len(events) : events[i] = e

Append_(e) == IF HasEvent(e) \/ torn THEN events ELSE Append(events, e)

\* AuditLog.reconcile appends what was reserved, whatever became of it.
Reconcile ==
  /\ pc = "reconcile" /\ Goto("reconcileHead")
  /\ events' = Append_(reserved)
  /\ UNCHANGED <<state, ledger, torn, head, reserved, intent, terminal, others>>

ReconcileHead ==
  /\ pc = "reconcileHead" /\ Goto("reconcileClear")
  /\ head' = reserved.seq
  /\ UNCHANGED <<state, ledger, events, torn, reserved, intent, terminal, others>>

\* Mutant: the event was built before the log was reconciled.
ReconcileClearStale ==
  /\ pc = "reconcileClear" /\ reserved' = None
  /\ Goto(IF Verified THEN "open" ELSE "idle")
  /\ UNCHANGED <<state, ledger, events, torn, head, intent, terminal, others>>

\* Then it verifies the log, and the event is built.
ReconcileClear ==
  /\ pc = "reconcileClear" /\ reserved' = None
  /\ pc' = IF Verified THEN "open" ELSE "idle"
  /\ op' = [op EXCEPT !.event.seq = Len(events) + 1]
  /\ UNCHANGED <<state, ledger, events, torn, head, intent, terminal, recovering,
                 others>>

\* append-intent.json is truncated and then written in place.
OpenReservation ==
  /\ pc = "open" /\ Goto("reserve")
  /\ reserved' = Torn
  /\ UNCHANGED <<state, ledger, events, torn, head, intent, terminal, others>>

Reserve ==
  /\ pc = "reserve" /\ Goto("intent")
  /\ reserved' = op.event
  /\ UNCHANGED <<state, ledger, events, torn, head, intent, terminal, others>>

WriteIntent ==
  /\ pc = "intent" /\ Goto("state")
  /\ intent' = op /\ terminal' = FALSE
  /\ UNCHANGED <<state, ledger, auditlog, others>>

WriteState ==
  /\ pc = "state" /\ Goto("ledger")
  /\ state' = op.post
  /\ UNCHANGED <<ledger, auditlog, intent, terminal, others>>

Missing(o) == {d \in Decisions : o.evict[d] \notin {None, ledger[d]}}

\* put_hashed, one decision at a time; a differing tombstone fails the
\* operation, which stays pending.
WriteLedger ==
  /\ pc = "ledger"
  /\ IF Missing(op) = {} THEN Goto("append") /\ UNCHANGED ledger
     ELSE \E d \in Missing(op) :
            IF ledger[d] = None
              THEN ledger' = [ledger EXCEPT ![d] = op.evict[d]] /\ Goto("ledger")
              ELSE Goto("idle") /\ UNCHANGED ledger
  /\ UNCHANGED <<state, auditlog, intent, terminal, others>>

AppendEventForgotten ==
  /\ pc = "append" /\ Goto(IF recovering THEN "terminal" ELSE "head")
  /\ events' = IF recovering THEN events ELSE Append_(op.event)
  /\ UNCHANGED <<state, ledger, torn, head, reserved, intent, terminal, others>>

\* AuditLog.commit_event; recover skips it when the event is there already.
AppendEvent ==
  /\ pc = "append"
  /\ IF recovering /\ HasEvent(op.event)
       THEN Goto(IF terminal THEN "cleanup" ELSE "terminal")
       ELSE Goto("head")
  /\ events' = Append_(op.event)
  /\ UNCHANGED <<state, ledger, torn, head, reserved, intent, terminal, others>>

WriteHead ==
  /\ pc = "head" /\ Goto("clear")
  /\ head' = op.event.seq
  /\ UNCHANGED <<state, ledger, events, torn, reserved, intent, terminal, others>>

ClearReserved ==
  /\ pc = "clear" /\ Goto(IF terminal THEN "cleanup" ELSE "terminal")
  /\ reserved' = None
  /\ UNCHANGED <<state, ledger, events, torn, head, intent, terminal, others>>

WriteTerminal ==
  /\ pc = "terminal" /\ Goto("cleanup")
  /\ terminal' = TRUE
  /\ UNCHANGED <<state, ledger, auditlog, intent, others>>

Cleanup ==
  /\ pc = "cleanup" /\ pc' = "idle" /\ op' = None
  /\ intent' = None /\ terminal' = FALSE /\ UNCHANGED recovering
  /\ UNCHANGED <<state, ledger, auditlog, others>>

-----------------------------------------------------------------------------
(* recover, which the Runtime runs once when it starts *)

Evicts(o) == \E d \in Decisions : o.evict[d] # None

\* Must recovery complete this operation?
Decided(o) ==
  \/ terminal
  \/ Evicts(o) /\ Missing(o) = {}
  \/ state = o.post
  \/ state = o.pre /\ ~Evicts(o) /\ HasEvent(o.event)

\* What a decided operation lacks is written again; one that has left no trace
\* but its intent is cancelled; anything else stays unresolved.
Recover ==
  /\ pc = "start"
  /\ recovering' = TRUE /\ op' = intent
  /\ pc' = IF intent = None THEN "idle"
           ELSE IF Decided(intent) THEN "state"
           ELSE IF state = intent.pre THEN "dismiss" ELSE "idle"
  /\ UNCHANGED <<disk, others>>

\* dismiss_pending: only the reservation of this very event.
Dismiss ==
  /\ pc = "dismiss" /\ Goto("cleanup")
  /\ reserved' = IF reserved = op.event THEN None ELSE reserved
  /\ UNCHANGED <<state, ledger, events, torn, head, intent, terminal, others>>

-----------------------------------------------------------------------------
(* Other threads, and the environment *)

\* RuntimeState.load of a read-only request migrates an old state file: it
\* reads it, and later writes it back in the new schema, outside the log and
\* without its lock, so that operations may come in between.
Quiet == pc = "idle" /\ intent = None

LoadOld == /\ pc \notin {"down", "start"} /\ (pc = "idle" \/ ~recovering)
           /\ state.legacy /\ reader = None
           /\ reader' = state
           /\ UNCHANGED <<disk, proc, overtaken, faults>>

SaveMigrated == /\ reader # None /\ reader' = None
                /\ state' = [reader EXCEPT !.legacy = FALSE]
                /\ overtaken' = (overtaken \/ ~Quiet \/ reader # state)
                /\ UNCHANGED <<ledger, auditlog, intent, terminal, proc, faults>>

\* _write_line is not atomic: interrupted, it may leave a part of the line.
Tear == torn' \in {torn, \/ torn
                         \/ pc = "append" /\ ~HasEvent(op.event)
                         \/ pc = "reconcile" /\ ~HasEvent(reserved)}

\* A write fails, or the ledger or the audit log is full: the caller gets an
\* error and nothing is undone.
Interrupted == /\ faults < MaxFaults /\ faults' = faults + 1 /\ Tear
               /\ UNCHANGED <<state, ledger, events, head, reserved, intent, terminal,
                              overtaken>>

Fail == /\ pc \notin {"idle", "down", "start"} /\ Goto("idle")
        /\ Interrupted /\ UNCHANGED reader

Die == /\ pc' = "down" /\ op' = None /\ recovering' = FALSE /\ reader' = None

Crash == pc # "down" /\ Die /\ Interrupted

Stop  == pc = "idle" /\ Die /\ UNCHANGED <<disk, overtaken, faults>>

Start == pc = "down" /\ Goto("start") /\ UNCHANGED <<disk, others>>

-----------------------------------------------------------------------------
Work == \/ Reconcile \/ ReconcileHead \/ ReconcileClear
        \/ OpenReservation \/ Reserve
        \/ WriteIntent \/ WriteState \/ WriteLedger \/ AppendEvent \/ WriteHead
        \/ ClearReserved \/ WriteTerminal \/ Cleanup \/ Recover \/ Dismiss
        \/ Start

Next == \/ Work \/ LoadOld \/ SaveMigrated \/ Fail \/ Crash \/ Stop
        \/ \E r \in Requests : Begin(r)

Spec == Init /\ [][Next]_vars

-----------------------------------------------------------------------------
(* Properties *)

\* Types; and an operation is at hand exactly while one is worked on.
TypeOK ==
  /\ state \in Contents
  /\ ledger \in [Decisions -> Payloads \union {None}]
  /\ events \in Seq(Events) /\ torn \in BOOLEAN /\ head \in 0..MaxEvents
  /\ reserved \in Events \union {None, Torn}
  /\ intent \in Operations \union {None} /\ terminal \in BOOLEAN
  /\ op \in Operations \union {None} /\ recovering \in BOOLEAN
  /\ reader \in Contents \union {None} /\ overtaken \in BOOLEAN
  /\ faults \in 0..MaxFaults
  /\ pc \in {"reserve", "open", "reconcile", "reconcileHead", "reconcileClear",
             "intent", "state", "ledger", "append", "head", "clear", "terminal",
             "cleanup", "dismiss"} => op # None

\* The store as it is once recovery has run: a decided operation counts.
Pending   == intent # None /\ Decided(intent)
Effective == IF Pending THEN intent.post ELSE state
Answer(d) == IF Effective.completed[d] # None THEN Effective.completed[d]
             ELSE IF ledger[d] = None /\ Pending THEN intent.evict[d]
             ELSE ledger[d]

Store == INSTANCE DecisionStore WITH
           answer <- [d \in Decisions |-> Answer(d)],
           open   <- Effective.pending,
           mode   <- Effective.mode

\* Each operation takes effect at once or not at all, and nothing that took
\* effect is ever undone, but by a migration that overtakes an operation: no
\* decision is forgotten between the state file it leaves and the ledger it goes
\* to, so no feedback is accepted twice.
Durable == Store!Init /\ [][overtaken' \/ Store!Next]_(Store!vars)

\* The decisions and answers the stores show without a line in the audit log.
Shows(r) == \/ r.type = "register" /\ (r.id \in Effective.pending \/ Answer(r.id) # None)
            \/ r.type = "feedback" /\ Answer(r.id) = r.payload
Unaudited == {r \in Requests : Shows(r) /\ \A i \in 1..Len(events) : events[i].request # r}

\* With no operation pending, every decision and every answer has its line in
\* the audit log; a torn line costs one of them at most, for no operation is
\* accepted after it.
ChangesAreAudited == Quiet /\ ~overtaken => \A r, s \in Unaudited : torn /\ r = s

\* The audit chain verifies once nothing is pending and nothing reserved, or what
\* was reserved has been reconciled.
ChainVerifies ==
  ~torn /\ ((Quiet /\ reserved = None) \/ pc = "reconcileClear") =>
    Verified /\ \A i \in 1..Len(events) : events[i].seq = i

\* recover finds the state file as the operation found or left it, and no other
\* tombstone where the operation owes one: it leaves no operation unresolved.
Resolvable ==
  pc = "start" /\ intent # None =>
    /\ Decided(intent) \/ state = intent.pre
    /\ Decided(intent) => \A d \in Missing(intent) : ledger[d] = None

\* Only three things fence the Runtime's operations for good: a reservation torn
\* while it was written, a torn audit line, and a migration that overtakes an
\* operation.  After any other interruption recover resolves what is pending and
\* the next operation finds a chain that verifies.
OnlyTearingFences == ~overtaken => ChainVerifies /\ Resolvable
=============================================================================
