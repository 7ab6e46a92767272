------------------------- MODULE OperationLogProofs -------------------------
(***************************************************************************)
(* What the write-ahead log keeps, for any number of decisions, answers,   *)
(* events and faults: every change has its line in the audit log, or is    *)
(* the one whose line was torn, recover can tell what became of an         *)
(* interrupted operation, and operations take effect at once.  All of it   *)
(* as long as no migration of an old state file overtakes an operation,    *)
(* which the code has no lock against.                                     *)
(***************************************************************************)
EXTENDS OperationLog, FiniteSetTheorems, TLAPS

USE DEF others, Interrupted

-----------------------------------------------------------------------------
(* The inductive invariant *)

Early == {"reconcile", "reconcileHead", "reconcileClear", "open", "reserve",
          "intent"}
Late  == {"state", "ledger", "append", "head", "clear", "terminal", "cleanup",
          "dismiss"}
Pcs   == Early \union Late \union {"idle", "down", "start"}

Fresh(e)    == e.seq = Len(events) + 1
Appended(e) == Len(events) > 0 /\ events[Len(events)] = e

\* What of an event is in the log, as far as that can be read.
Logged(e) == Appended(e) \/ torn

\* The chain: numbers without gaps, and, while no line is torn, a head that is at
\* most one line behind, and only while the reservation says which line that is.
LogInv ==
  /\ \A i \in 1..Len(events) : events[i].seq = i
  /\ reserved \in Events => Fresh(reserved) \/ Appended(reserved)
  /\ ~torn =>
       /\ reserved \in {None, Torn} => head = Len(events)
       /\ reserved \in Events =>
            \/ Fresh(reserved) /\ head = Len(events)
            \/ Appended(reserved) /\ head \in {Len(events) - 1, Len(events)}

\* An operation under way before its intent is written.
EarlyInv ==
  pc \in Early =>
    /\ intent = None
    /\ op \in Operations /\ state = op.pre
    /\ pc \in {"reconcile", "reconcileHead", "reconcileClear"} =>
         reserved \in Events /\ reserved.seq < MaxEvents
    /\ pc \in {"reconcileHead", "reconcileClear"} => Logged(reserved)
    /\ pc = "reconcileClear" => torn \/ head = Len(events)
    /\ pc \in {"open", "reserve", "intent"} => ~torn /\ Fresh(op.event)
    /\ pc = "open" => reserved = None
    /\ pc = "reserve" => reserved = Torn
    /\ pc = "intent" => reserved = op.event

\* An operation under way after that, in execute or in recover.
LateInv ==
  pc \in Late =>
    /\ intent # None /\ op = intent
    /\ pc \in {"ledger", "append", "head", "clear", "terminal"} =>
         state = intent.post
    /\ pc \in {"state", "ledger", "append"} =>
         reserved = intent.event \/ Logged(intent.event)
    /\ pc \in {"head", "clear", "terminal"} => Logged(intent.event)
    /\ pc = "clear" => torn \/ head = Len(events)
    /\ pc = "cleanup" => Logged(intent.event)
                         \/ (reserved = None /\ ~Decided(intent))
    /\ pc = "dismiss" => ~Decided(intent)

\* What the files say of a pending operation, wherever it was interrupted.  Only
\* its own line can be the torn one: none is accepted after a torn line.
IntentInv ==
  /\ intent = None => terminal = FALSE
  /\ intent # None =>
       /\ state \in {intent.pre, intent.post}
       /\ reserved \in {None, intent.event}
       /\ Fresh(intent.event) \/ Appended(intent.event)
       /\ Logged(intent.event) => state = intent.post
       /\ reserved = None => Logged(intent.event) \/ ~Decided(intent)
       /\ terminal => Logged(intent.event)

Said == {events[i].request : i \in 1..Len(events)}

Register(d)    == [type |-> "register", id |-> d]
Feedback(d, p) == [type |-> "feedback", id |-> d, payload |-> p]

\* The requests R account for the state s and the tombstones l.
Covered(s, l, R) ==
  \A d \in Decisions :
    /\ d \in s.pending => Register(d) \in R
    /\ s.completed[d] # None =>
         Register(d) \in R /\ Feedback(d, s.completed[d]) \in R
    /\ l[d] # None => Register(d) \in R /\ Feedback(d, l[d]) \in R

\* The request of a pending operation counts once the state file shows it.
Shown == IF intent # None /\ state = intent.post
           THEN {intent.event.request} ELSE {}

\* No request, or the one whose line was torn.
Lost == {L \in SUBSET Requests : \A r, s \in L : torn /\ r = s}

AuditInv ==
  /\ intent = None =>
       \E L \in Lost : Covered(state, ledger, Said \union L)
  /\ intent # None =>
       /\ Covered(state, ledger, Said \union Shown)
       /\ Covered(intent.post, intent.evict, Said \union {intent.event.request})
  /\ pc \in Early /\ ~torn =>
       Covered(op.post, op.evict, Said \union {op.event.request})

OpInv == /\ TypeOK /\ pc \in Pcs /\ LogInv /\ EarlyInv /\ LateInv
         /\ IntentInv /\ AuditInv

-----------------------------------------------------------------------------
(* The operations and the audit log *)

\* Whatever a request does to the state file and the ledger, they keep their
\* types.
LEMMA EffectsTyped ==
  ASSUME TypeOK, NEW r \in Requests, NEW eff \in Effects(r)
  PROVE  eff.post \in Contents
         /\ eff.evict \in [Decisions -> Payloads \union {None}]
<1>s. state \in Contents
  BY DEF TypeOK
<1>n. NoAnswers \in [Decisions -> Payloads \union {None}]
  BY DEF NoAnswers
<1>1. CASE r.type = "register"
  <2>1. r.id \in Decisions /\ eff \in Registered(r.id)
    BY <1>1 DEF Requests, Effects
  <2>2. eff = [post |-> [state EXCEPT !.pending = @ \union {r.id}],
               evict |-> NoAnswers]
    BY <2>1 DEF Registered
  <2> QED BY <1>s, <1>n, <2>1, <2>2 DEF Contents
<1>2. CASE r.type = "feedback"
  <2>1. r.id \in Decisions /\ r.payload \in Payloads
        /\ eff \in Answered(r.id, r.payload)
    BY <1>2 DEF Requests, Effects
  <2> DEFINE full == [state EXCEPT !.pending = @ \ {r.id},
                                   !.completed[r.id] = r.payload]
  <2>2. full \in Contents
    BY <1>s, <2>1 DEF Contents
  <2>3. PICK E \in SUBSET Completed(full) :
          eff = [post  |-> [full EXCEPT !.completed =
                              [e \in Decisions |-> IF e \in E THEN None ELSE @[e]]],
                 evict |-> [e \in Decisions |->
                              IF e \in E THEN full.completed[e] ELSE None]]
    BY <2>1 DEF Answered
  <2> HIDE DEF full
  <2>4. full.completed \in [Decisions -> Payloads \union {None}]
    BY <2>2 DEF Contents
  <2>5. eff.post \in Contents
    BY <2>2, <2>3, <2>4 DEF Contents
  <2> QED BY <2>3, <2>4, <2>5
<1>3. CASE r.type = "mode"
  <2>1. r.mode \in Modes
        /\ eff = [post |-> [state EXCEPT !.mode = r.mode], evict |-> NoAnswers]
    BY <1>3 DEF Requests, Effects
  <2> QED BY <1>s, <1>n, <2>1 DEF Contents
<1> QED BY <1>1, <1>2, <1>3 DEF Requests

\* An operation adds nothing that neither its own request nor what the stores
\* hold already accounts for; what it evicts was in the state file.
LEMMA EffectsCovered ==
  ASSUME TypeOK, NEW r \in Requests, NEW eff \in Effects(r), NEW R,
         Covered(state, ledger, R)
  PROVE  Covered(eff.post, eff.evict, R \union {r})
<1>s. state \in Contents
  BY DEF TypeOK
<1>1. CASE r.type = "register"
  <2>1. r.id \in Decisions /\ eff \in Registered(r.id) /\ r = Register(r.id)
    BY <1>1 DEF Requests, Effects, Register
  <2>2. eff = [post |-> [state EXCEPT !.pending = @ \union {r.id}],
               evict |-> NoAnswers]
    BY <2>1 DEF Registered
  <2> QED BY <1>s, <2>1, <2>2 DEF Contents, Covered, NoAnswers
<1>2. CASE r.type = "feedback"
  <2>1. r.id \in Decisions /\ r.payload \in Payloads
        /\ eff \in Answered(r.id, r.payload) /\ r = Feedback(r.id, r.payload)
    BY <1>2 DEF Requests, Effects, Feedback
  <2> DEFINE full == [state EXCEPT !.pending = @ \ {r.id},
                                   !.completed[r.id] = r.payload]
  <2>2. full \in Contents /\ r.id \in state.pending
    BY <1>s, <2>1 DEF Contents, Answered
  <2>3. PICK E \in SUBSET Completed(full) :
          eff = [post  |-> [full EXCEPT !.completed =
                              [e \in Decisions |-> IF e \in E THEN None ELSE @[e]]],
                 evict |-> [e \in Decisions |->
                              IF e \in E THEN full.completed[e] ELSE None]]
    BY <2>1 DEF Answered
  <2>4. \A d \in Decisions :
          /\ d \in full.pending => Register(d) \in R
          /\ full.completed[d] # None =>
               Register(d) \in R
               /\ Feedback(d, full.completed[d]) \in R \union {r}
    BY <1>s, <2>1, <2>2 DEF Contents, Covered
  <2> HIDE DEF full
  <2>5. eff.post.pending = full.pending
        /\ \A d \in Decisions :
             /\ eff.post.completed[d] \in {None, full.completed[d]}
             /\ eff.evict[d] \in {None, full.completed[d]}
    BY <2>2, <2>3 DEF Contents
  <2> QED BY <2>4, <2>5 DEF Covered
<1>3. CASE r.type = "mode"
  <2>1. eff = [post |-> [state EXCEPT !.mode = r.mode], evict |-> NoAnswers]
    BY <1>3 DEF Requests, Effects
  <2> QED BY <1>s, <2>1 DEF Contents, Covered, NoAnswers
<1> QED BY <1>1, <1>2, <1>3 DEF Requests

\* An event with the next number is not in the log; the last one is.
LEMMA Place ==
  ASSUME TypeOK, LogInv, NEW e \in Events
  PROVE  /\ Appended(e) => HasEvent(e) /\ e.seq = Len(events)
         /\ Fresh(e) => ~HasEvent(e)
  BY DEF TypeOK, LogInv, Appended, Fresh, HasEvent

\* Appending such an event, once, makes it the last of a chain without gaps; once a
\* line is torn nothing can be added.
LEMMA Appending ==
  ASSUME TypeOK, LogInv, NEW e \in Events, Fresh(e) \/ Appended(e),
         events' = Append_(e)
  PROVE  /\ events' \in Seq(Events)
         /\ \A i \in 1..Len(events') : events'[i].seq = i
         /\ Said \subseteq Said'
         /\ torn => events' = events
         /\ ~torn => /\ Len(events') > 0 /\ events'[Len(events')] = e
                    /\ e.seq = Len(events')
<1>t. events \in Seq(Events)
  BY DEF TypeOK
<1>1. CASE Appended(e) \/ torn
  <2>1. events' = events
    BY <1>1, Place DEF Append_
  <2> QED BY <1>t, <1>1, <2>1, Place DEF LogInv, Appended, Said
<1>2. CASE Fresh(e) /\ ~torn
  <2>1. events' = Append(events, e)
    BY <1>2, Place DEF Append_
  <2>2. Len(events') = Len(events) + 1 /\ events' \in Seq(Events)
        /\ events'[Len(events) + 1] = e
        /\ \A i \in 1..Len(events) : events'[i] = events[i]
    BY <1>t, <2>1
  <2>3. \A i \in 1..Len(events') : events'[i].seq = i
    BY <1>t, <1>2, <2>2 DEF LogInv, Fresh
  <2>4. Said \subseteq Said'
    BY <1>t, <2>2 DEF Said
  <2> QED BY <1>t, <1>2, <2>2, <2>3, <2>4 DEF Fresh
<1> QED BY <1>1, <1>2

\* A torn line stays torn.
LEMMA Tearing ==
  ASSUME Tear, torn \in BOOLEAN PROVE torn' \in BOOLEAN /\ (torn => torn')
<1>1. CASE torn' = torn
  BY <1>1
<1>2. CASE torn' = (\/ torn
                    \/ pc = "append" /\ ~HasEvent(op.event)
                    \/ pc = "reconcile" /\ ~HasEvent(reserved))
  BY <1>2
<1> QED BY <1>1, <1>2 DEF Tear

\* A migration that overtakes no operation finds the file as it was read.
LEMMA Migrating ==
  ASSUME SaveMigrated, ~overtaken'
  PROVE  /\ pc = "idle" /\ intent = None /\ reader = state
         /\ state' = [state EXCEPT !.legacy = FALSE]
         /\ UNCHANGED <<ledger, auditlog, intent, terminal, proc>>
  BY DEF SaveMigrated, Quiet

-----------------------------------------------------------------------------
(* The invariant at the start *)

\* The stores begin empty and the log without a line.
LEMMA Initially == Init => OpInv
<1> SUFFICES ASSUME Init PROVE OpInv
  OBVIOUS
<1> USE DEF Init
<1>1. TypeOK
  <2>1. state \in Contents /\ ledger \in [Decisions -> Payloads \union {None}]
    BY BoundsOK DEF Contents, NoAnswers
  <2>2. events \in Seq(Events) /\ head \in 0..MaxEvents /\ faults \in 0..MaxFaults
    BY BoundsOK
  <2> QED BY <2>1, <2>2 DEF TypeOK
<1>2. pc \in Pcs /\ EarlyInv /\ LateInv /\ IntentInv
  BY DEF Pcs, Early, Late, EarlyInv, LateInv, IntentInv
<1>3. LogInv
  BY BoundsOK DEF LogInv
<1>4. AuditInv
  <2>1. Covered(state, ledger, Said \union {}) /\ {} \in Lost
    BY DEF Covered, NoAnswers, Lost
  <2> QED BY <2>1 DEF AuditInv, Early
<1> QED BY <1>1, <1>2, <1>3, <1>4 DEF OpInv

-----------------------------------------------------------------------------
(* Each action preserves it *)

\* Every step keeps the types: the numbers of new events stay within the bound
\* because Begin leaves room for what reconcile may have to append.
LEMMA TypeStep == ASSUME OpInv, Next, ~overtaken' PROVE TypeOK' /\ pc' \in Pcs
<1> USE DEF OpInv
<1>t. /\ state \in Contents
      /\ ledger \in [Decisions -> Payloads \union {None}]
      /\ events \in Seq(Events) /\ torn \in BOOLEAN /\ head \in 0..MaxEvents
      /\ reserved \in Events \union {None, Torn}
      /\ intent \in Operations \union {None} /\ terminal \in BOOLEAN
      /\ op \in Operations \union {None} /\ recovering \in BOOLEAN
      /\ reader \in Contents \union {None} /\ overtaken \in BOOLEAN
      /\ faults \in 0..MaxFaults
      /\ pc \in Early \union Late => op \in Operations
  BY DEF TypeOK, EarlyInv, LateInv
<1>n. None \notin Events \union Contents \union Operations /\ MaxEvents \in Nat
      /\ MaxFaults \in Nat /\ Torn \notin Events \union {None}
  BY BoundsOK
<1>1. ASSUME NEW r \in Requests, Begin(r) PROVE TypeOK' /\ pc' \in Pcs
  <2>1. PICK eff \in Effects(r) :
          op' = [pre |-> state, post |-> eff.post, evict |-> eff.evict,
                 event |-> BuildEvent(r)]
    BY <1>1 DEF Begin
  <2>2. Len(events) < MaxEvents
    <3>1. Len(events) + Cardinality({reserved} \ {None}) < MaxEvents
      BY <1>1 DEF Begin
    <3>2. {reserved} \ {None} = {} \/ {reserved} \ {None} = {reserved}
      OBVIOUS
    <3>3. Cardinality({reserved} \ {None}) \in {0, 1}
      BY <3>2, FS_EmptySet, FS_Singleton
    <3> QED BY <1>t, <1>n, <3>1, <3>3
  <2>3. BuildEvent(r) \in Events
    BY <1>t, <1>n, <2>2 DEF BuildEvent, Events
  <2>4. op' \in Operations
    BY <1>t, <2>1, <2>3, EffectsTyped DEF Operations
  <2> QED BY <1>1, <1>t, <1>n, <2>4 DEF Begin, TypeOK, disk, Pcs, Early
<1>2. CASE Reconcile \/ AppendEvent
  <2>1. CASE Reconcile
    <3>1. reserved \in Events /\ (Fresh(reserved) \/ Appended(reserved))
      BY <2>1 DEF Reconcile, EarlyInv, LogInv, Early
    <3>2. events' \in Seq(Events)
      BY <2>1, <3>1, Appending DEF Reconcile
    <3> QED BY <2>1, <1>t, <3>2 DEF Reconcile, Goto, TypeOK, Pcs, Early
  <2>2. CASE AppendEvent
    <3>1. op.event \in Events /\ (Fresh(op.event) \/ Appended(op.event))
          /\ op \in Operations
      BY <2>2, <1>t DEF AppendEvent, LateInv, IntentInv, Late, Operations
    <3>2. events' \in Seq(Events)
      BY <2>2, <3>1, Appending DEF AppendEvent
    <3> QED BY <2>2, <1>t, <1>n, <3>1, <3>2 DEF AppendEvent, Goto, TypeOK, Pcs, Late
  <2> QED BY <1>2, <2>1, <2>2
<1>3. CASE ReconcileHead
  <2>1. reserved \in Events
    BY <1>3 DEF ReconcileHead, EarlyInv, Early
  <2> QED BY <1>3, <1>t, <1>n, <2>1 DEF ReconcileHead, Goto, TypeOK, Pcs, Early, Events
<1>4. CASE ReconcileClear
  <2>1. reserved \in Events /\ reserved.seq < MaxEvents
        /\ (Fresh(reserved) \/ Appended(reserved)) /\ op \in Operations
    BY <1>4 DEF ReconcileClear, EarlyInv, Early, LogInv
  <2>2. Len(events) + 1 \in 1..MaxEvents
    BY <1>t, <1>n, <2>1, Place DEF Events, Fresh
  <2>3. op' \in Operations
    BY <1>4, <2>1, <2>2 DEF ReconcileClear, Operations, Events
  <2> QED BY <1>4, <1>t, <1>n, <2>3 DEF ReconcileClear, TypeOK, Pcs, Early
<1>5. CASE OpenReservation \/ Reserve \/ WriteIntent \/ WriteState
  <2>1. op \in Operations /\ op.event \in Events /\ op.post \in Contents
    BY <1>5, <1>t DEF OpenReservation, Reserve, WriteIntent, WriteState, Early, Late,
                Operations
  <2> QED BY <1>5, <1>t, <1>n, <2>1
          DEF OpenReservation, Reserve, WriteIntent, WriteState, Goto, TypeOK,
              auditlog, Pcs, Early, Late
<1>6. CASE WriteLedger
  <2>1. op \in Operations /\ op.evict \in [Decisions -> Payloads \union {None}]
    BY <1>6, <1>t DEF WriteLedger, Early, Late, Operations
  <2>2. ledger' \in [Decisions -> Payloads \union {None}]
        /\ pc' \in {"ledger", "append", "idle"}
        /\ UNCHANGED <<op, recovering>>
    BY <1>6, <1>t, <2>1 DEF WriteLedger, Goto, Missing
  <2> QED BY <1>6, <1>t, <1>n, <2>1, <2>2 DEF WriteLedger, TypeOK, auditlog, Pcs, Late
<1>7. CASE WriteHead
  <2>1. op \in Operations /\ op.event \in Events /\ op.event.seq \in 0..MaxEvents
    BY <1>7, <1>t, <1>n DEF WriteHead, Early, Late, Operations, Events
  <2> QED BY <1>7, <1>t, <1>n, <2>1 DEF WriteHead, Goto, TypeOK, Pcs, Late
<1>8. CASE ClearReserved \/ WriteTerminal \/ Dismiss
  <2>1. op \in Operations
    BY <1>8, <1>t DEF ClearReserved, WriteTerminal, Dismiss, Late
  <2> QED BY <1>8, <1>t, <1>n, <2>1
          DEF ClearReserved, WriteTerminal, Dismiss, Goto, TypeOK, auditlog, Pcs, Late
<1>9. CASE Cleanup \/ Crash \/ Stop \/ Start \/ Fail
  <2>1. CASE Cleanup \/ Stop \/ Start
    BY <2>1, <1>t, <1>n DEF Cleanup, Stop, Start, Die, Goto, TypeOK, disk, auditlog, Pcs
  <2>2. CASE Crash \/ Fail
    <3>1. faults' \in 0..MaxFaults /\ torn' \in BOOLEAN
      BY <2>2, <1>t, <1>n, Tearing DEF Crash, Fail
    <3> QED BY <2>2, <3>1, <1>t, <1>n DEF Crash, Fail, Die, Goto, TypeOK, disk, Pcs
  <2> QED BY <1>9, <2>1, <2>2
<1>10. CASE Recover
  BY <1>10, <1>t, <1>n DEF Recover, TypeOK, disk, Pcs, Late
<1>11. CASE LoadOld \/ SaveMigrated
  <2>1. state' \in Contents /\ reader' \in Contents \union {None}
        /\ overtaken' \in BOOLEAN
    BY <1>11, <1>t DEF LoadOld, SaveMigrated, Contents, disk
  <2> QED BY <1>11, <1>t, <1>n, <2>1
          DEF LoadOld, SaveMigrated, disk, auditlog, proc, TypeOK
<1> QED BY <1>1, <1>2, <1>3, <1>4, <1>5, <1>6, <1>7, <1>8, <1>9, <1>10, <1>11
        DEF Next, Work

\* The audit log stays a chain, one line ahead of its head at most.
LEMMA LogStep == ASSUME OpInv, Next, ~overtaken' PROVE LogInv'
<1> USE DEF OpInv
<1>t. /\ events \in Seq(Events) /\ head \in 0..MaxEvents
      /\ Len(events) \in Nat
      /\ reserved \in Events \union {None, Torn}
      /\ intent \in Operations \union {None} /\ op \in Operations \union {None}
      /\ pc \in Early \union Late => op \in Operations /\ op.event \in Events
  BY DEF TypeOK, EarlyInv, LateInv, Operations
<1>n. None \notin Events /\ Torn \notin Events \union {None}
  BY BoundsOK
<1>1. CASE Reconcile \/ AppendEvent
  <2>1. CASE Reconcile
    <3>1. reserved \in Events /\ (Fresh(reserved) \/ Appended(reserved))
      BY <2>1 DEF Reconcile, EarlyInv, LogInv, Early
    <3>2. /\ events' = Append_(reserved) /\ reserved' = reserved /\ head' = head
          /\ torn' = torn
      BY <2>1 DEF Reconcile
    <3>3. /\ \A i \in 1..Len(events') : events'[i].seq = i
          /\ torn => events' = events
          /\ ~torn => /\ Len(events') > 0 /\ events'[Len(events')] = reserved
                     /\ reserved.seq = Len(events')
      BY <3>1, <3>2, Appending
    <3>4. CASE torn
      BY <3>1, <3>2, <3>3, <3>4 DEF LogInv, Fresh, Appended
    <3>5. CASE ~torn
      <4>1. head \in {Len(events') - 1, Len(events')}
        BY <1>t, <1>n, <3>1, <3>3, <3>5, Place DEF LogInv, Fresh
      <4> QED BY <1>n, <3>1, <3>2, <3>3, <3>5, <4>1 DEF LogInv, Appended
    <3> QED BY <3>4, <3>5
  <2>2. CASE AppendEvent
    <3>1. /\ op.event \in Events /\ (Fresh(op.event) \/ Appended(op.event))
          /\ reserved \in {None, op.event}
          /\ reserved = op.event \/ Logged(op.event)
      BY <2>2, <1>t DEF AppendEvent, LateInv, IntentInv, Late
    <3>2. events' = Append_(op.event) /\ reserved' = reserved /\ head' = head
          /\ torn' = torn
      BY <2>2 DEF AppendEvent
    <3>3. /\ \A i \in 1..Len(events') : events'[i].seq = i
          /\ torn => events' = events
          /\ ~torn => /\ Len(events') > 0 /\ events'[Len(events')] = op.event
                     /\ op.event.seq = Len(events')
      BY <3>1, <3>2, Appending
    <3>4. CASE torn
      BY <3>1, <3>2, <3>3, <3>4 DEF LogInv, Fresh, Appended
    <3>5. CASE ~torn /\ reserved = op.event
      <4>1. head \in {Len(events') - 1, Len(events')}
        BY <1>t, <1>n, <3>1, <3>3, <3>5, Place DEF LogInv, Fresh
      <4> QED BY <1>n, <3>1, <3>2, <3>3, <3>5, <4>1 DEF LogInv, Appended
    <3>6. CASE ~torn /\ reserved = None
      <4>1. events' = events
        BY <1>n, <3>1, <3>2, <3>6, Place DEF Append_, Logged
      <4> QED BY <1>n, <3>2, <3>6, <4>1 DEF LogInv
    <3> QED BY <3>1, <3>4, <3>5, <3>6
  <2> QED BY <1>1, <2>1, <2>2
<1>2. CASE ReconcileHead \/ WriteHead
  <2>1. CASE ReconcileHead
    <3>1. /\ reserved \in Events /\ Logged(reserved) /\ torn' = torn
          /\ Appended(reserved) => reserved.seq = Len(events)
          /\ UNCHANGED <<events, reserved>>
      BY <2>1, Place DEF ReconcileHead, EarlyInv, Early
    <3> QED BY <1>t, <1>n, <2>1, <3>1
            DEF ReconcileHead, LogInv, Appended, Fresh, Logged
  <2>2. CASE WriteHead
    <3>1. /\ op.event \in Events /\ Logged(op.event) /\ torn' = torn
          /\ Appended(op.event) => op.event.seq = Len(events)
          /\ reserved \in {None, op.event} /\ UNCHANGED <<events, reserved>>
      BY <2>2, <1>t, Place DEF WriteHead, LateInv, Late, IntentInv
    <3> QED BY <1>t, <1>n, <2>2, <3>1 DEF WriteHead, LogInv, Appended, Fresh, Logged
  <2> QED BY <1>2, <2>1, <2>2
<1>3. CASE ReconcileClear \/ ClearReserved
  <2>1. torn \/ head = Len(events)
    BY <1>3 DEF ReconcileClear, ClearReserved, EarlyInv, LateInv, Early, Late
  <2> QED BY <1>3, <1>n, <2>1 DEF ReconcileClear, ClearReserved, LogInv
<1>4. CASE OpenReservation
  BY <1>4, <1>n DEF OpenReservation, LogInv, EarlyInv, Early
<1>5. CASE Reserve
  <2>1. /\ op.event \in Events /\ Fresh(op.event) /\ head = Len(events) /\ ~torn
    BY <1>5, <1>t DEF Reserve, LogInv, EarlyInv, Early
  <2> QED BY <1>5, <1>n, <2>1 DEF Reserve, LogInv, Fresh
<1>6. CASE Dismiss
  <2>1. CASE reserved = op.event
    <3>1. op.event \in Events /\ ~Logged(op.event)
      <4>1. op \in Operations /\ op = intent /\ ~Decided(intent)
            /\ op.event \in Events
        BY <1>6, <1>t DEF Dismiss, LateInv, Late
      <4>2. Logged(intent.event) => state = intent.post
        BY <1>n, <4>1, BoundsOK DEF IntentInv
      <4> QED BY <4>1, <4>2 DEF Decided
    <3>2. head = Len(events)
      BY <2>1, <3>1 DEF LogInv, Logged
    <3> QED BY <1>6, <1>n, <2>1, <3>2 DEF Dismiss, LogInv
  <2>2. CASE reserved # op.event
    BY <1>6, <2>2 DEF Dismiss, LogInv, Fresh, Appended
  <2> QED BY <2>1, <2>2
<1>7. CASE UNCHANGED auditlog
  BY <1>7 DEF auditlog, LogInv, Fresh, Appended
<1>8. (\E r \in Requests : Begin(r)) \/ WriteIntent \/ WriteState \/ WriteLedger
      \/ WriteTerminal \/ Cleanup \/ Recover \/ Start \/ LoadOld \/ SaveMigrated
      \/ Stop => UNCHANGED auditlog
  BY DEF Begin, WriteIntent, WriteState, WriteLedger, WriteTerminal, Cleanup,
         Recover, Start, LoadOld, SaveMigrated, Stop, disk, auditlog
<1>9. CASE Fail \/ Crash
  <2>1. UNCHANGED <<events, head, reserved>> /\ (torn => torn')
    BY <1>9 DEF Fail, Crash, Tear
  <2> QED BY <2>1 DEF LogInv, Fresh, Appended
<1> QED BY <1>1, <1>2, <1>3, <1>4, <1>5, <1>6, <1>7, <1>8, <1>9 DEF Next, Work

\* A step that begins or carries on an operation finds what it needs.
LEMMA EarlyStep == ASSUME OpInv, Next, ~overtaken' PROVE EarlyInv'
<1> USE DEF OpInv
<1>t. /\ events \in Seq(Events) /\ Len(events) \in Nat
      /\ reserved \in Events \union {None, Torn}
      /\ pc \in Early \union Late => op \in Operations /\ op.event \in Events
  BY DEF TypeOK, EarlyInv, LateInv, Operations
<1>n. None \notin Events \union Operations /\ Torn \notin Events \union {None}
      /\ MaxEvents \in Nat
  BY BoundsOK
<1>o. TypeOK'
  BY TypeStep
<1>1. ASSUME NEW r \in Requests, Begin(r) PROVE EarlyInv'
  <2>1. PICK eff \in Effects(r) :
          op' = [pre |-> state, post |-> eff.post, evict |-> eff.evict,
                 event |-> BuildEvent(r)]
    BY <1>1 DEF Begin
  <2>2. op' \in Operations /\ op'.event.seq = Len(events) + 1 /\ op'.pre = state
    BY <1>o, <1>n, <1>1, <2>1 DEF TypeOK, Begin, BuildEvent
  <2>3. CASE reserved = None
    BY <1>1, <2>2, <2>3 DEF Begin, EarlyInv, Early, Fresh, disk, Verified
  <2>4. CASE reserved # None
    <3>1. reserved \in Events /\ pc' = "reconcile"
      BY <1>1, <1>t, <2>4 DEF Begin
    <3>2. Len(events) + 1 < MaxEvents
      <4>1. {reserved} \ {None} = {reserved}
        BY <2>4
      <4> QED BY <1>1, <4>1, FS_Singleton DEF Begin
    <3>3. reserved.seq < MaxEvents
      BY <1>t, <1>n, <3>1, <3>2, Place DEF LogInv, Fresh
    <3> QED BY <1>1, <2>2, <3>1, <3>3 DEF Begin, EarlyInv, Early, disk
  <2> QED BY <2>3, <2>4
<1>2. CASE Reconcile
  <2>1. /\ reserved \in Events /\ (Fresh(reserved) \/ Appended(reserved))
        /\ op \in Operations /\ state = op.pre /\ intent = None
        /\ reserved.seq < MaxEvents /\ events' = Append_(reserved)
    BY <1>2 DEF Reconcile, EarlyInv, LogInv, Early
  <2>2. torn \/ (Len(events') > 0 /\ events'[Len(events')] = reserved)
    BY <2>1, Appending
  <2> QED BY <1>2, <2>1, <2>2 DEF Reconcile, Goto, EarlyInv, Early, Appended, Logged
<1>3. CASE ReconcileHead
  <2>1. /\ reserved \in Events /\ Logged(reserved)
        /\ Appended(reserved) => reserved.seq = Len(events)
        /\ op \in Operations /\ state = op.pre /\ intent = None
        /\ reserved.seq < MaxEvents
    BY <1>3, Place DEF ReconcileHead, EarlyInv, Early
  <2> QED BY <1>3, <2>1 DEF ReconcileHead, Goto, EarlyInv, Early, Appended, Logged
<1>4. CASE ReconcileClear
  <2>1. /\ op \in Operations /\ state = op.pre /\ intent = None
        /\ reserved \in Events /\ reserved.seq < MaxEvents
        /\ Fresh(reserved) \/ Appended(reserved)
    BY <1>4 DEF ReconcileClear, EarlyInv, Early, LogInv
  <2>2. /\ op' \in Operations /\ op'.pre = op.pre
        /\ op'.event.seq = Len(events) + 1
    <3>1. Len(events) + 1 \in 1..MaxEvents
      BY <1>t, <1>n, <2>1, Place DEF Events, Fresh
    <3>2. op' = [op EXCEPT !.event.seq = Len(events) + 1]
      BY <1>4 DEF ReconcileClear
    <3> QED BY <2>1, <3>1, <3>2 DEF Operations, Events
  <2>3. UNCHANGED <<state, events, torn, intent>> /\ reserved' = None
    BY <1>4 DEF ReconcileClear
  <2>4. pc' \in Early => pc' = "open" /\ ~torn'
    <3>1. CASE Verified
      <4>1. pc' = "open" /\ ~torn
        BY <1>4, <3>1 DEF ReconcileClear, Verified
      <4> QED BY <2>3, <4>1
    <3>2. CASE ~Verified
      <4>1. pc' = "idle"
        BY <1>4, <3>2 DEF ReconcileClear
      <4> QED BY <4>1 DEF Early
    <3> QED BY <3>1, <3>2
  <2>5. CASE pc' = "open" /\ ~torn'
    <3>1. state' = op'.pre /\ intent' = None /\ op' \in Operations
      BY <2>1, <2>2, <2>3
    <3>2. Fresh(op.event)'
      BY <2>2, <2>3 DEF Fresh
    <3> QED BY <2>3, <2>5, <3>1, <3>2 DEF EarlyInv
  <2> QED BY <2>4, <2>5 DEF EarlyInv
<1>5. CASE OpenReservation
  BY <1>5 DEF OpenReservation, Goto, EarlyInv, Early, Fresh
<1>6. CASE Reserve
  BY <1>6 DEF Reserve, Goto, EarlyInv, Early, Fresh
<1>7. pc' \in Early =>
        (\E r \in Requests : Begin(r)) \/ Reconcile \/ ReconcileHead
        \/ ReconcileClear \/ OpenReservation \/ Reserve \/ SaveMigrated \/ LoadOld
  BY DEF Next, Work, WriteIntent, WriteState, WriteLedger, AppendEvent,
         WriteHead, ClearReserved, WriteTerminal, Cleanup, Recover, Dismiss, Start,
         Fail, Crash, Stop, Die, Goto, Early
<1>8. CASE LoadOld \/ SaveMigrated
  <2>1. pc = "idle" \/ LoadOld
    BY <1>8, Migrating
  <2> QED BY <1>8, <2>1
          DEF LoadOld, SaveMigrated, EarlyInv, Early, Fresh, Appended, Logged, proc,
              disk, auditlog
<1> QED BY <1>1, <1>2, <1>3, <1>4, <1>5, <1>6, <1>7, <1>8 DEF EarlyInv

\* What recovery would decide depends on the files alone.
LEMMA DecidedStable ==
  ASSUME UNCHANGED <<state, ledger, events, terminal>>, NEW o \in Operations
  PROVE  Decided(o)' <=> Decided(o)
  BY DEF Decided, Evicts, Missing, HasEvent

\* An operation at work stays the pending one, and each of its writes follows
\* on those before it.
LEMMA LateStep == ASSUME OpInv, Next, ~overtaken' PROVE LateInv'
<1> USE DEF OpInv
<1>t. /\ events \in Seq(Events) /\ Len(events) \in Nat
      /\ reserved \in Events \union {None, Torn}
      /\ intent \in Operations \union {None}
      /\ \A o \in Operations : o.event \in Events
      /\ pc \in Early \union Late => op \in Operations /\ op.event \in Events
  BY DEF TypeOK, EarlyInv, LateInv, Operations
<1>n. None \notin Events \union Operations /\ Torn \notin Events \union {None}
  BY BoundsOK
<1>1. CASE WriteIntent
  BY <1>1, <1>t, <1>n DEF WriteIntent, Goto, LateInv, EarlyInv, Early, Late, auditlog
<1>2. CASE WriteState
  BY <1>2, <1>t, <1>n DEF WriteState, Goto, LateInv, Late, auditlog, Appended, Logged
<1>3. CASE WriteLedger
  <2>1. /\ pc = "ledger" /\ pc' \in {"ledger", "append", "idle"}
        /\ UNCHANGED <<op, intent, state, auditlog>>
    BY <1>3 DEF WriteLedger, Goto
  <2> QED BY <2>1, <1>t, <1>n DEF LateInv, Late, auditlog, Appended, Logged
<1>4. CASE AppendEvent
  <2>1. /\ op = intent /\ op \in Operations /\ op.event \in Events
        /\ (Fresh(op.event) \/ Appended(op.event))
        /\ state = intent.post /\ terminal => Logged(op.event)
    BY <1>4, <1>t DEF AppendEvent, LateInv, IntentInv, Late
  <2>2. torn \/ (Len(events') > 0 /\ events'[Len(events')] = op.event)
    BY <1>4, <2>1, Appending DEF AppendEvent
  <2>3. /\ pc' \in {"cleanup", "terminal", "head"}
        /\ UNCHANGED <<op, intent, state, reserved, head, torn>>
    BY <1>4 DEF AppendEvent, Goto
  <2> QED BY <1>4, <1>n, <2>1, <2>2, <2>3 DEF AppendEvent, LateInv, Late, Appended, Logged
<1>5. CASE WriteHead
  <2>1. /\ op = intent /\ op \in Operations /\ Logged(op.event)
        /\ Appended(op.event) => op.event.seq = Len(events)
    BY <1>5, <1>t, Place DEF WriteHead, LateInv, Late
  <2> QED BY <1>5, <1>t, <1>n, <2>1 DEF WriteHead, Goto, LateInv, Late, Appended, Logged
<1>6. CASE ClearReserved
  BY <1>6, <1>t, <1>n DEF ClearReserved, Goto, LateInv, Late, Appended, Logged
<1>7. CASE WriteTerminal
  BY <1>7, <1>t, <1>n DEF WriteTerminal, Goto, LateInv, Late, Appended, Logged, auditlog
<1>8. CASE Recover
  <2>1. CASE pc' = "state"
    <3>1. intent \in Operations /\ op' = intent /\ Decided(intent)
      BY <1>8, <2>1, <1>t DEF Recover
    <3>2. reserved = intent.event \/ Logged(intent.event)
      BY <1>n, <3>1 DEF IntentInv
    <3> QED BY <1>8, <1>n, <2>1, <3>1, <3>2 DEF Recover, LateInv, Late, disk, Appended, Logged
  <2>2. CASE pc' = "dismiss"
    <3>1. intent \in Operations /\ op' = intent /\ ~Decided(intent)
      BY <1>8, <2>2, <1>t DEF Recover
    <3>2. ~Decided(intent)'
      BY <1>8, <3>1, DecidedStable DEF Recover, disk, Decided, Evicts, Missing, HasEvent
    <3> QED BY <1>8, <1>n, <2>2, <3>1, <3>2 DEF Recover, LateInv, Late, disk, Appended, Logged
  <2>3. CASE pc' = "idle"
    BY <2>3 DEF LateInv, Late
  <2> QED BY <1>8, <2>1, <2>2, <2>3 DEF Recover
<1>9. CASE Dismiss
  <2>1. op = intent /\ op \in Operations /\ ~Decided(intent)
        /\ reserved \in {None, intent.event}
    BY <1>9, <1>t DEF Dismiss, LateInv, Late, IntentInv
  <2>2. ~Decided(intent)' /\ reserved' = None
    BY <1>9, <2>1 DEF Dismiss, Decided, Evicts, Missing, HasEvent
  <2> QED BY <1>9, <1>n, <2>1, <2>2 DEF Dismiss, Goto, LateInv, Late
<1>10. pc' \in Late =>
         \/ WriteIntent \/ WriteState \/ WriteLedger \/ AppendEvent \/ WriteHead
         \/ ClearReserved \/ WriteTerminal \/ Recover \/ Dismiss
         \/ SaveMigrated \/ LoadOld
  <2>1. \A r \in Requests : Begin(r) => pc' \notin Late
    BY DEF Begin, Late
  <2> QED BY <2>1 DEF Next, Work, Reconcile, ReconcileHead, ReconcileClear,
         OpenReservation, Reserve, Cleanup, Start, Fail, Crash, Stop, Die, Goto, Late
<1>11. CASE LoadOld \/ SaveMigrated
  <2>1. CASE LoadOld
    BY <2>1 DEF LoadOld, LateInv, Late, Fresh, Appended, Logged, proc, disk, auditlog,
                Decided, Evicts, Missing, HasEvent
  <2>2. CASE SaveMigrated
    <3>1. pc = "idle" /\ pc' = pc
      BY <2>2, Migrating DEF proc
    <3> QED BY <3>1 DEF LateInv, Late
  <2> QED BY <1>11, <2>1, <2>2
<1> QED BY <1>1, <1>2, <1>3, <1>4, <1>5, <1>6, <1>7, <1>8, <1>9, <1>10, <1>11
        DEF LateInv

\* Of a pending operation the files always tell enough.
LEMMA IntentStep == ASSUME OpInv, Next, ~overtaken' PROVE IntentInv'
<1> USE DEF OpInv
<1>t. /\ events \in Seq(Events) /\ Len(events) \in Nat
      /\ reserved \in Events \union {None, Torn}
      /\ intent \in Operations \union {None} /\ terminal \in BOOLEAN
      /\ \A o \in Operations : o.event \in Events
      /\ pc \in Early \union Late => op \in Operations /\ op.event \in Events
  BY DEF TypeOK, EarlyInv, LateInv, Operations
<1>n. None \notin Events \union Operations /\ Torn \notin Events \union {None}
  BY BoundsOK
<1>1. CASE WriteIntent
  <2>1. /\ op \in Operations /\ state = op.pre /\ Fresh(op.event)
        /\ reserved = op.event /\ op.event \in Events /\ ~torn
    BY <1>1, <1>t DEF WriteIntent, EarlyInv, Early
  <2>2. ~Appended(op.event)
    BY <2>1, Place
  <2> QED BY <1>1, <1>n, <2>1, <2>2
          DEF WriteIntent, IntentInv, Fresh, Appended, Logged, auditlog
<1>2. CASE WriteState
  <2>1. intent \in Operations /\ op = intent
        /\ (reserved = intent.event \/ Logged(intent.event))
    BY <1>2, <1>t DEF WriteState, LateInv, Late
  <2> QED BY <1>2, <1>n, <1>t, <2>1
          DEF WriteState, IntentInv, Fresh, Appended, Logged, auditlog
<1>3. CASE WriteLedger
  <2>1. /\ intent \in Operations /\ state = intent.post
        /\ (reserved = intent.event \/ Logged(intent.event))
        /\ UNCHANGED <<intent, state, auditlog, terminal>>
    BY <1>3, <1>t DEF WriteLedger, LateInv, Late
  <2> QED BY <1>n, <1>t, <2>1 DEF IntentInv, Fresh, Appended, Logged, auditlog
<1>4. CASE AppendEvent
  <2>1. /\ op = intent /\ op \in Operations /\ op.event \in Events
        /\ (Fresh(op.event) \/ Appended(op.event)) /\ state = intent.post
    BY <1>4, <1>t DEF AppendEvent, LateInv, IntentInv, Late
  <2>2. /\ torn' = torn /\ torn => events' = events
        /\ ~torn => Len(events') > 0 /\ events'[Len(events')] = op.event
    BY <1>4, <2>1, Appending DEF AppendEvent
  <2> QED BY <1>4, <1>n, <2>1, <2>2 DEF AppendEvent, IntentInv, Fresh, Appended, Logged
<1>5. CASE WriteTerminal
  BY <1>5, <1>t, <1>n
     DEF WriteTerminal, LateInv, Late, IntentInv, Fresh, Appended, Logged, auditlog
<1>6. CASE Cleanup
  BY <1>6 DEF Cleanup, IntentInv
<1>7. CASE ClearReserved
  BY <1>7, <1>t, <1>n DEF ClearReserved, LateInv, Late, IntentInv, Fresh, Appended, Logged
<1>8. CASE Dismiss
  <2>1. op = intent /\ op \in Operations /\ ~Decided(intent)
        /\ reserved \in {None, intent.event}
    BY <1>8, <1>t DEF Dismiss, LateInv, Late, IntentInv
  <2>2. ~Decided(intent)' /\ reserved' = None
    BY <1>8, <2>1 DEF Dismiss, Decided, Evicts, Missing, HasEvent
  <2> QED BY <1>8, <1>n, <1>t, <2>1, <2>2 DEF Dismiss, IntentInv, Fresh, Appended, Logged
<1>9. CASE Reconcile \/ ReconcileHead \/ ReconcileClear \/ OpenReservation \/ Reserve
  <2>1. intent = None /\ UNCHANGED <<intent, terminal>>
    BY <1>9 DEF Reconcile, ReconcileHead, ReconcileClear, OpenReservation, Reserve,
                EarlyInv, Early
  <2> QED BY <2>1 DEF IntentInv
<1>10. CASE SaveMigrated
  <2>1. intent = None /\ UNCHANGED <<intent, terminal>>
    BY <1>10, Migrating
  <2> QED BY <2>1 DEF IntentInv
<1>11. CASE UNCHANGED disk
  <2>1. intent \in Operations => (Decided(intent)' <=> Decided(intent))
    BY <1>11 DEF Decided, Evicts, Missing, HasEvent, disk
  <2> QED BY <1>11, <1>t, <2>1 DEF IntentInv, Fresh, Appended, Logged, disk
<1>12. CASE WriteHead
  <2>1. intent # None /\ op = intent /\ Logged(intent.event)
    BY <1>12 DEF WriteHead, LateInv, Late
  <2> QED BY <1>12, <1>t, <2>1 DEF WriteHead, IntentInv, Fresh, Appended, Logged
<1>13. (\E r \in Requests : Begin(r)) \/ Recover \/ Start \/ LoadOld \/ Stop
         => UNCHANGED disk
  BY DEF Begin, Recover, Start, LoadOld, Stop
<1>14. CASE Fail \/ Crash
  <2>1. UNCHANGED <<state, ledger, events, reserved, intent, terminal>>
    BY <1>14 DEF Fail, Crash
  <2>2. intent \in Operations => (Decided(intent)' <=> Decided(intent))
    BY <2>1 DEF Decided, Evicts, Missing, HasEvent
  <2>3. torn \in BOOLEAN /\ (torn => torn')
    BY <1>14 DEF Fail, Crash, Tear, TypeOK
  <2>4. intent # None /\ torn' /\ ~torn => state = intent.post
    BY <1>14 DEF Fail, Crash, Tear, LateInv, EarlyInv, Early, Late
  <2> QED BY <1>t, <2>1, <2>2, <2>3, <2>4 DEF IntentInv, Fresh, Appended, Logged
<1> QED BY <1>1, <1>2, <1>3, <1>4, <1>5, <1>6, <1>7, <1>8, <1>9, <1>10, <1>11,
           <1>12, <1>13, <1>14 DEF Next, Work

\* More requests account for whatever fewer did.
LEMMA CoveredMore ==
  ASSUME NEW s, NEW l, NEW R, NEW S, R \subseteq S, Covered(s, l, R)
  PROVE  Covered(s, l, S)
  BY DEF Covered

\* No store ever shows what the audit log does not say, except for the one
\* operation that is pending.
LEMMA AuditStep == ASSUME OpInv, Next, ~overtaken' PROVE AuditInv'
<1> USE DEF OpInv
<1>t. /\ events \in Seq(Events) /\ Len(events) \in Nat
      /\ state \in Contents /\ ledger \in [Decisions -> Payloads \union {None}]
      /\ intent \in Operations \union {None}
      /\ \A o \in Operations :
           o.event \in Events /\ o.evict \in [Decisions -> Payloads \union {None}]
      /\ pc \in Early \union Late => op \in Operations /\ op.event \in Events
  BY DEF TypeOK, EarlyInv, LateInv, Operations
<1>n. None \notin Events \union Operations
  BY BoundsOK
<1>q. intent = None /\ ~torn => Covered(state, ledger, Said)
  <2> SUFFICES ASSUME intent = None, ~torn PROVE Covered(state, ledger, Said)
    OBVIOUS
  <2>1. PICK L \in Lost : Covered(state, ledger, Said \union L)
    BY DEF AuditInv
  <2>2. L = {}
    BY DEF Lost
  <2> QED BY <2>1, <2>2
<1>e. {} \in Lost
  BY DEF Lost
<1>1. ASSUME NEW r \in Requests, Begin(r) PROVE AuditInv'
  <2>1. PICK eff \in Effects(r) :
          op' = [pre |-> state, post |-> eff.post, evict |-> eff.evict,
                 event |-> BuildEvent(r)]
    BY <1>1 DEF Begin
  <2>2. intent = None /\ UNCHANGED <<state, ledger, events, torn, intent>>
    BY <1>1 DEF Begin, disk
  <2>3. ~torn => Covered(eff.post, eff.evict, Said \union {r})
    BY <1>q, <2>2, EffectsCovered
  <2>4. Said' = Said /\ op'.post = eff.post /\ op'.evict = eff.evict
        /\ op'.event.request = r /\ Lost' = Lost
    BY <2>1, <2>2 DEF Said, BuildEvent, Lost
  <2>5. (\E L \in Lost : Covered(state, ledger, Said \union L))'
    BY <2>2, <2>4 DEF AuditInv, Covered
  <2> QED BY <2>2, <2>3, <2>4, <2>5 DEF AuditInv, Covered
<1>2. CASE Reconcile
  <2>1. /\ reserved \in Events /\ (Fresh(reserved) \/ Appended(reserved))
        /\ intent = None /\ events' = Append_(reserved)
        /\ UNCHANGED <<state, ledger, intent, op, torn>> /\ pc \in Early
    BY <1>2 DEF Reconcile, Goto, EarlyInv, LogInv, Early
  <2>2. Said \subseteq Said' /\ Lost' = Lost
    BY <2>1, Appending DEF Lost
  <2>3. PICK L \in Lost : Covered(state, ledger, Said \union L)
    BY <2>1 DEF AuditInv
  <2>4. Covered(state', ledger', Said' \union L)
    BY <2>1, <2>2, <2>3 DEF Covered
  <2> QED BY <2>1, <2>2, <2>4 DEF AuditInv, Covered
<1>3. CASE AppendEvent
  <2>1. /\ op.event \in Events /\ (Fresh(op.event) \/ Appended(op.event))
        /\ events' = Append_(op.event) /\ intent # None
        /\ UNCHANGED <<state, ledger, intent, op>> /\ pc' \notin Early
    BY <1>3, <1>t DEF AppendEvent, Goto, LateInv, IntentInv, Late, Early
  <2>2. Said \subseteq Said'
    BY <2>1, Appending
  <2> QED BY <2>1, <2>2 DEF AuditInv, Covered, Shown
<1>4. CASE ReconcileClear
  <2>1. /\ UNCHANGED <<state, ledger, events, torn, intent>> /\ intent = None
        /\ pc \in Early /\ op \in Operations
    BY <1>4 DEF ReconcileClear, EarlyInv, Early
  <2>2. op'.post = op.post /\ op'.evict = op.evict
        /\ op'.event.request = op.event.request
    BY <1>4, <2>1 DEF ReconcileClear, Operations, Events
  <2>3. Said' = Said /\ Lost' = Lost
    BY <2>1 DEF Said, Lost
  <2> QED BY <2>1, <2>2, <2>3 DEF AuditInv, Covered
<1>5. CASE WriteIntent
  <2>1. /\ UNCHANGED <<state, ledger, events, op, torn>> /\ intent = None /\ ~torn
        /\ pc \in Early /\ pc' \notin Early /\ intent' = op /\ op # None
    BY <1>5, <1>n, <1>t DEF WriteIntent, Goto, EarlyInv, Early, auditlog
  <2> QED BY <1>q, <2>1 DEF AuditInv, Covered, Said
<1>6. CASE WriteState
  <2>1. /\ UNCHANGED <<ledger, events, intent, op>> /\ intent # None /\ op = intent
        /\ pc' \notin Early /\ state' = intent.post
    BY <1>6 DEF WriteState, Goto, LateInv, Late, Early, auditlog
  <2>2. Shown' = {intent.event.request} /\ Shown \subseteq {intent.event.request}
        /\ Said' = Said
    BY <2>1 DEF Shown, Said
  <2>3. Covered(intent.post, intent.evict, Said \union {intent.event.request})
    BY <2>1 DEF AuditInv
  <2>4. Covered(state, ledger, Said \union {intent.event.request})
    BY <2>1, <2>2 DEF AuditInv, Covered
  <2>5. Covered(state', ledger', Said' \union Shown')
    BY <2>1, <2>2, <2>3, <2>4 DEF Covered
  <2>6. Covered(intent.post, intent.evict, Said \union {intent.event.request})'
    BY <2>1, <2>2, <2>3 DEF Covered
  <2> QED BY <2>1, <2>5, <2>6 DEF AuditInv, Covered
<1>7. CASE WriteLedger
  <2>1. /\ UNCHANGED <<state, events, intent, op>> /\ intent # None /\ op = intent
        /\ intent \in Operations /\ state = intent.post
        /\ pc' \notin Early
    BY <1>7, <1>t DEF WriteLedger, Goto, LateInv, Late, Early, auditlog
  <2>2. Shown' = {intent.event.request} /\ Shown = Shown' /\ Said' = Said
    BY <2>1 DEF Shown, Said
  <2>3. \A d \in Decisions : ledger'[d] \in {ledger[d], intent.evict[d]}
    BY <1>7, <1>t, <2>1 DEF WriteLedger, Missing
  <2>4. Covered(intent.post, intent.evict, Said \union {intent.event.request})
        /\ Covered(state, ledger, Said \union Shown)
    BY <2>1 DEF AuditInv
  <2>5. Covered(state, ledger, Said \union Shown)'
    BY <2>1, <2>2, <2>3, <2>4 DEF Covered
  <2> QED BY <2>1, <2>2, <2>4, <2>5 DEF AuditInv, Covered
<1>8. CASE Cleanup
  <2>1. /\ UNCHANGED <<state, ledger, events, torn>> /\ intent # None
        /\ intent \in Operations /\ intent' = None
        /\ pc' \notin Early
        /\ Logged(intent.event) \/ ~Decided(intent)
    BY <1>8, <1>t DEF Cleanup, LateInv, Late, Early, auditlog
  <2>2. Said' = Said /\ Lost' = Lost
    BY <2>1 DEF Said, Lost
  <2>3. PICK L \in Lost : Shown \subseteq Said \union L
    <3>1. CASE Appended(intent.event)
      <4>1. intent.event.request \in Said
        BY <1>t, <3>1 DEF Appended, Said
      <4> QED BY <1>e, <4>1 DEF Shown
    <3>2. CASE ~Decided(intent)
      BY <1>e, <3>2 DEF Decided, Shown
    <3>3. CASE torn
      <4>1. {intent.event.request} \in Lost
        BY <1>t, <2>1, <3>3 DEF Lost, Events
      <4> QED BY <4>1 DEF Shown
    <3> QED BY <2>1, <3>1, <3>2, <3>3 DEF Logged
  <2>4. Covered(state, ledger, Said \union L)
    BY <2>1, <2>3 DEF AuditInv, Covered
  <2> QED BY <2>1, <2>2, <2>4 DEF AuditInv, Covered
<1>9. CASE SaveMigrated
  <2>1. /\ UNCHANGED <<ledger, events, torn, intent, pc>> /\ intent = None
        /\ pc \notin Early
        /\ state' = [state EXCEPT !.legacy = FALSE]
    BY <1>9, Migrating DEF auditlog, proc, Early
  <2>2. state'.pending = state.pending /\ state'.completed = state.completed
    BY <1>t, <2>1 DEF Contents
  <2>3. Said' = Said /\ Lost' = Lost
    BY <2>1 DEF Said, Lost
  <2>4. PICK L \in Lost : Covered(state, ledger, Said \union L)
    BY <2>1 DEF AuditInv
  <2>5. Covered(state', ledger', Said' \union L)
    BY <2>1, <2>2, <2>3, <2>4 DEF Covered
  <2> QED BY <2>1, <2>3, <2>5 DEF AuditInv
<1>10. CASE /\ UNCHANGED <<state, ledger, events, intent>> /\ (torn => torn')
            /\ (pc' \in Early => pc \in Early /\ op' = op)
  <2>1. Said' = Said /\ Shown' = Shown
    BY <1>10 DEF Said, Shown
  <2>2. Lost \subseteq Lost'
    BY <1>10 DEF Lost
  <2> QED BY <1>10, <2>1, <2>2 DEF AuditInv, Covered
<1>11. ReconcileHead \/ OpenReservation \/ Reserve \/ WriteHead \/ ClearReserved
       \/ WriteTerminal \/ Recover \/ Dismiss \/ Start \/ LoadOld \/ Fail \/ Crash
       \/ Stop =>
         /\ UNCHANGED <<state, ledger, events, intent>> /\ (torn => torn')
         /\ pc' \in Early => pc \in Early /\ op' = op
  BY Tearing DEF TypeOK, ReconcileHead, OpenReservation, Reserve, WriteHead,
         ClearReserved, WriteTerminal, Recover, Dismiss, Start, LoadOld, Fail, Crash,
         Stop, Die, Goto, disk, auditlog, proc, Early
<1> QED BY <1>1, <1>2, <1>3, <1>4, <1>5, <1>6, <1>7, <1>8, <1>9, <1>10, <1>11
        DEF Next, Work

-----------------------------------------------------------------------------
(* What follows *)

\* A migration that overtook an operation is never forgotten.
LEMMA Overtaken == ASSUME Next, overtaken PROVE overtaken'
  BY DEF Next, Work, Begin, Reconcile, ReconcileHead, ReconcileClear, OpenReservation,
         Reserve, WriteIntent, WriteState, WriteLedger, AppendEvent, WriteHead,
         ClearReserved, WriteTerminal, Cleanup, Recover, Dismiss, Start, LoadOld,
         SaveMigrated, Fail, Crash, Stop

\* As long as none did, the invariant holds.
LEMMA Invariance == Spec => [](overtaken \/ OpInv)
<1>1. ASSUME OpInv, Next, ~overtaken' PROVE OpInv'
  BY <1>1, TypeStep, LogStep, EarlyStep, LateStep, IntentStep, AuditStep DEF OpInv
<1>2. ASSUME OpInv, UNCHANGED vars PROVE OpInv'
  <2>1. OpInv /\ UNCHANGED vars
    BY <1>2
  <2>2. TypeOK' /\ (pc \in Pcs)' /\ LogInv'
    BY <2>1 DEF vars, disk, proc, OpInv, TypeOK, LogInv, Fresh, Appended
  <2>3. EarlyInv' /\ LateInv'
    BY <2>1 DEF vars, disk, proc, OpInv, EarlyInv, LateInv, Fresh, Appended, Logged,
                Decided, HasEvent, Missing, Evicts
  <2>4. IntentInv'
    BY <2>1 DEF vars, disk, proc, OpInv, IntentInv, Fresh, Appended, Logged, Decided,
                HasEvent, Missing, Evicts
  <2>5. AuditInv'
    <3>1. /\ UNCHANGED <<state, ledger, intent, pc, op>> /\ torn' = torn
          /\ Said' = Said /\ Shown' = Shown /\ Lost' = Lost
      BY <2>1 DEF vars, disk, proc, Said, Shown, Lost
    <3> QED BY <2>1, <3>1 DEF OpInv, AuditInv, Covered
  <2> QED BY <2>2, <2>3, <2>4, <2>5 DEF OpInv
<1>3. UNCHANGED vars => overtaken' = overtaken
  BY DEF vars
<1>4. (overtaken \/ OpInv) /\ [Next]_vars => (overtaken \/ OpInv)'
  BY <1>1, <1>2, <1>3, Overtaken
<1> QED BY <1>4, Initially, PTL DEF Spec

\* While no operation is pending, each decision and each answer that the state
\* file or the ledger holds has its line in the audit log, whichever writes
\* failed before and wherever the process died; a torn line costs one at most.
THEOREM EveryChangeAudited == Spec => []ChangesAreAudited
<1>1. ASSUME overtaken \/ OpInv PROVE ChangesAreAudited
  <2> SUFFICES ASSUME OpInv, Quiet, NEW r \in Unaudited, NEW s \in Unaudited
               PROVE  torn /\ r = s
    BY <1>1 DEF ChangesAreAudited
  <2>1. intent = None /\ Effective = state
    BY DEF Quiet, Pending, Effective
  <2>2. PICK L \in Lost : Covered(state, ledger, Said \union L)
    BY <2>1 DEF OpInv, AuditInv
  <2>3. \A d \in Decisions : Answer(d) = IF state.completed[d] # None
                                           THEN state.completed[d] ELSE ledger[d]
    BY <2>1 DEF Answer, Pending
  <2>4. ASSUME NEW x \in Unaudited PROVE x \in L
    <3>1. x \in Requests /\ Shows(x) /\ x \notin Said
      BY DEF Unaudited, Said
    <3>2. CASE x.type = "register"
      <4>1. x.id \in Decisions /\ x = Register(x.id)
        BY <3>1, <3>2 DEF Requests, Register
      <4>2. x.id \in state.pending \/ Answer(x.id) # None
        BY <2>1, <3>1, <3>2 DEF Shows
      <4>3. Register(x.id) \in Said \union L
        BY <2>2, <2>3, <4>1, <4>2 DEF Covered
      <4> QED BY <3>1, <4>1, <4>3
    <3>3. CASE x.type = "feedback"
      <4>1. x.id \in Decisions /\ x = Feedback(x.id, x.payload) /\ x.payload # None
        BY <3>1, <3>3, BoundsOK DEF Requests, Feedback
      <4>2. Answer(x.id) = x.payload
        BY <3>1, <3>3 DEF Shows
      <4>3. Feedback(x.id, x.payload) \in Said \union L
        BY <2>2, <2>3, <4>1, <4>2 DEF Covered
      <4> QED BY <3>1, <4>1, <4>3
    <3> QED BY <3>1, <3>2, <3>3 DEF Shows
  <2> QED BY <2>2, <2>4 DEF Lost
<1> QED BY <1>1, Invariance, PTL

-----------------------------------------------------------------------------
(* The refinement of DecisionStore *)

\* A decision is in one place: open, completed or in the ledger.
OnePlace(s, l) ==
  \A d \in Decisions :
    /\ s.completed[d] # None => d \notin s.pending
    /\ d \in s.pending \/ s.completed[d] # None => l[d] = None

\* What an operation evicts it had, and no longer has.
Leaves(o) ==
  \A d \in Decisions : o.evict[d] # None =>
    /\ d \in o.pre.pending \/ o.pre.completed[d] # None
    /\ d \notin o.post.pending /\ o.post.completed[d] = None

AnswerBefore(o, d) ==
  IF o.pre.completed[d] # None THEN o.pre.completed[d] ELSE ledger[d]
AnswerAfter(o, d) ==
  IF o.post.completed[d] # None THEN o.post.completed[d]
  ELSE IF o.evict[d] # None THEN o.evict[d] ELSE ledger[d]

\* What an operation is about to do is one step of DecisionStore.
IsStep(o) ==
  \/ \E d \in Decisions :
       /\ d \notin o.pre.pending /\ AnswerBefore(o, d) = None
       /\ o.post.pending = o.pre.pending \union {d} /\ o.post.mode = o.pre.mode
       /\ \A x \in Decisions : AnswerAfter(o, x) = AnswerBefore(o, x)
  \/ \E d \in Decisions, p \in Payloads :
       /\ d \in o.pre.pending /\ AnswerAfter(o, d) = p
       /\ o.post.pending = o.pre.pending \ {d} /\ o.post.mode = o.pre.mode
       /\ \A x \in Decisions \ {d} : AnswerAfter(o, x) = AnswerBefore(o, x)
  \/ /\ o.post.pending = o.pre.pending /\ o.post.mode \in Modes
     /\ \A x \in Decisions : AnswerAfter(o, x) = AnswerBefore(o, x)

\* The tombstones an operation owes are written before its event.
StoreInv ==
  /\ OnePlace(state, ledger)
  /\ pc \in Early => OnePlace(op.post, ledger) /\ Leaves(op) /\ IsStep(op)
  /\ intent # None =>
       /\ OnePlace(intent.post, ledger) /\ Leaves(intent)
       /\ \A d \in Decisions :
            intent.evict[d] # None => ledger[d] \in {None, intent.evict[d]}
       /\ state # intent.post => IsStep(intent)
       /\ Logged(intent.event) \/ pc = "append" => Missing(intent) = {}

\* The operations are steps of DecisionStore when they begin.
LEMMA EffectsStep ==
  ASSUME TypeOK, OnePlace(state, ledger),
         NEW r \in Requests, NEW eff \in Effects(r), NEW o \in Operations,
         o.pre = state, o.post = eff.post, o.evict = eff.evict
  PROVE  OnePlace(o.post, ledger) /\ Leaves(o) /\ IsStep(o)
<1>s. state \in Contents /\ ledger \in [Decisions -> Payloads \union {None}]
      /\ None \notin Payloads
  BY BoundsOK DEF TypeOK
<1>1. CASE r.type = "register"
  <2>1. r.id \in Decisions /\ eff \in Registered(r.id)
    BY <1>1 DEF Requests, Effects
  <2>2. /\ eff = [post |-> [state EXCEPT !.pending = @ \union {r.id}],
                  evict |-> NoAnswers]
        /\ r.id \notin state.pending /\ state.completed[r.id] = None
        /\ ledger[r.id] = None
    BY <2>1 DEF Registered, Completed
  <2>3. /\ o.post.pending = state.pending \union {r.id}
        /\ o.post.completed = state.completed /\ o.post.mode = state.mode
        /\ \A d \in Decisions : o.evict[d] = None
    BY <1>s, <2>2 DEF Contents, NoAnswers
  <2>4. \A x \in Decisions : AnswerAfter(o, x) = AnswerBefore(o, x)
    BY <2>3 DEF AnswerAfter, AnswerBefore
  <2>5. IsStep(o)
    BY <2>1, <2>2, <2>3, <2>4 DEF IsStep, AnswerBefore
  <2> QED BY <2>1, <2>2, <2>3, <2>5 DEF OnePlace, Leaves
<1>2. CASE r.type = "feedback"
  <2>1. r.id \in Decisions /\ r.payload \in Payloads
        /\ eff \in Answered(r.id, r.payload)
    BY <1>2 DEF Requests, Effects
  <2> DEFINE full == [state EXCEPT !.pending = @ \ {r.id},
                                   !.completed[r.id] = r.payload]
  <2>2. full \in Contents /\ r.id \in state.pending
    BY <1>s, <2>1 DEF Contents, Answered
  <2>3. PICK E \in SUBSET Completed(full) :
          eff = [post  |-> [full EXCEPT !.completed =
                              [e \in Decisions |-> IF e \in E THEN None ELSE @[e]]],
                 evict |-> [e \in Decisions |->
                              IF e \in E THEN full.completed[e] ELSE None]]
    BY <2>1 DEF Answered
  <2>4. /\ full.pending = state.pending \ {r.id} /\ full.mode = state.mode
        /\ full.completed[r.id] = r.payload
        /\ \A d \in Decisions \ {r.id} : full.completed[d] = state.completed[d]
    BY <1>s, <2>1 DEF Contents
  <2>5. \A e \in E : e \in Decisions /\ full.completed[e] # None
    BY <2>3 DEF Completed
  <2> HIDE DEF full
  <2>6. /\ o.post.pending = full.pending /\ o.post.mode = full.mode
        /\ \A d \in Decisions :
             /\ o.post.completed[d] = IF d \in E THEN None ELSE full.completed[d]
             /\ o.evict[d] = IF d \in E THEN full.completed[d] ELSE None
    BY <2>2, <2>3 DEF Contents
  <2>7. \A d \in Decisions :
          AnswerAfter(o, d) = IF full.completed[d] # None THEN full.completed[d]
                              ELSE ledger[d]
    BY <2>5, <2>6 DEF AnswerAfter
  <2>8. AnswerAfter(o, r.id) = r.payload
        /\ \A d \in Decisions \ {r.id} : AnswerAfter(o, d) = AnswerBefore(o, d)
    BY <1>s, <2>1, <2>4, <2>7 DEF AnswerBefore
  <2>9. IsStep(o)
    BY <2>1, <2>2, <2>4, <2>6, <2>8 DEF IsStep
  <2>10. \A d \in Decisions :
           d \in full.pending \/ full.completed[d] # None =>
             d \in state.pending \/ state.completed[d] # None
    BY <2>2, <2>4
  <2>11. \A d \in Decisions : full.completed[d] # None => d \notin full.pending
    BY <2>1, <2>4 DEF OnePlace
  <2> QED BY <2>5, <2>6, <2>9, <2>10, <2>11 DEF OnePlace, Leaves
<1>3. CASE r.type = "mode"
  <2>1. r.mode \in Modes
        /\ eff = [post |-> [state EXCEPT !.mode = r.mode], evict |-> NoAnswers]
    BY <1>3 DEF Requests, Effects
  <2>2. /\ o.post.pending = state.pending /\ o.post.mode \in Modes
        /\ o.post.completed = state.completed
        /\ \A d \in Decisions : o.evict[d] = None
    BY <1>s, <2>1 DEF Contents, NoAnswers
  <2>3. IsStep(o)
    BY <2>2 DEF IsStep, AnswerAfter, AnswerBefore
  <2> QED BY <2>2, <2>3 DEF OnePlace, Leaves
<1> QED BY <1>1, <1>2, <1>3 DEF Requests

\* Every step keeps a decision in one place, and an operation one step of
\* DecisionStore, until the state file shows it.
LEMMA StoreStep ==
  ASSUME OpInv, StoreInv, Next, ~overtaken' PROVE StoreInv'
<1> USE DEF OpInv
<1>t. /\ events \in Seq(Events) /\ Len(events) \in Nat
      /\ state \in Contents /\ ledger \in [Decisions -> Payloads \union {None}]
      /\ intent \in Operations \union {None}
      /\ \A o \in Operations :
           o.event \in Events /\ o.evict \in [Decisions -> Payloads \union {None}]
      /\ pc \in Early \union Late => op \in Operations /\ op.event \in Events
  BY DEF TypeOK, EarlyInv, LateInv, Operations
<1>n. None \notin Events \union Operations
  BY BoundsOK
<1>o. TypeOK'
  BY TypeStep
<1> DEFINE Kept == /\ OnePlace(state, ledger)
                   /\ intent # None =>
                        /\ OnePlace(intent.post, ledger) /\ Leaves(intent)
                        /\ \A d \in Decisions : intent.evict[d] # None =>
                             ledger[d] \in {None, intent.evict[d]}
                        /\ state # intent.post => IsStep(intent)
                   /\ intent # None /\ Logged(intent.event) => Missing(intent) = {}
<1>k. Kept
  BY DEF StoreInv
<1>1. ASSUME NEW r \in Requests, Begin(r) PROVE StoreInv'
  <2>1. PICK eff \in Effects(r) :
          op' = [pre |-> state, post |-> eff.post, evict |-> eff.evict,
                 event |-> BuildEvent(r)]
    BY <1>1 DEF Begin
  <2>2. intent = None /\ UNCHANGED <<state, ledger, intent>> /\ op' # None
    BY <1>1, <1>n, <1>o, <2>1 DEF Begin, disk, TypeOK
  <2>3. op' \in Operations
    BY <1>o, <2>2 DEF TypeOK
  <2>4. OnePlace(op'.post, ledger) /\ Leaves(op') /\ IsStep(op')
    BY <1>k, <2>1, <2>3, EffectsStep
  <2>5. (OnePlace(op.post, ledger) /\ Leaves(op) /\ IsStep(op))'
    BY <2>2, <2>4 DEF OnePlace, Leaves, IsStep, AnswerBefore, AnswerAfter
  <2>6. OnePlace(state, ledger)' /\ intent' = None
    BY <1>k, <2>2 DEF OnePlace
  <2> QED BY <2>5, <2>6 DEF StoreInv
<1>2. CASE Reconcile \/ ReconcileHead \/ ReconcileClear \/ OpenReservation \/ Reserve
  <2>1. /\ UNCHANGED <<state, ledger, intent>> /\ intent = None
        /\ op \in Operations /\ pc \in Early
    BY <1>2 DEF Reconcile, ReconcileHead, ReconcileClear, OpenReservation, Reserve,
                EarlyInv, Early
  <2>2. op'.post = op.post /\ op'.evict = op.evict /\ op'.pre = op.pre /\ ledger' = ledger
    BY <1>2, <2>1 DEF Reconcile, ReconcileHead, ReconcileClear, OpenReservation,
                Reserve, Goto, Operations
  <2>3. OnePlace(op.post, ledger) /\ Leaves(op) /\ IsStep(op)
    BY <2>1 DEF StoreInv
  <2>4. OnePlace(op.post, ledger)' /\ Leaves(op)' /\ IsStep(op)'
    <3>1. OnePlace(op.post, ledger)' /\ Leaves(op)'
      BY <2>2, <2>3 DEF OnePlace, Leaves
    <3>2. \A d \in Decisions : AnswerBefore(op, d)' = AnswerBefore(op, d)
                              /\ AnswerAfter(op, d)' = AnswerAfter(op, d)
      BY <2>2 DEF AnswerBefore, AnswerAfter
    <3>3. IsStep(op)'
      BY <2>2, <2>3, <3>2 DEF IsStep
    <3> QED BY <3>1, <3>3
  <2> QED BY <1>k, <2>1, <2>4 DEF StoreInv, OnePlace
<1>3. CASE WriteIntent
  <2>1. /\ UNCHANGED <<state, ledger, events, torn>> /\ intent' = op
        /\ state = op.pre /\ op \in Operations /\ pc' = "state" /\ pc \in Early
        /\ Fresh(op.event) /\ ~torn
    BY <1>3 DEF WriteIntent, Goto, EarlyInv, Early, auditlog
  <2>2. ~Appended(op.event)
    BY <1>t, <2>1, Place
  <2>3. OnePlace(op.post, ledger) /\ Leaves(op) /\ IsStep(op)
    BY <2>1 DEF StoreInv
  <2>4. \A d \in Decisions : op.evict[d] # None => ledger[d] = None
    BY <1>k, <2>1, <2>3 DEF OnePlace, Leaves
  <2>5. OnePlace(intent.post, ledger)' /\ Leaves(intent)' /\ OnePlace(state, ledger)'
    BY <1>k, <2>1, <2>3 DEF OnePlace, Leaves
  <2>6. IsStep(intent)'
    BY <2>1, <2>3 DEF IsStep, AnswerBefore, AnswerAfter
  <2>7. ~Logged(intent.event)'
    BY <2>1, <2>2 DEF Appended, Logged
  <2> QED BY <2>1, <2>4, <2>5, <2>6, <2>7 DEF StoreInv, Early
<1>4. CASE WriteState
  <2>1. /\ UNCHANGED <<ledger, events, torn, intent>> /\ op = intent /\ intent # None
        /\ state' = intent.post /\ pc' = "ledger"
    BY <1>4 DEF WriteState, Goto, LateInv, Late, auditlog
  <2> QED BY <1>k, <2>1 DEF StoreInv, OnePlace, Leaves, Missing, Appended, Logged, Early
<1>5. CASE WriteLedger
  <2>1. /\ UNCHANGED <<state, events, torn, intent>> /\ op = intent
        /\ intent \in Operations /\ intent # None
        /\ state = intent.post /\ pc' \in {"ledger", "append", "idle"}
    BY <1>5, <1>t DEF WriteLedger, Goto, LateInv, Late, auditlog
  <2>2. CASE Missing(intent) = {}
    <3>1. ledger' = ledger
      BY <1>5, <2>1, <2>2 DEF WriteLedger
    <3> QED BY <1>k, <2>1, <2>2, <3>1
            DEF StoreInv, OnePlace, Leaves, Missing, Appended, Logged, Early
  <2>3. CASE Missing(intent) # {}
    <3>1. PICK d \in Missing(intent) :
            IF ledger[d] = None
              THEN ledger' = [ledger EXCEPT ![d] = intent.evict[d]]
              ELSE UNCHANGED ledger
      BY <1>5, <2>1, <2>3 DEF WriteLedger
    <3>2. /\ d \in Decisions /\ intent.evict[d] # None
          /\ pc' # "append"
          /\ ledger' = [ledger EXCEPT ![d] = intent.evict[d]]
      BY <1>5, <1>k, <2>1, <2>3, <3>1 DEF WriteLedger, Missing, Goto
    <3>3. \A x \in Decisions :
            ledger'[x] = IF x = d THEN intent.evict[d] ELSE ledger[x]
      BY <1>t, <3>2
    <3>4. OnePlace(intent.post, ledger')
      BY <1>k, <2>1, <3>2, <3>3 DEF OnePlace, Leaves
    <3>5. ~Logged(intent.event)
      BY <1>k, <2>1, <2>3
    <3> QED BY <1>k, <2>1, <3>2, <3>3, <3>4, <3>5
            DEF StoreInv, OnePlace, Leaves, Appended, Logged, Early
  <2> QED BY <2>2, <2>3
<1>6. CASE AppendEvent
  <2>1. /\ UNCHANGED <<state, ledger, intent>> /\ op = intent /\ intent # None
        /\ Missing(intent) = {} /\ state = intent.post /\ pc' \notin Early
    BY <1>6 DEF AppendEvent, Goto, LateInv, Late, Early, StoreInv
  <2> QED BY <1>k, <2>1 DEF StoreInv, OnePlace, Leaves, Missing
<1>7. CASE Cleanup
  <2>1. UNCHANGED <<state, ledger>> /\ intent' = None /\ pc' \notin Early
    BY <1>7 DEF Cleanup, Early
  <2> QED BY <1>k, <2>1 DEF StoreInv, OnePlace
<1>8. CASE SaveMigrated
  <2>1. /\ UNCHANGED <<ledger, intent, pc>> /\ intent = None
        /\ pc \notin Early
        /\ state' = [state EXCEPT !.legacy = FALSE]
    BY <1>8, Migrating DEF auditlog, proc, Early
  <2>2. state'.pending = state.pending /\ state'.completed = state.completed
    BY <1>t, <2>1 DEF Contents
  <2> QED BY <1>k, <2>1, <2>2 DEF StoreInv, OnePlace
<1>9. CASE /\ UNCHANGED <<state, ledger, events, torn, intent>> /\ pc' # "append"
           /\ pc' \in Early => pc \in Early /\ op' = op
  BY <1>9 DEF StoreInv, OnePlace, Leaves, IsStep, AnswerBefore, AnswerAfter,
              Missing, Appended, Logged
<1>10. WriteHead \/ ClearReserved \/ WriteTerminal \/ Recover \/ Dismiss \/ Start
       \/ Stop =>
         /\ UNCHANGED <<state, ledger, events, torn, intent>> /\ pc' # "append"
         /\ pc' \in Early => pc \in Early /\ op' = op
  BY DEF WriteHead, ClearReserved, WriteTerminal, Recover, Dismiss, Start, Stop, Die,
         Goto, disk, auditlog, Early
<1>11. CASE LoadOld
  BY <1>11 DEF LoadOld, disk, proc, StoreInv, OnePlace, Leaves, IsStep, AnswerBefore,
              AnswerAfter, Missing, Appended, Logged
<1>12. CASE Fail \/ Crash
  <2>1. UNCHANGED <<state, ledger, events, intent>> /\ pc' \in {"idle", "down"}
    BY <1>12 DEF Fail, Crash, Die, Goto
  <2>2. intent # None /\ torn' /\ ~torn => pc = "append"
    BY <1>12 DEF Fail, Crash, Tear, EarlyInv, Early
  <2>3. torn \in BOOLEAN
    BY DEF TypeOK
  <2> QED BY <1>k, <2>1, <2>2, <2>3
          DEF StoreInv, OnePlace, Leaves, IsStep, AnswerBefore, AnswerAfter, Missing,
              Appended, Logged, Early
<1> QED BY <1>1, <1>2, <1>3, <1>4, <1>5, <1>6, <1>7, <1>8, <1>9, <1>10, <1>11,
           <1>12 DEF Next, Work

\* An answer as the files show it, with the tombstones that the pending operation
\* still owes.
Seen(d) == IF state.completed[d] # None THEN state.completed[d]
           ELSE IF ledger[d] = None /\ intent # None /\ state = intent.post
             THEN intent.evict[d] ELSE ledger[d]

\* What recovery would leave is the state file as it is: a pending operation is
\* decided exactly when the state file shows it.
LEMMA Visible ==
  ASSUME OpInv, StoreInv
  PROVE  /\ Effective = state
         /\ \A d \in Decisions : Answer(d) = Seen(d)
<1>1. Pending <=> intent # None /\ state = intent.post
  <2>1. ASSUME intent # None, Decided(intent), state # intent.post PROVE FALSE
    <3>1. /\ state = intent.pre /\ intent \in Operations /\ intent.event \in Events
          /\ ~Appended(intent.event) /\ Fresh(intent.event) /\ ~terminal
      BY <2>1 DEF OpInv, IntentInv, TypeOK, Operations, Logged
    <3>2. ~HasEvent(intent.event)
      BY <3>1, Place DEF OpInv
    <3>3. \A d \in Decisions : intent.evict[d] # None => d \in Missing(intent)
      BY <2>1, <3>1 DEF StoreInv, OnePlace, Leaves, Missing
    <3> QED BY <2>1, <3>1, <3>2, <3>3 DEF Decided, Evicts
  <2> QED BY <2>1 DEF Pending, Decided
<1> QED BY <1>1 DEF Effective, Answer, Seen

\* Every step of the log is a step of DecisionStore or changes nothing that its
\* users can see: an operation takes effect when the state file is written.
LEMMA StepRefines ==
  ASSUME OpInv, StoreInv, OpInv', StoreInv', Next, ~overtaken'
  PROVE  [Store!Next]_(Store!vars)
<1> USE DEF OpInv
<1>t. /\ state \in Contents /\ ledger \in [Decisions -> Payloads \union {None}]
      /\ intent \in Operations \union {None}
      /\ \A o \in Operations : o.evict \in [Decisions -> Payloads \union {None}]
  BY DEF TypeOK, Operations
<1>n. None \notin Payloads
  BY BoundsOK
<1>v. /\ Effective = state /\ \A d \in Decisions : Answer(d) = Seen(d)
      /\ Effective' = state' /\ \A d \in Decisions : Answer(d)' = Seen(d)'
  <2>1. Effective = state /\ \A d \in Decisions : Answer(d) = Seen(d)
    BY Visible
  <2>2. (Effective = state /\ \A d \in Decisions : Answer(d) = Seen(d))'
    BY Visible, PTL
  <2> QED BY <2>1, <2>2
<1>s. ASSUME state'.pending = state.pending, state'.mode = state.mode,
             \A d \in Decisions : Seen(d)' = Seen(d)
      PROVE  UNCHANGED Store!vars
  BY <1>s, <1>v DEF Store!vars
<1>1. CASE WriteState /\ state # intent.post
  <2>1. /\ UNCHANGED <<ledger, intent>> /\ intent # None /\ intent \in Operations
        /\ state' = intent.post /\ state = intent.pre
    BY <1>1, <1>t DEF WriteState, LateInv, Late, IntentInv, auditlog
  <2>2. IsStep(intent)
    BY <1>1, <2>1 DEF StoreInv
  <2>3. \A d \in Decisions : Seen(d) = AnswerBefore(intent, d)
    BY <1>1, <2>1 DEF Seen, AnswerBefore
  <2>4. \A d \in Decisions : Seen(d)' = AnswerAfter(intent, d)
    BY <2>1 DEF StoreInv, Seen, AnswerAfter
  <2>5. CASE \E d \in Decisions :
               /\ d \notin state.pending /\ Seen(d) = None
               /\ state'.pending = state.pending \union {d}
               /\ state'.mode = state.mode
               /\ \A x \in Decisions : Seen(x)' = Seen(x)
    BY <1>v, <2>5 DEF Store!Next, Store!Register
  <2>6. CASE \E d \in Decisions, p \in Payloads :
               /\ d \in state.pending /\ Seen(d)' = p
               /\ state'.pending = state.pending \ {d}
               /\ state'.mode = state.mode
               /\ \A x \in Decisions \ {d} : Seen(x)' = Seen(x)
    <3>1. PICK d \in Decisions, p \in Payloads :
            /\ d \in state.pending /\ Seen(d)' = p
            /\ state'.pending = state.pending \ {d}
            /\ state'.mode = state.mode
            /\ \A x \in Decisions \ {d} : Seen(x)' = Seen(x)
      BY <2>6
    <3>2. [x \in Decisions |-> Answer(x)]' =
            [[x \in Decisions |-> Answer(x)] EXCEPT ![d] = p]
      <4>1. Answer(d)' = p /\ \A x \in Decisions \ {d} : Answer(x)' = Answer(x)
        BY <1>v, <3>1
      <4>2. \A x \in Decisions : Answer(x)' = IF x = d THEN p ELSE Answer(x)
        BY <4>1
      <4> QED BY <4>2, Zenon
    <3>3. Store!Answer(d, p)
      BY <1>v, <3>1, <3>2 DEF Store!Answer
    <3> QED BY <3>3 DEF Store!Next
  <2>7. CASE /\ state'.pending = state.pending /\ state'.mode \in Modes
             /\ \A x \in Decisions : Seen(x)' = Seen(x)
    BY <1>v, <2>7 DEF Store!Next, Store!SetMode
  <2> QED BY <2>1, <2>2, <2>3, <2>4, <2>5, <2>6, <2>7 DEF IsStep
<1>2. CASE WriteState /\ state = intent.post
  BY <1>2, <1>s DEF WriteState, LateInv, Late, Seen, auditlog
<1>3. CASE WriteIntent
  <2>1. /\ UNCHANGED <<state, ledger>> /\ intent = None /\ intent' = op
        /\ op \in Operations /\ pc \in Early
    BY <1>3 DEF WriteIntent, EarlyInv, Early, auditlog
  <2>2. state = op.post => \A d \in Decisions : op.evict[d] = None
    BY <1>3, <2>1 DEF StoreInv, Leaves, EarlyInv
  <2>3. \A d \in Decisions : Seen(d)' = Seen(d)
    BY <2>1, <2>2 DEF Seen
  <2> QED BY <1>s, <2>1, <2>3
<1>4. CASE WriteLedger
  <2>1. /\ UNCHANGED <<state, intent>> /\ op = intent /\ state = intent.post
        /\ intent # None /\ intent \in Operations
    BY <1>4, <1>t DEF WriteLedger, LateInv, Late
  <2>2. \A d \in Decisions : ledger'[d] = ledger[d]
          \/ (ledger[d] = None /\ ledger'[d] = intent.evict[d])
    BY <1>4, <1>t, <2>1 DEF WriteLedger
  <2>3. \A d \in Decisions : Seen(d)' = Seen(d)
    BY <2>1, <2>2 DEF Seen
  <2> QED BY <1>s, <2>1, <2>3
<1>5. CASE Cleanup
  <2>1. /\ UNCHANGED <<state, ledger>> /\ intent' = None /\ intent # None
        /\ Logged(intent.event) \/ state # intent.post
    BY <1>5 DEF Cleanup, LateInv, Late, Decided
  <2>2. CASE state # intent.post
    <3>1. \A d \in Decisions : Seen(d)' = Seen(d)
      BY <2>1, <2>2 DEF Seen
    <3> QED BY <1>s, <2>1, <3>1
  <2>3. CASE Logged(intent.event)
    <3>1. \A d \in Decisions : ledger[d] = None => intent.evict[d] = None
      BY <2>1, <2>3 DEF StoreInv, Missing
    <3>2. \A d \in Decisions : Seen(d)' = Seen(d)
      BY <2>1, <3>1 DEF Seen
    <3> QED BY <1>s, <2>1, <3>2
  <2> QED BY <2>1, <2>2, <2>3
<1>6. CASE SaveMigrated
  <2>1. /\ UNCHANGED <<ledger, intent>> /\ intent = None
        /\ state' = [state EXCEPT !.legacy = FALSE]
    BY <1>6, Migrating
  <2>2. state'.pending = state.pending /\ state'.completed = state.completed
        /\ state'.mode = state.mode
    BY <1>t, <2>1 DEF Contents
  <2> QED BY <1>s, <2>1, <2>2 DEF Seen
<1>7. CASE UNCHANGED <<state, ledger, intent>>
  BY <1>7, <1>s DEF Seen
<1>8. (\E r \in Requests : Begin(r)) \/ Reconcile \/ ReconcileHead \/ ReconcileClear
      \/ OpenReservation \/ Reserve \/ AppendEvent \/ WriteHead \/ ClearReserved
      \/ WriteTerminal \/ Recover \/ Dismiss \/ Start \/ LoadOld \/ Fail \/ Crash
      \/ Stop => UNCHANGED <<state, ledger, intent>>
  BY DEF Begin, Reconcile, ReconcileHead, ReconcileClear, OpenReservation, Reserve,
         AppendEvent, WriteHead, ClearReserved, WriteTerminal, Recover, Dismiss, Start,
         LoadOld, Fail, Crash, Stop, disk, auditlog
<1> QED BY <1>1, <1>2, <1>3, <1>4, <1>5, <1>6, <1>7, <1>8 DEF Next, Work

\* StoreInv, too, holds as long as no migration overtook an operation.
LEMMA StoreInvariance == Spec => [](overtaken \/ (OpInv /\ StoreInv))
<1>1. Init => StoreInv
  BY DEF Init, StoreInv, OnePlace, NoAnswers, Early
<1>2. ASSUME StoreInv, UNCHANGED vars PROVE StoreInv'
  BY <1>2 DEF vars, disk, proc, StoreInv, OnePlace, Leaves, IsStep, AnswerBefore,
              AnswerAfter, Missing, Appended, Logged
<1>3. UNCHANGED vars => overtaken' = overtaken
  BY DEF vars
<1>4. /\ overtaken \/ OpInv
      /\ overtaken \/ StoreInv
      /\ [Next]_vars
      => (overtaken \/ StoreInv)'
  BY <1>2, <1>3, StoreStep, Overtaken
<1> QED BY <1>1, <1>4, Invariance, PTL DEF Spec

\* Only a torn reservation, a torn audit line or a migration that overtakes an
\* operation can leave files that fence every later operation: after any other
\* sequence of failures the chain verifies and recover finds the state file and
\* the tombstones as the operation found or left them.
THEOREM NothingElseFences == Spec => []OnlyTearingFences
<1>1. ASSUME OpInv, StoreInv PROVE ChainVerifies /\ Resolvable
  <2>1. ChainVerifies
    BY <1>1 DEF OpInv, LogInv, EarlyInv, Early, ChainVerifies, Verified
  <2>2. Resolvable
    BY <1>1 DEF OpInv, IntentInv, StoreInv, Resolvable, Decided, Missing
  <2> QED BY <2>1, <2>2
<1>2. overtaken \/ (OpInv /\ StoreInv) => OnlyTearingFences
  BY <1>1 DEF OnlyTearingFences
<1> QED BY <1>2, StoreInvariance, PTL

\* Whatever writes fail and wherever the process dies, each operation takes
\* effect at once or not at all, no decision is answered twice and no answer is
\* forgotten on its way from the state file to the ledger.
THEOREM OperationsAreAtomic == Spec => Durable
<1>1. Init => Store!Init
  <2> SUFFICES ASSUME Init PROVE Store!Init
    OBVIOUS
  <2>1. StoreInv
    BY DEF Init, StoreInv, OnePlace, NoAnswers, Early
  <2>2. Effective = state /\ \A d \in Decisions : Answer(d) = Seen(d)
    BY <2>1, Initially, Visible
  <2> QED BY <2>1, <2>2 DEF Init, Store!Init, Seen, NoAnswers
<1>2. UNCHANGED vars => UNCHANGED Store!vars
  BY DEF vars, disk, proc, Store!vars, Effective, Answer, Pending, Decided, Evicts,
         Missing, HasEvent
<1>3. ASSUME overtaken \/ (OpInv /\ StoreInv), (overtaken \/ (OpInv /\ StoreInv))',
             Next
      PROVE  [overtaken' \/ Store!Next]_(Store!vars)
  <2>1. CASE overtaken'
    BY <2>1
  <2>2. CASE ~overtaken'
    <3>1. OpInv /\ StoreInv /\ OpInv' /\ StoreInv'
      BY <1>3, <2>2, Overtaken
    <3>2. [Store!Next]_(Store!vars)
      BY <1>3, <2>2, <3>1, StepRefines
    <3> QED BY <3>2
  <2> QED BY <2>1, <2>2
<1>4. /\ overtaken \/ (OpInv /\ StoreInv)
      /\ (overtaken \/ (OpInv /\ StoreInv))'
      /\ [Next]_vars
      => [overtaken' \/ Store!Next]_(Store!vars)
  BY <1>2, <1>3
<1> QED BY <1>1, <1>4, StoreInvariance, PTL DEF Spec, Durable

=============================================================================
