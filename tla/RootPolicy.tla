----------------------------- MODULE RootPolicy -----------------------------
(***************************************************************************)
(* The root policy (root_policy.py) and its ledger of automatic changes    *)
(* (auto_policy.py): two files that every process loads whole, changes in  *)
(* memory and writes back whole, without a lock.  The writers are runs of  *)
(* the root executor (route_executor.py), which ask for permission and     *)
(* record outcomes, and the operator's one-shot helper                     *)
(* (root_policy_cli.py).  Both write a projection for the Runtime, whose   *)
(* own gates (runtime_service.py, route_policy.py) know the policy by      *)
(* nothing else.  The transaction is reduced to its outcome; its protocol  *)
(* is RootTxn's.                                                           *)
(***************************************************************************)
EXTENDS Naturals, FiniteSets

CONSTANTS
  Ids,       \* requests; an id names its outcome in the ledger
  Manual,    \* those an operator approved; the others are automatic
  Commands,  \* the operator's commands
  Racing,    \* those the operator may give while the executor runs
  None,
  FuseLimit, Cooldown, SameCooldown, MaxPerHour, \* AutoPolicy's configuration
  Hour,      \* length of the rate window
  MaxTime,   \* bound: the clock
  MaxEpoch,  \* bound: the epoch up to which the operator gives commands
  MaxFaults  \* bound: crashes, and commands that overlap with a run

Modes  == {"normal", "observe-only", "safe-disabled"}
Stages == {"observe", "assist", "auto", "disabled"}
AllCommands ==
  [do : {"mode"}, to : Modes] \union [do : {"route-stage"}, to : Stages]
    \union [do : {"confirm"}, to : BOOLEAN]
    \union [do : {"safe-disable", "reset", "acknowledge"}]

Policies == [epoch : Nat, confirmed : BOOLEAN, mode : Modes, stage : Stages]
Ledgers == [last : Nat, by : [Ids -> Nat], times : SUBSET [id : Ids, at : Nat],
            rollbacks : Nat, open : BOOLEAN, acked : BOOLEAN,
            applied : SUBSET Ids, rolledBack : SUBSET Ids]
Requests == [id : Ids, epoch : Nat]
Outcomes == {"open", "failing", "unverified", "committed", "rolledBack"}
Loaded   == [policy : Policies, ledger : Ledgers, gated : BOOLEAN, met : SUBSET Ids]

ASSUME ConstantsOK ==
  /\ Manual \subseteq Ids
  /\ Commands \subseteq AllCommands /\ Racing \subseteq Commands
  /\ {FuseLimit, Cooldown, SameCooldown, MaxPerHour, Hour, MaxTime} \subseteq Nat \ {0}
  /\ {MaxEpoch, MaxFaults} \subseteq Nat
  /\ None \notin Ids \union Outcomes \union Requests \union Loaded

VARIABLES
  policy, ledger,  \* execution-policy.json, auto-execution-ledger.json
  projection,      \* what the Runtime sees of the two
  spool, claim,    \* apply.json and apply.claim: a request and its epoch
  outcome,         \* what the work directory of a request says; "failing" is
                   \* the rollback intent, "unverified" a rollback that failed
  pc, run,         \* the executor: where it is, the copies it has loaded, whether it
                   \* has asked the policy and what was unsettled then
  helper,          \* the helper: its command, the epoch it has loaded, its copies and
                   \* the files left to write
  now,
  failed,          \* history: failures in a row, see FuseBlocks
  started,         \* history: when an automatic change was put live
  stale,           \* history: which of spool and claim is of an epoch that was over
                   \* before the run that takes it loaded the policy
  lost,            \* history: a policy was written over a later one
  faults

files   == <<policy, ledger, projection>>
history == <<failed, started, stale, lost>>
vars    == <<policy, ledger, projection, spool, claim, outcome, pc, run, helper, now,
             failed, started, stale, lost, faults>>

Off == [command |-> None, from |-> 0, policy |-> None, ledger |-> None, left |-> {}]

\* mutationTimes, each entry with the request it was made for.
Recent(times) == {a \in times : now - a.at < Hour}

\* snapshot: what the ledger says is computed when it is written (of is history:
\* the ledger that said it).
Snapshot(p, l) ==
  [policy   |-> p,
   of       |-> l,
   open     |-> l.open,
   recent   |-> Cardinality(Recent(l.times)),
   cooldown |-> IF l.last = 0 \/ now - l.last >= Cooldown THEN 0
                                                         ELSE Cooldown - (now - l.last)]

\* An installation the operator has armed; epochs count from there.
Init ==
  /\ policy = [epoch |-> 0, confirmed |-> TRUE, mode |-> "normal", stage |-> "auto"]
  /\ ledger = [last |-> 0, by |-> [i \in Ids |-> 0], times |-> {}, rollbacks |-> 0,
               open |-> FALSE, acked |-> FALSE, applied |-> {}, rolledBack |-> {}]
  /\ now = 1 /\ projection = Snapshot(policy, ledger)
  /\ spool = None /\ claim = None /\ outcome = [i \in Ids |-> None]
  /\ pc = "down" /\ run = None /\ helper = Off
  /\ failed = {} /\ started = [i \in Ids |-> 0]
  /\ stale = {} /\ lost = FALSE
  /\ faults = 0

-----------------------------------------------------------------------------
(* AutoPolicy: decisions and records, on a loaded copy of the ledger *)

Fused(l) == (l.open /\ ~l.acked) \/ l.rollbacks >= FuseLimit
Cooling(l) == l.last # 0 /\ now - l.last < Cooldown
CoolingSame(l, i) == l.by[i] # 0 /\ now - l.by[i] < SameCooldown

\* Mutants: the fuse is not asked; one change too many in the window.
EligibleUnfused(l, i) == /\ ~CoolingSame(l, i) /\ ~Cooling(l)
                         /\ Cardinality(Recent(l.times)) < MaxPerHour

EligibleOffByOne(l, i) == /\ ~Fused(l) /\ ~CoolingSame(l, i) /\ ~Cooling(l)
                          /\ Cardinality(Recent(l.times)) <= MaxPerHour

\* evaluate: the fuse, the two cooldowns and the rate.
Eligible(l, i) == /\ ~Fused(l) /\ ~CoolingSame(l, i) /\ ~Cooling(l)
                  /\ Cardinality(Recent(l.times)) < MaxPerHour

\* record_apply: a commit never clears a fuse that has once been open.
RecordApply(l, i) ==
  IF i \in l.applied THEN l
  ELSE [l EXCEPT !.last = now, !.by[i] = now, !.times = Recent(@) \union {[id |-> i, at |-> now]},
                 !.rollbacks = IF l.open THEN @ ELSE 0,
                 !.applied = @ \union {i}]

\* record_rollback.  An apply and a rollback of one id are both recorded: the
\* commit hook may be followed by a crash.
RecordRollback(l, i) ==
  IF i \in l.rolledBack THEN l
  ELSE [l EXCEPT !.rollbacks = @ + 1,
                 !.open = @ \/ l.rollbacks + 1 >= FuseLimit,
                 !.acked = @ /\ l.rollbacks + 1 < FuseLimit,
                 !.rolledBack = @ \union {i}]

\* acknowledge_fuse: it stays open, but acknowledged.
Acknowledge(l) == IF l.open THEN [l EXCEPT !.acked = TRUE, !.rollbacks = 0] ELSE l

Bumped(p) == [p EXCEPT !.epoch = @ + 1]

-----------------------------------------------------------------------------
(* A run of the executor *)

Autos == Ids \ Manual
Failed(i) == IF i \in Manual THEN failed ELSE failed \union {i}

Outcome(i, o) == outcome' = [outcome EXCEPT ![i] = o]

\* A request in the spool may still be taken by a run that has loaded its copies.
TakesSpool == pc \in {"recover", "reconcile", "bump", "claim"} /\ ~run.gated

\* The spool belongs to the Runtime, which the root side does not trust: a
\* request may come whatever its gates say, bound to an epoch of the past.  (That
\* it may replace another is RouteIntent's.)
Approve(i) ==
  /\ outcome[i] = None /\ spool = None
  /\ \E e \in 0..policy.epoch :
       /\ spool' = [id |-> i, epoch |-> e]
       /\ stale' = IF e < policy.epoch /\ ~TakesSpool THEN stale \union {"spool"}
                                                      ELSE stale \ {"spool"}
  /\ UNCHANGED <<files, claim, outcome, pc, run, helper, now, failed, started, lost, faults>>

\* A command of the helper and a run of the executor overlap.
Overlaps(c) == c \in Racing /\ faults < MaxFaults /\ faults' = faults + 1

\* RouteExecutor.__init__ loads both files, once for the whole run.
Start == /\ pc = "down" /\ (spool # None \/ claim # None)
         /\ IF helper = Off THEN UNCHANGED faults ELSE Overlaps(helper.command)
         /\ run' = [policy |-> policy, ledger |-> ledger, gated |-> FALSE, met |-> {}]
         /\ pc' = IF claim # None THEN "recover" ELSE "claim"
         /\ UNCHANGED <<files, spool, claim, outcome, helper, now, history>>

\* What scan_recovery_state finds unsafe.
Unsettled == {i \in Ids : outcome[i] \in {"open", "failing", "unverified"}}

\* recover_all: what has no outcome is rolled back, or its rollback stays unverified.
Recover ==
  /\ pc = "recover" /\ pc' = "reconcile"
  /\ \E S \in SUBSET Unsettled :
       outcome' = [i \in Ids |-> IF i \in S THEN "rolledBack"
                                 ELSE IF i \in Unsettled THEN "unverified" ELSE outcome[i]]
  /\ failed' = failed \union {i \in Autos : outcome[i] = "open"}
  /\ UNCHANGED <<files, spool, claim, run, helper, now, started, stale, lost, faults>>

Write(l) == ledger' = l /\ run' = [run EXCEPT !.ledger = l]

\* RootExecutionPolicy.record_rollback: the ledger first, and the epoch when the
\* fuse opens that was not open before.
WriteRollback(i, next) ==
  LET l == RecordRollback(run.ledger, i)
  IN /\ Write(l)
     /\ pc' = IF l.open /\ ~run.ledger.open THEN "bump" ELSE next

Unrecorded == {i \in Autos :
                 \/ outcome[i] = "committed" /\ i \notin run.ledger.applied
                 \/ outcome[i] \in {"rolledBack", "unverified"} /\ i \notin run.ledger.rolledBack}

\* _reconcile_ledger.  After it an old claim is settled, or the recovery gate looks
\* again.
Reconcile ==
  /\ pc = "reconcile"
  /\ IF Unrecorded = {}
       THEN /\ UNCHANGED <<ledger, run>>
            /\ IF run.gated
                 THEN pc' = (IF Unsettled = {} THEN "start" ELSE "settle") /\ UNCHANGED claim
                 ELSE pc' = "claim" /\ claim' = None
       ELSE \E i \in Unrecorded :
              /\ UNCHANGED claim
              /\ IF outcome[i] = "committed"
                   THEN Write(RecordApply(run.ledger, i)) /\ UNCHANGED pc
                   ELSE WriteRollback(i, "reconcile")
  /\ UNCHANGED <<policy, projection, spool, outcome, helper, now, history, faults>>

Claim == /\ pc = "claim" /\ claim' = spool /\ spool' = None
         /\ pc' = IF spool = None THEN "settle" ELSE "gate"
         /\ stale' = IF "spool" \in stale THEN {"claim"} ELSE {}
         /\ UNCHANGED <<files, outcome, run, helper, now, failed, started, lost, faults>>

\* _root_gate and evaluate.
RootManual(p) == p.mode = "normal" /\ p.stage \in {"assist", "auto"}
RootAuto(p, l, i) == p.mode = "normal" /\ p.stage = "auto" /\ p.confirmed /\ Eligible(l, i)

Allowed == /\ run.policy.epoch = claim.epoch
           /\ IF claim.id \in Manual THEN RootManual(run.policy)
                                     ELSE RootAuto(run.policy, run.ledger, claim.id)

\* The policy is asked; then _global_recovery_gate, which may recover and record.
\* The gates that do not ask the policy may refuse.
Gate ==
  /\ pc = "gate"
  /\ \/ Allowed /\ pc' = IF Unsettled = {} THEN "start" ELSE "recover"
     \/ pc' = "settle"
  /\ run' = [run EXCEPT !.gated = TRUE, !.met = Unsettled]
  /\ UNCHANGED <<files, spool, claim, outcome, helper, now, history, faults>>

\* The intent proof may refuse, and the test of the candidate.  A request that is
\* decided is only reported again, with the projection.
Begin ==
  /\ pc = "start"
  /\ \/ /\ outcome[claim.id] = None
        /\ Outcome(claim.id, "open") /\ pc' = "txn"
        /\ started' = IF claim.id \in Manual THEN started ELSE [started EXCEPT ![claim.id] = now]
     \/ outcome[claim.id] # None /\ pc' = "project" /\ UNCHANGED <<outcome, started>>
     \/ pc' = "settle" /\ UNCHANGED <<outcome, started>>
  /\ UNCHANGED <<files, spool, claim, run, helper, now, failed, stale, lost, faults>>

\* The commit hook, before the outcome is durable.
CommitHook == /\ pc = "txn" /\ pc' = "commit"
              /\ Write(IF claim.id \in Manual THEN run.ledger
                                            ELSE RecordApply(run.ledger, claim.id))
              /\ failed' = IF claim.id \in Manual THEN failed ELSE {}
              /\ UNCHANGED <<policy, projection, spool, claim, outcome, helper, now, started,
                             stale, lost, faults>>

Commit == /\ pc = "commit" /\ pc' = "project"
          /\ Outcome(claim.id, "committed")
          /\ UNCHANGED <<files, spool, claim, run, helper, now, history, faults>>

\* The change fails; _rollback writes its intent.
Fails == /\ pc = "txn" /\ pc' = "rollback"
         /\ Outcome(claim.id, "failing") /\ failed' = Failed(claim.id)
         /\ UNCHANGED <<files, spool, claim, run, helper, now, started, stale, lost, faults>>

RollbackHook == /\ pc = "rollback"
                /\ IF claim.id \in Manual THEN pc' = "rolledBack" /\ UNCHANGED <<ledger, run>>
                   ELSE WriteRollback(claim.id, "rolledBack")
                /\ UNCHANGED <<policy, projection, spool, claim, outcome, helper, now, history,
                               faults>>

\* bump_execution_epoch: the loaded policy is written back whole.
Bump == /\ pc = "bump"
        /\ pc' = IF outcome[claim.id] = "failing" THEN "rolledBack" ELSE "reconcile"
        /\ policy' = Bumped(run.policy)
        /\ run' = [run EXCEPT !.policy = Bumped(@)]
        /\ stale' = stale \union (IF spool = None THEN {} ELSE {"spool"})
        /\ lost' = (lost \/ run.policy.epoch < policy.epoch)
        /\ UNCHANGED <<ledger, projection, spool, claim, outcome, helper, now, failed, started,
                       faults>>

RolledBack == /\ pc = "rolledBack" /\ pc' = "project"
              /\ Outcome(claim.id, "rolledBack")
              /\ UNCHANGED <<files, spool, claim, run, helper, now, history, faults>>

\* _rollback fails, before or after the record (a restart that fails, or a write):
\* an error, after which the claim is settled and the projection stays as it is.
Unverified == /\ pc \in {"rollback", "bump", "rolledBack"} /\ outcome[claim.id] = "failing"
              /\ pc' = "settle" /\ Outcome(claim.id, "unverified")
              /\ UNCHANGED <<files, spool, claim, run, helper, now, history, faults>>

\* _refresh_projection, of the loaded copies.
Project == /\ pc = "project" /\ pc' = "settle"
           /\ projection' = Snapshot(run.policy, run.ledger)
           /\ UNCHANGED <<policy, ledger, spool, claim, outcome, run, helper, now,
                          history, faults>>

Settle == /\ pc = "settle" /\ pc' = "down" /\ claim' = None /\ run' = None
          /\ stale' = stale \ {"claim"}
          /\ UNCHANGED <<files, spool, outcome, helper, now, failed, started, lost, faults>>

-----------------------------------------------------------------------------
(* The operator's helper *)

\* What a command makes of the policy.
Changed(p, c) == CASE c.do = "mode"         -> [p EXCEPT !.mode = c.to]
                   [] c.do = "route-stage"  -> [p EXCEPT !.stage = c.to]
                   [] c.do = "confirm"      -> [p EXCEPT !.confirmed = c.to]
                   [] c.do = "safe-disable" -> [p EXCEPT !.mode = "safe-disabled",
                                                         !.confirmed = FALSE]
                   [] c.do = "reset"        -> [p EXCEPT !.confirmed = FALSE]
                   [] OTHER                 -> p

\* Mutant: a confirmation, or its revocation, ends nothing.
OrderedKeeping(p, c) == IF c.do # "confirm" /\ Changed(p, c) # p THEN Bumped(Changed(p, c))
                                                              ELSE Changed(p, c)

\* safe-disable and reset always end the epoch, the others when they change something.
Ordered(p, c) == IF (c.do \in {"safe-disable", "reset"}) \/ (Changed(p, c) # p)
                   THEN Bumped(Changed(p, c)) ELSE p

\* The writes of a command, computed when the helper has loaded the files; the
\* projection is written also when nothing changes.
Writes(c) ==
  LET l == IF c.do = "acknowledge" THEN Acknowledge(ledger) ELSE ledger
      p == IF l.acked # ledger.acked THEN Bumped(policy) ELSE Ordered(policy, c)
  IN [command |-> c, from |-> policy.epoch, policy |-> p, ledger |-> l,
      left |-> {"projection"} \union (IF l = ledger THEN {} ELSE {"ledger"})
                              \union (IF p = policy THEN {} ELSE {"policy"})]

\* The order of the writes.
Due == IF "ledger" \in helper.left THEN "ledger"
       ELSE IF "policy" \in helper.left THEN "policy" ELSE "projection"

Command(c) ==
  /\ helper = Off /\ policy.epoch < MaxEpoch
  /\ IF pc = "down" THEN UNCHANGED faults ELSE Overlaps(c)
  /\ helper' = Writes(c)
  /\ UNCHANGED <<files, spool, claim, outcome, pc, run, now, history>>

HelperWrites ==
  /\ helper # Off
  /\ policy' = IF Due = "policy" THEN helper.policy ELSE policy
  /\ ledger' = IF Due = "ledger" THEN helper.ledger ELSE ledger
  /\ projection' = IF Due = "projection" THEN Snapshot(helper.policy, helper.ledger)
                                         ELSE projection
  /\ failed' = IF Due = "ledger" THEN {} ELSE failed
  /\ stale' = IF Due = "policy" /\ spool # None /\ ~TakesSpool THEN stale \union {"spool"}
                                                              ELSE stale
  /\ lost' = (lost \/ (Due = "policy" /\ helper.from < policy.epoch))
  /\ helper' = IF Due = "projection" THEN Off ELSE [helper EXCEPT !.left = @ \ {Due}]
  /\ UNCHANGED <<spool, claim, outcome, pc, run, now, started, faults>>

-----------------------------------------------------------------------------
(* The gates of the Runtime, on the projection *)

RuntimeManual(p) == p.policy.mode = "normal" /\ p.policy.stage \in {"assist", "auto"}

\* Mutant: the rate alone.
RuntimeAutoHot(p) == /\ p.policy.mode = "normal" /\ p.policy.stage = "auto"
                     /\ p.policy.confirmed /\ ~p.open /\ p.recent < MaxPerHour

\* _root_policy_gates and evaluate_plan_policy.
RuntimeAuto(p) == /\ p.policy.mode = "normal" /\ p.policy.stage = "auto"
                  /\ p.policy.confirmed /\ ~p.open
                  /\ p.recent < MaxPerHour /\ p.cooldown = 0

-----------------------------------------------------------------------------
(* The environment *)

Tick == /\ now < MaxTime /\ now' = now + 1
        /\ UNCHANGED <<files, spool, claim, outcome, pc, run, helper, history, faults>>

Crash == /\ faults < MaxFaults /\ faults' = faults + 1
         /\ \/ pc # "down" /\ pc' = "down" /\ run' = None /\ UNCHANGED helper
            \/ helper # Off /\ helper' = Off /\ UNCHANGED <<pc, run>>
         /\ UNCHANGED <<files, spool, claim, outcome, now, history>>

\* Nobody asks for anything.
Rest == pc = "down" /\ helper = Off /\ UNCHANGED vars

Next == \/ Start \/ Recover \/ Reconcile \/ Claim \/ Gate \/ Begin \/ CommitHook \/ Commit
        \/ Fails \/ RollbackHook \/ Bump \/ RolledBack \/ Unverified \/ Project \/ Settle
        \/ HelperWrites \/ Tick \/ Crash \/ Rest
        \/ \E i \in Ids : Approve(i)
        \/ \E c \in Commands : Command(c)

Spec == Init /\ [][Next]_vars

-----------------------------------------------------------------------------
(* Properties *)

\* Types; a run has its copies from start to end, and a claim from the gate on.
TypeOK ==
  /\ policy \in Policies /\ ledger \in Ledgers
  /\ {spool, claim} \subseteq Requests \union {None}
  /\ outcome \in [Ids -> Outcomes \union {None}]
  /\ run = None <=> pc = "down"
  /\ run \in Loaded \union {None}
  /\ pc \in {"down", "claim", "settle"} \/ claim # None
  /\ helper = Off \/ /\ helper \in [command : Commands, from : Nat, policy : Policies,
                                     ledger : Ledgers, left : SUBSET {"ledger", "policy", "projection"}]
                     /\ "projection" \in helper.left
  /\ projection.policy \in Policies /\ stale \subseteq {"spool", "claim"} /\ lost \in BOOLEAN
  /\ now \in 1..MaxTime /\ faults \in 0..MaxFaults

Starts(i) == outcome[i] = None /\ outcome'[i] = "open"

\* No automatic change is put live after FuseLimit failures in a row that the
\* operator has not acknowledged, the failure apart that the run's own recovery gate
\* met after the fuse was asked: the fuse it opens stops the next request, not this
\* one.  What ends a row is a record as applied, which comes before the outcome: a
\* crash between them rolls the change back, and the next row begins with it.
FuseBlocks == [][\A i \in Autos : Starts(i) => Cardinality(failed \ run.met) < FuseLimit]_vars

\* Committed changes keep the cooldown, and no window holds more than
\* MaxPerHour, measured by when they were put live.
RateIsBounded ==
  LET C == {i \in Autos : outcome[i] = "committed"}
  IN /\ \A i, j \in C : i = j \/ started[i] + Cooldown <= started[j]
                              \/ started[j] + Cooldown <= started[i]
     /\ \A S \in SUBSET C : Cardinality(S) > MaxPerHour =>
          \E i, j \in S : started[i] + Hour <= started[j]

\* "Any ApplyRequest bound to an older epoch is stale and blocked": a request that
\* waits when an order or the fuse ends its epoch, or that comes later, is never put
\* live, whatever later orders allow again and whatever order is given during a run.
\* (What a run takes that has loaded the policy before the order is not revoked, and
\* all is over when one writer's copy of the policy replaces a later one's.)
OrdersRevokeRequests == [][\A i \in Ids : Starts(i) => "claim" \notin stale \/ lost]_vars

\* With a projection of the files as they are, though of an earlier time, the
\* Runtime submits no request that the root side refuses for what they say, but for
\* the cooldown of one recommendation, which the projection does not tell: and there
\* the request is one that has been decided or is being decided.  Two implementations
\* of the gates, one on a snapshot.  The files keep their types.
Current == projection.policy = policy /\ projection.of = ledger

RuntimeIsNotWider ==
  /\ TypeOK
  /\ Current =>
       /\ RuntimeManual(projection) => RootManual(policy)
       /\ RuntimeAuto(projection) =>
            \A i \in Autos : \/ RootAuto(policy, ledger, i)
                             \/ CoolingSame(ledger, i) /\ outcome[i] # None

\* "Mirrors the root auto ledger": ... and submits what the root side allows.
RuntimeMirrorsRoot ==
  Current => ((\E i \in Autos : RootAuto(policy, ledger, i)) => RuntimeAuto(projection))
=============================================================================
