---------------------------- MODULE RouteExecutor ----------------------------
(***************************************************************************)
(* RouteExecutor.apply (route_executor.py), the root oneshot that drains   *)
(* the apply spool, around the transactions of RootTxn.  The Runtime plans *)
(* a request against the configuration and generation it sees and later    *)
(* spools it (apply.json); the executor claims it (apply.claim), checks    *)
(* it, recovers what an earlier run left behind and runs the transaction.  *)
(* step is the executor's place in apply; "down" when it does not run.     *)
(***************************************************************************)
EXTENDS RootTxn

CONSTANTS MaxEpoch  \* bound: how often an operator revokes queued requests

VARIABLES
  plan,     \* what each request is bound to: generation and configuration
  spool,    \* apply.json: a request and the executionEpoch it is bound to
  claim,    \* apply.claim
  epoch,    \* executionEpoch of the root policy file
  seen,     \* the executionEpoch this executor run has loaded
  step,
  missed    \* history: the ledger failed in the gate since it was last complete

files    == <<plan, spool, claim, epoch>>
execVars == <<plan, spool, claim, epoch, seen, step, missed>>
allVars  == <<vars, execVars>>

ASSUME BoundsOK == MaxEpoch \in Nat /\ None \notin [gen : Nat, src : Contents]

ExecInit == /\ Init
            /\ plan = [t \in Txns |-> None]
            /\ spool = None /\ claim = None
            /\ epoch = 0 /\ seen = 0 /\ step = "down" /\ missed = FALSE

At(from, to) == step = from /\ step' = to

-----------------------------------------------------------------------------
(* The Runtime and the operator *)

\* A plan's recommendationId is a fingerprint of generation and configuration:
\* the same id never stands for two plans.
Plan(t) ==
  /\ plan[t] = None /\ managed # Absent /\ gen \in 0..MaxGen
  /\ plan' = [plan EXCEPT ![t] = [gen |-> gen, src |-> managed]]
  /\ UNCHANGED <<vars, spool, claim, epoch, seen, step, missed>>

\* _spool_apply_request replaces whatever apply.json held.
Approve(t) ==
  /\ plan[t] # None
  /\ spool' = [id |-> t, epoch |-> epoch]
  /\ UNCHANGED <<vars, plan, claim, epoch, seen, step, missed>>

\* Any root policy transition that makes queued requests stale.
Revoke == /\ epoch < MaxEpoch /\ epoch' = epoch + 1
          /\ UNCHANGED <<vars, plan, spool, claim, seen, step, missed>>

-----------------------------------------------------------------------------
(* One run of the executor *)

\* The path unit starts it for a new apply.json and for a claim left behind.
Start == /\ step = "down" /\ (spool # None \/ claim # None)
         /\ seen' = epoch
         /\ step' = IF claim # None THEN "recover1" ELSE "claim"
         /\ UNCHANGED <<vars, files, missed>>

\* recover_all, in phase 1 and inside the recovery gate.
Recover(from, to) ==
  /\ At(from, to)
  /\ IF made = {} THEN UNCHANGED vars ELSE RecoverAll
  /\ UNCHANGED <<files, seen, missed>>

Reconciled(from, to) == /\ pc = "idle" /\ At(from, to) /\ Reconcile
                        /\ missed' = FALSE /\ UNCHANGED <<files, seen>>

ReconcileSkipped == /\ pc = "idle" /\ At("reconcile1", "report")
                    /\ UNCHANGED <<vars, files, seen, missed>>

RecoverClaim   == Recover("recover1", "reconcile1")
ReconcileClaim == Reconciled("reconcile1", "report")

ReportKeepingUndecided ==
  /\ step = "report"
  /\ IF bundle[claim.id] # None THEN step' = "claim" /\ claim' = None
                                ELSE step' = "down" /\ UNCHANGED claim
  /\ UNCHANGED <<vars, plan, spool, epoch, seen, missed>>

\* The old claim is settled with the outcome of its bundle, or quarantined when
\* it has none or has expired.  Either way it is gone.
Report == /\ At("report", "claim") /\ claim' = None
          /\ UNCHANGED <<vars, plan, spool, epoch, seen, missed>>

\* What the Runtime writes passes the checks of the spool and of the request; what
\* does not is refused like at the gates.
Claim == /\ At("claim", IF spool = None THEN "down" ELSE "gate")
         /\ claim' = spool /\ spool' = None
         /\ UNCHANGED <<vars, plan, epoch, seen, missed>>

GateIgnoringEpoch == /\ (At("gate", "bind") \/ At("gate", "settle"))
                     /\ UNCHANGED <<vars, files, seen, missed>>

\* _release_gate, the mode and stage checks and _root_gate: only the epoch is
\* modelled, the others may refuse any request.
Gate == /\ \/ At("gate", "bind") /\ claim.epoch = seen
           \/ At("gate", "settle")
        /\ UNCHANGED <<vars, files, seen, missed>>

\* The managed file and the generation must be those of the plan.
Bind == /\ At("bind", IF managed = plan[claim.id].src /\ gen = plan[claim.id].gen
                        THEN "scan" ELSE "settle")
        /\ UNCHANGED <<vars, files, seen, missed>>

ScanSkipped == At("scan", "prove") /\ UNCHANGED <<vars, files, seen, missed>>

\* _global_recovery_gate: scan, recover and reconcile if needed, scan again.
Scan      == /\ At("scan", IF AreaSafe THEN "prove" ELSE "recover2")
             /\ UNCHANGED <<vars, files, seen, missed>>
RecoverOthers   == Recover("recover2", "reconcile2")
ReconcileOthers == Reconciled("reconcile2", "rescan")
Rescan    == /\ At("rescan", IF AreaSafe THEN "prove" ELSE "settle")
             /\ UNCHANGED <<vars, files, seen, missed>>

\* _root_intent_proof recomputes an automatic request's operations from the
\* file: against another configuration than planned they need not be the same.
Prove == /\ \/ At("prove", "run")
            \/ /\ At("prove", "settle")
               /\ claim.id \in AutoTxns /\ managed # plan[claim.id].src
         /\ UNCHANGED <<vars, files, seen, missed>>

\* _run_transaction compiles the candidate from the file as it is now.
Run == /\ At("run", "txn")
       /\ Begin(claim.id, plan[claim.id].gen, bundle[claim.id] # None)
       /\ UNCHANGED <<files, seen, missed>>

Done == /\ pc = "idle" /\ At("txn", "settle")
        /\ UNCHANGED <<vars, files, seen, missed>>

Settle == /\ At("settle", "down") /\ claim' = None
          /\ UNCHANGED <<vars, plan, spool, epoch, seen, missed>>

\* The steps of recover_all and of the transaction itself.
TxnWork  == Work /\ UNCHANGED execVars
TxnFault == Fault /\ UNCHANGED execVars

\* A failing write of the ledger ends the run, which leaves the old claim; in
\* the recovery gate it rejects the new request.
LedgerFault == /\ WritesFail /\ faults < MaxFaults /\ faults' = faults + 1
               /\ pc = "idle"
               /\ \/ At("reconcile1", "down") /\ UNCHANGED missed
                  \/ At("reconcile2", "settle") /\ missed' = TRUE
               /\ UNCHANGED <<dirs, parts, host, ledger, pc, cur, phase, todo>>
               /\ UNCHANGED <<files, seen>>

ExecCrash == /\ step # "down" /\ step' = "down"
             /\ Crash /\ UNCHANGED <<files, seen, missed>>

HostEditsConfig == /\ HostEdits = "always" \/ step = "down"
                   /\ HostEdit /\ UNCHANGED execVars

-----------------------------------------------------------------------------
ExecWork ==
  \/ Start \/ RecoverClaim \/ ReconcileClaim \/ Report \/ Claim \/ Gate \/ Bind
  \/ Scan \/ RecoverOthers \/ ReconcileOthers \/ Rescan \/ Prove \/ Run \/ Done
  \/ Settle \/ TxnWork

ExecNext == \/ ExecWork \/ TxnFault \/ LedgerFault \/ ExecCrash
            \/ HostEditsConfig \/ Revoke
            \/ \E t \in Txns : Plan(t) \/ Approve(t)

ExecSpec == ExecInit /\ [][ExecNext]_allVars

\* The path unit (PathExists=apply.claim) starts the executor as long as a claim
\* is there, and a oneshot runs to its end unless it crashes.  Nothing is
\* assumed of a request that only lies in the spool.
ExecFair == ExecSpec /\ WF_allVars(claim # None /\ ExecWork)
-----------------------------------------------------------------------------
(* Properties *)

\* Types; a claim is held exactly while a run works on it or has left it over.
ExecTypeOK ==
  /\ TypeOK
  /\ plan \in [Txns -> [gen : 0..MaxGen, src : Contents] \union {None}]
  /\ spool \in [id : Txns, epoch : 0..epoch] \union {None}
  /\ claim \in [id : Txns, epoch : 0..epoch] \union {None}
  /\ epoch \in 0..MaxEpoch /\ seen \in 0..epoch /\ missed \in BOOLEAN
  /\ step \in {"down", "recover1", "reconcile1", "report", "claim", "gate",
               "bind", "scan", "recover2", "reconcile2", "rescan", "prove",
               "run", "txn", "settle"}
  /\ step \in {"gate", "bind", "scan", "recover2", "reconcile2", "rescan",
               "prove", "run", "txn", "settle"} => claim # None
  /\ pc # "idle" => step \in {"reconcile1", "reconcile2", "txn"}

\* Nothing is running, left over or unsettled.
Quiet == step = "down" /\ claim = None /\ AreaSafe

\* The state is type-correct, and once all is quiet the ledger counts every
\* automatic rollback: the fuse that stops automatic changes after repeated
\* failures misses none.  (Unless the ledger could not be written in the recovery
\* gate: nobody reconciles it then until the next claim is left over.)
RollbacksAreCounted ==
  /\ ExecTypeOK
  /\ Quiet /\ ~missed => \A t \in AutoTxns : bundle[t] = "rolledBack" => t \in rolled

\* A run that has loaded a newer epoch never touches the host for a request
\* spooled before the revocation, not even when it resumes a leftover claim.
NoRevokedMutation ==
  [][\A t \in Txns : phase = "apply" /\ managed # t /\ managed' = t =>
       claim = [id |-> t, epoch |-> seen]]_allVars

\* The executor calls the transaction only as RootTxn allows: past the gate,
\* on a settled area, with an id that has one meaning.
HonoursTxnContract == Spec

\* Whatever a crash leaves in between is taken up again for the claim it leaves, and
\* decided, or marked as a rollback that is not verified.  No more is promised: such
\* a directory is unsafe, the Runtime then sends nothing, and the executor leaves it
\* to a person.
EventuallyDecided ==
  \A t \in Txns :
    (step = "down" /\ claim # None /\ wstate[t] \in Recoverable)
      ~> (bundle[t] # None \/ wstate[t] = "rollbackUnverified")

\* A claim left behind by a crash does not block the spool for ever.
ClaimIsReleased == claim # None ~> claim = None
=============================================================================
