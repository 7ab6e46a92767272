------------------------------ MODULE RootTxn ------------------------------
(***************************************************************************)
(* RootTransaction (root_txn.py): the protocol by which the root helper    *)
(* replaces the managed Xray configuration.  One action per durable write, *)
(* so a crash falls between any two of them.  A work directory t holds     *)
(* state.json (wstate), managed.backup with its metadata (backup, old),    *)
(* commit-bundle.json (bundle) and result.json / receipt.json; generation, *)
(* the managed file and route-delivery.json are shared by all of them.     *)
(*                                                                         *)
(* A configuration is identified by who wrote it: a transaction's          *)
(* candidate by the transaction, a host edit by a member of Edits.         *)
(***************************************************************************)
EXTENDS Naturals

CONSTANTS
  Txns,       \* recommendation ids, each with a work directory of its own
  AutoTxns,   \* those whose request has applyType "auto"
  Edits,      \* configurations the host installs by itself
  Absent,     \* content of a managed file that does not exist
  Down,       \* what Xray runs after a failed restart
  None,
  MaxGen,     \* bound: generations a request may be bound to are 0..MaxGen
  MaxFaults,  \* bound: crashes and failing writes, together
  WritesFail, \* may a write fail, or do only crashes happen
  HostEdits   \* when the host edits the file: "settled", "stopped" or "always"

Contents == Txns \union Edits \union {Absent}
Terminal == {"committed", "rolledBack", "rollbackUnverified"}
Recoverable == {"prepared", "applying", "applied", "verified",
                "commit-intent", "rollback-intent"}

ASSUME ConstantsOK ==
  /\ AutoTxns \subseteq Txns
  /\ Txns \intersect (Edits \union {Absent}) = {}
  /\ Absent \notin Edits
  /\ None \notin Contents \union Terminal \union Recoverable
  /\ Down \notin Contents
  /\ MaxGen \in Nat /\ MaxFaults \in Nat /\ WritesFail \in BOOLEAN
  /\ HostEdits \in {"settled", "stopped", "always"}

VARIABLES
  made, wstate, backup, old, bundle, result, receipt,  \* work directories
  gen, delivery, managed,                              \* shared files
  applied, rolled,       \* processedOutcomes of the auto ledger
  running,               \* the configuration Xray runs
  pc, cur, phase, todo,  \* the helper process: lost in a crash
  faults

dirs   == <<made, wstate, backup, old, bundle>>
parts  == <<result, receipt, gen, delivery>>
host   == <<managed, running>>
ledger == <<applied, rolled>>
vars   == <<made, wstate, backup, old, bundle, result, receipt, gen, delivery,
            managed, running, applied, rolled, pc, cur, phase, todo, faults>>

\* scan_recovery_state: the verdict on one work directory.
Safe(t) == /\ wstate[t] \in {"committed", "rolledBack"}
           /\ bundle[t] # None /\ t \in result /\ t \in receipt

\* _global_recovery_gate: may a new mutation start?
AreaSafe == \A t \in made : Safe(t)

Init ==
  /\ made = {} /\ result = {} /\ receipt = {} /\ todo = {}
  /\ wstate = [t \in Txns |-> None]
  /\ backup = [t \in Txns |-> None]
  /\ old = [t \in Txns |-> 0]
  /\ bundle = [t \in Txns |-> None]
  /\ gen = 0 /\ delivery = None
  /\ managed \in Edits \union {Absent} /\ running = managed
  /\ applied = {} /\ rolled = {}
  /\ pc = "idle" /\ cur = None /\ phase = "none" /\ faults = 0

Goto(to) == pc' = to /\ UNCHANGED <<cur, phase, todo>>

ReturnForgetsPhase ==
  /\ cur' = None /\ todo' = todo \ {cur} /\ UNCHANGED phase
  /\ pc' = IF phase = "recover" THEN "recover" ELSE "idle"

\* Return to the caller, or to the loop of recover_all.
Return ==
  /\ cur' = None /\ todo' = todo \ {cur}
  /\ IF phase = "recover" THEN pc' = "recover" /\ UNCHANGED phase
                          ELSE pc' = "idle" /\ phase' = "none"

-----------------------------------------------------------------------------
(* apply: from the claim of the work directory to commit intent *)

\* The head of apply for a request bound to generation g.  A decided request
\* only has its artifacts materialized again; one bound to another generation
\* is refused, but its (still empty) work directory stays.
Begin(t, g, decided) ==
  /\ pc = "idle"
  /\ made' = made \union {t}
  /\ IF decided \/ gen = g
       THEN /\ pc' = (IF decided THEN "gen" ELSE "backup")
            /\ cur' = t /\ phase' = "apply"
       ELSE UNCHANGED <<pc, cur, phase>>
  /\ UNCHANGED <<wstate, backup, old, bundle, parts, host, ledger, todo, faults>>

\* The executor calls apply only past the recovery gate.  An id is a
\* fingerprint of, among others, the generation the request is bound to.
Invoke(t, g) == /\ AreaSafe
                /\ bundle[t] # None => g = old[t]
                /\ Begin(t, g, bundle[t] # None)

\* Backup, backup-metadata.json and request.json, which nobody reads before
\* state.json says "prepared".
Backup ==
  /\ pc = "backup" /\ Goto("prepared")
  /\ backup' = [backup EXCEPT ![cur] = IF @ = None THEN managed ELSE @]
  /\ old' = [old EXCEPT ![cur] = gen]
  /\ UNCHANGED <<made, wstate, bundle, parts, host, ledger, faults>>

\* The writes of state.json that announce what comes next.
Marks == [prepared     |-> <<"prepared", "preverify">>,
          applying     |-> <<"applying", "mutate">>,
          applied      |-> <<"applied", "verify">>,
          verified     |-> <<"verified", "commitIntent">>,
          commitIntent |-> <<"commit-intent", "hook">>,
          rbIntent     |-> <<"rollback-intent", "restore">>]

Mark ==
  /\ pc \in DOMAIN Marks
  /\ wstate' = [wstate EXCEPT ![cur] = Marks[pc][1]]
  /\ Goto(Marks[pc][2])
  /\ UNCHANGED <<made, backup, old, bundle, parts, host, ledger, faults>>

PreVerify ==
  /\ pc = "preverify" /\ (Goto("applying") \/ Goto("rmtree"))
  /\ UNCHANGED <<dirs, parts, host, ledger, faults>>

\* shutil.rmtree after a rejected candidate removes entries in any order.
Rmtree ==
  /\ pc = "rmtree"
  /\ \/ /\ wstate[cur] # None /\ wstate' = [wstate EXCEPT ![cur] = None]
        /\ Goto("rmtree") /\ UNCHANGED <<made, backup>>
     \/ /\ backup[cur] # None /\ backup' = [backup EXCEPT ![cur] = None]
        /\ Goto("rmtree") /\ UNCHANGED <<made, wstate>>
     \/ /\ wstate[cur] = None /\ backup[cur] = None
        /\ made' = made \ {cur} /\ Return /\ UNCHANGED <<wstate, backup>>
  /\ UNCHANGED <<old, bundle, parts, host, ledger, faults>>

Mutate ==
  /\ pc = "mutate" /\ Goto("restart")
  /\ managed' = cur
  /\ UNCHANGED <<dirs, parts, running, ledger, faults>>

\* restart_xray: systemctl restart, then is-active.  A failure may leave the
\* service down, on the file's content (a late start) or as it was.
RestartOk(from, to) ==
  /\ pc = from /\ Goto(to)
  /\ running' = managed
  /\ UNCHANGED <<dirs, parts, managed, ledger, faults>>

RestartFails(from, to) ==
  /\ pc = from /\ Goto(to)
  /\ running' \in {Down, managed, running}
  /\ UNCHANGED <<dirs, parts, managed, ledger, faults>>

\* The failing half of a try block in apply: _rollback starts.
StartRollback == /\ pc' = "rbIntent" /\ phase' = "rollback"
                 /\ UNCHANGED <<cur, todo>>

Restart == \/ RestartOk("restart", "applied")
           \/ /\ pc = "restart" /\ StartRollback
              /\ running' \in {Down, managed, running}
              /\ UNCHANGED <<dirs, parts, managed, ledger, faults>>

\* verify_fn: the file still is the candidate.
Verify ==
  /\ pc = "verify"
  /\ IF managed = cur THEN Goto("verified") ELSE StartRollback
  /\ UNCHANGED <<dirs, parts, host, ledger, faults>>

CommitHookSkipped ==
  /\ pc = "hook" /\ Goto("bundle")
  /\ UNCHANGED <<dirs, parts, host, ledger, faults>>

CommitHook ==
  /\ pc = "hook" /\ Goto("bundle")
  /\ applied' = applied \union ({cur} \intersect AutoTxns)
  /\ UNCHANGED <<dirs, parts, host, rolled, faults>>

-----------------------------------------------------------------------------
(* The commit bundle and what is materialized from it *)

WriteBundle ==
  /\ pc = "bundle" /\ Goto("gen")
  /\ bundle' = [bundle EXCEPT ![cur] =
                  IF phase = "apply" THEN "committed" ELSE "rolledBack"]
  /\ UNCHANGED <<made, wstate, backup, old, parts, host, ledger, faults>>

NextGen(t) == IF bundle[t] = "committed" THEN old[t] + 1 ELSE old[t]

\* The order in which _materialize_artifacts writes.
AfterGenEager == "terminal"
AfterGen      == "result"

MaterializeGen ==
  /\ pc = "gen" /\ Goto(AfterGen)
  /\ gen' = NextGen(cur)
  /\ UNCHANGED <<dirs, result, receipt, delivery, host, ledger, faults>>

MaterializeResult ==
  /\ pc = "result" /\ Goto("receipt")
  /\ result' = result \union {cur}
  /\ UNCHANGED <<dirs, receipt, gen, delivery, host, ledger, faults>>

MaterializeReceipt ==
  /\ pc = "receipt" /\ Goto("delivery")
  /\ receipt' = receipt \union {cur}
  /\ UNCHANGED <<dirs, result, gen, delivery, host, ledger, faults>>

MaterializeDelivery ==
  /\ pc = "delivery" /\ Goto("terminal")
  /\ delivery' = cur
  /\ UNCHANGED <<dirs, result, receipt, gen, host, ledger, faults>>

MaterializeTerminal ==
  /\ pc = "terminal" /\ Return
  /\ wstate' = [wstate EXCEPT ![cur] = bundle[cur]]
  /\ UNCHANGED <<made, backup, old, bundle, parts, host, ledger, faults>>

-----------------------------------------------------------------------------
(* _rollback and _rollback_recover *)

RestoreUnlessAbsent ==
  /\ pc = "restore" /\ Goto("rbRestart")
  /\ managed' = IF backup[cur] = Absent THEN managed ELSE backup[cur]
  /\ UNCHANGED <<dirs, parts, running, ledger, faults>>

Restore ==
  /\ pc = "restore" /\ Goto("rbRestart")
  /\ managed' = backup[cur]
  /\ UNCHANGED <<dirs, parts, running, ledger, faults>>

RestartRestoredSkipped ==
  /\ pc = "rbRestart" /\ Goto("rbGen")
  /\ UNCHANGED <<dirs, parts, host, ledger, faults>>

RestartRestored == RestartOk("rbRestart", "rbGen")

RestartRestoredFails == RestartFails("rbRestart", "unverified")

RestoreGen ==
  /\ pc = "rbGen" /\ Goto("rbVerify")
  /\ gen' = old[cur]
  /\ UNCHANGED <<dirs, result, receipt, delivery, host, ledger, faults>>

\* The file must be the backup again; an absent file is not looked at.
RbVerify ==
  /\ pc = "rbVerify"
  /\ Goto(IF backup[cur] \notin {Absent, managed} THEN "unverified"
          ELSE IF phase = "rollback" THEN "rbHook" ELSE "bundle")
  /\ UNCHANGED <<dirs, parts, host, ledger, faults>>

RollbackHook ==
  /\ pc = "rbHook" /\ Goto("bundle")
  /\ rolled' = rolled \union ({cur} \intersect AutoTxns)
  /\ UNCHANGED <<dirs, parts, host, applied, faults>>

MarkUnverified ==
  /\ pc = "unverified" /\ Return
  /\ wstate' = [wstate EXCEPT ![cur] = "rollbackUnverified"]
  /\ UNCHANGED <<made, backup, old, bundle, parts, host, ledger, faults>>

-----------------------------------------------------------------------------
(* recover_all *)

RecoverAll ==
  /\ pc = "idle" /\ made # {}
  /\ pc' = "recover" /\ phase' = "recover" /\ todo' = made /\ cur' = cur
  /\ UNCHANGED <<dirs, parts, host, ledger, faults>>

RecoverEntryByState(t) ==
  IF wstate[t] = None THEN "skip"
  ELSE IF wstate[t] \in {"committed", "rolledBack"} THEN "gen"
  ELSE IF backup[t] = None THEN "unverified" ELSE "restore"

RecoverEntrySkipping(t) ==
  IF bundle[t] # None THEN "gen"
  ELSE IF wstate[t] \in {None, "commit-intent"} THEN "skip"
  ELSE IF backup[t] = None THEN "unverified" ELSE "restore"

\* What _recover_one does first: a bundle is materialized, a directory without
\* a state is passed over, anything else is rolled back if its backup is there.
RecoverEntry(t) ==
  IF bundle[t] # None THEN "gen"
  ELSE IF wstate[t] = None THEN "skip"
  ELSE IF backup[t] = None THEN "unverified" ELSE "restore"

\* iterdir: the directories come in any order.
RecoverOne ==
  /\ pc = "recover"
  /\ \/ /\ todo = {} /\ pc' = "idle" /\ phase' = "none" /\ UNCHANGED <<cur, todo>>
     \/ \E t \in todo :
          /\ UNCHANGED phase
          /\ IF RecoverEntry(t) = "skip"
               THEN todo' = todo \ {t} /\ UNCHANGED <<pc, cur>>
               ELSE pc' = RecoverEntry(t) /\ cur' = t /\ UNCHANGED todo
  /\ UNCHANGED <<dirs, parts, host, ledger, faults>>

\* _reconcile_ledger, which the executor calls after recover_all.  Each record
\* is idempotent per outcome, so an interrupted pass is simply done again.
Reconcile ==
  /\ pc = "idle"
  /\ applied' = applied \union {t \in AutoTxns : wstate[t] = "committed"}
  /\ rolled' = rolled \union
       {t \in AutoTxns : wstate[t] \in {"rolledBack", "rollbackUnverified"}}
  /\ UNCHANGED <<dirs, parts, host, pc, cur, phase, todo, faults>>

-----------------------------------------------------------------------------
(* The environment *)

\* Where an exception leads: out of apply, into _rollback, or to the handler
\* that marks the transaction rollbackUnverified.
Fault ==
  /\ WritesFail /\ faults < MaxFaults /\ faults' = faults + 1
  /\ CASE pc \in {"backup", "prepared", "preverify", "rmtree", "rbIntent"} -> Return
       [] pc \in {"applying", "mutate", "applied", "verify", "verified",
                  "commitIntent", "hook"} -> StartRollback
       [] pc \in {"bundle", "gen", "result", "receipt", "delivery", "terminal",
                  "restore", "rbGen", "rbVerify", "rbHook"} ->
            IF phase = "apply" THEN Return ELSE Goto("unverified")
       [] pc = "unverified" -> Return
       [] OTHER -> FALSE
  /\ UNCHANGED <<dirs, parts, host, ledger>>

\* The process is killed or the machine reboots, which starts Xray afresh.
Crash ==
  /\ faults < MaxFaults /\ faults' = faults + 1
  /\ pc' = "idle" /\ cur' = None /\ phase' = "none" /\ todo' = {}
  /\ running' \in {running, managed}
  /\ UNCHANGED <<dirs, parts, managed, ledger>>

\* The host's own tools install a configuration and restart Xray.
HostEdit ==
  /\ HostEdits = "always" \/ (pc = "idle" /\ (HostEdits = "stopped" \/ AreaSafe))
  /\ managed' \in Edits /\ running' = managed'
  /\ UNCHANGED <<dirs, parts, ledger, pc, cur, phase, todo, faults>>

-----------------------------------------------------------------------------
Work ==
  \/ Backup \/ Mark \/ PreVerify \/ Rmtree \/ Mutate \/ Restart \/ Verify
  \/ CommitHook \/ WriteBundle \/ MaterializeGen \/ MaterializeResult
  \/ MaterializeReceipt \/ MaterializeDelivery \/ MaterializeTerminal
  \/ Restore \/ RestartRestored \/ RestartRestoredFails \/ RestoreGen
  \/ RbVerify \/ RollbackHook \/ MarkUnverified \/ RecoverOne

Next == \/ Work \/ RecoverAll \/ Reconcile \/ Fault \/ Crash \/ HostEdit
        \/ \E t \in Txns, g \in 0..MaxGen : Invoke(t, g)

Spec == Init /\ [][Next]_vars

-----------------------------------------------------------------------------
(* Properties *)

Steps == {"idle", "backup", "prepared", "preverify", "rmtree", "applying",
          "mutate", "restart", "applied", "verify", "verified", "commitIntent",
          "hook", "bundle", "gen", "result", "receipt", "delivery", "terminal",
          "rbIntent", "restore", "rbRestart", "rbGen", "rbVerify", "rbHook",
          "unverified", "recover"}

\* Types, and the discipline of the helper's own variables: outside a call
\* nothing of the last call is left.
TypeOK ==
  /\ made \subseteq Txns /\ result \subseteq Txns /\ receipt \subseteq Txns
  /\ wstate \in [Txns -> Terminal \union Recoverable \union {None}]
  /\ backup \in [Txns -> Contents \union {None}]
  /\ old \in [Txns -> Nat] /\ gen \in Nat /\ faults \in Nat
  /\ bundle \in [Txns -> {None, "committed", "rolledBack"}]
  /\ delivery \in Txns \union {None}
  /\ managed \in Contents /\ running \in Contents \union {Down}
  /\ applied \subseteq AutoTxns /\ rolled \subseteq AutoTxns
  /\ pc \in Steps /\ todo \subseteq Txns
  /\ phase \in {"none", "apply", "rollback", "recover"}
  /\ IF pc = "idle" THEN phase = "none" /\ todo = {} ELSE phase # "none"
  /\ IF pc \in {"idle", "recover"} THEN cur = None ELSE cur \in Txns

\* A work directory whose state.json says committed or rolledBack has a bundle
\* with that very outcome and both artifacts: no crash, failing write or order
\* of recovery makes an incomplete transaction look finished.
TerminalIsComplete ==
  \A t \in Txns : wstate[t] \in {"committed", "rolledBack"} =>
    bundle[t] = wstate[t] /\ t \in result /\ t \in receipt

\* Every committed automatic change is in the ledger, from the moment its
\* outcome is durable: the cooldown and rate limits never miss one.
CommitIsInLedger ==
  \A t \in AutoTxns : bundle[t] = "committed" => t \in applied

\* A durable outcome is never revised, whatever recovery meets later.
OutcomeIsFinal ==
  [][\A t \in Txns : bundle[t] # None => bundle'[t] = bundle[t]]_vars

\* A candidate reaches the live file only for a request not decided yet, and
\* only while every other transaction is settled.
MutationIsExclusive ==
  [][\A t \in Txns : phase = "apply" /\ managed # t /\ managed' = t =>
       bundle[t] = None /\ \A u \in made \ {t} : Safe(u)]_vars

\* Whenever the area is safe, Xray runs the configuration on the disk.
Converged == pc = "idle" /\ AreaSafe => running = managed

\* The transactions that have begun and have no outcome yet.
Undecided == {t \in Txns : wstate[t] # None /\ bundle[t] = None /\ backup[t] # None}

\* The configuration a crash would leave once recovery has run.
Settled == IF Undecided = {} THEN managed ELSE backup[CHOOSE t \in Undecided : TRUE]

Abstract == INSTANCE AtomicConfig WITH config <- Settled, outcome <- bundle

\* Seen through recovery, a request takes effect in one step or not at all.
Atomic == Abstract!Spec
=============================================================================
