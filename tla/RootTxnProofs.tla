--------------------------- MODULE RootTxnProofs ---------------------------
(***************************************************************************)
(* Proofs about the root transaction and the executor that drives it, for  *)
(* any sets of requests and host edits, any number of crashes, revocations *)
(* and failing writes, and hosts that edit at any time.  The transaction's *)
(* inductive invariant adds to TypeOK what each place in the helper's      *)
(* control flow knows about the transaction at hand; two consequences of   *)
(* it concern the host, and the executor is shown to keep the contract     *)
(* under which the transaction runs before it gets an invariant of its     *)
(* own.                                                                    *)
(***************************************************************************)
EXTENDS RouteExecutor, TLAPS

-----------------------------------------------------------------------------
(* The transaction *)

\* apply between its backup and the durable commit intent.
Forward == {"prepared", "preverify", "applying", "mutate", "restart",
            "applied", "verify", "verified", "commitIntent", "hook"}

\* _rollback and _rollback_recover, after the intent is written.
Backward == {"restore", "rbRestart", "rbGen", "rbVerify", "rbHook"}

\* Where the transaction at hand has no outcome yet, and where it has one.
Open   == Forward \union Backward \union {"backup", "rmtree", "rbIntent", "bundle"}
Closed == {"gen", "result", "receipt", "delivery", "terminal"}

\* Which phase a place belongs to; recover_all alone has a to-do list.
PhaseInv ==
  /\ pc \in Forward \union {"backup", "rmtree"} => phase = "apply"
  /\ pc = "rbIntent" => phase = "rollback"
  /\ pc \in Backward => phase \in {"rollback", "recover"}
  /\ pc = "recover" => phase = "recover"
  /\ phase # "recover" => todo = {}

\* What the place says of the outcome, the artifacts and the backup.
PlaceInv ==
  /\ pc \in Open => bundle[cur] = None
  /\ pc \in Closed => bundle[cur] # None
  /\ pc \in {"receipt", "delivery", "terminal"} => cur \in result
  /\ pc \in {"delivery", "terminal"} => cur \in receipt
  /\ pc \in Forward \union {"rbIntent", "restore"} => backup[cur] # None
  /\ pc = "bundle" /\ phase = "apply" /\ cur \in AutoTxns => cur \in applied

\* Every transaction but the one being applied is settled.
AloneInv == phase = "apply" => \A u \in made \ {cur} : Safe(u)

IInv == /\ TypeOK /\ PhaseInv /\ PlaceInv /\ AloneInv
        /\ TerminalIsComplete /\ CommitIsInLedger

\* Nothing is open and nothing runs.
LEMMA Initially == Init => IInv
  BY ConstantsOK DEF Init, IInv, TypeOK, Steps, Contents, Terminal, Recoverable, PhaseInv, PlaceInv,
     AloneInv, TerminalIsComplete, CommitIsInLedger, Forward, Backward, Open,
     Closed

\* One step per action; under it, what that action can disturb.
LEMMA Inductive == IInv /\ [Next]_vars => IInv'
<1> SUFFICES ASSUME IInv, [Next]_vars PROVE IInv'
  OBVIOUS
<1> USE ConstantsOK DEF IInv, TypeOK, Steps, Contents, Terminal, Recoverable,
      PhaseInv, PlaceInv, AloneInv, Safe, TerminalIsComplete, CommitIsInLedger,
      Forward, Backward, Open, Closed, dirs, parts, host, ledger
<1>1. CASE Backup
  BY <1>1 DEF Backup, Goto
<1>2. CASE Mark
  BY <1>2 DEF Mark, Marks, Goto
<1>3. CASE PreVerify
  BY <1>3 DEF PreVerify, Goto
<1>4. CASE Rmtree
  BY <1>4 DEF Rmtree, Goto, Return
<1>5. CASE Mutate
  BY <1>5 DEF Mutate, Goto
<1>6. CASE Restart
  BY <1>6 DEF Restart, RestartOk, StartRollback, Goto
<1>7. CASE Verify
  BY <1>7 DEF Verify, Goto, StartRollback
<1>8. CASE CommitHook
  BY <1>8 DEF CommitHook, Goto
<1>9. CASE WriteBundle
  BY <1>9 DEF WriteBundle, Goto
<1>10. CASE MaterializeGen
  BY <1>10 DEF MaterializeGen, Goto, AfterGen, NextGen
<1>11. CASE MaterializeResult
  BY <1>11 DEF MaterializeResult, Goto
<1>12. CASE MaterializeReceipt
  BY <1>12 DEF MaterializeReceipt, Goto
<1>13. CASE MaterializeDelivery
  BY <1>13 DEF MaterializeDelivery, Goto
<1>14. CASE MaterializeTerminal
  BY <1>14 DEF MaterializeTerminal, Return
<1>15. CASE Restore
  BY <1>15 DEF Restore, Goto
<1>16. CASE RestartRestored
  BY <1>16 DEF RestartRestored, RestartOk, Goto
<1>17. CASE RestartRestoredFails
  BY <1>17 DEF RestartRestoredFails, RestartFails, Goto
<1>18. CASE RestoreGen
  BY <1>18 DEF RestoreGen, Goto
<1>19. CASE RbVerify
  BY <1>19 DEF RbVerify, Goto
<1>20. CASE RollbackHook
  BY <1>20 DEF RollbackHook, Goto
<1>21. CASE MarkUnverified
  BY <1>21 DEF MarkUnverified, Return
<1>22. CASE RecoverOne
  BY <1>22 DEF RecoverOne, RecoverEntry
<1>23. CASE RecoverAll
  BY <1>23 DEF RecoverAll
<1>24. CASE Reconcile
  BY <1>24 DEF Reconcile
<1>25. CASE Fault
  BY <1>25 DEF Fault, Return, StartRollback, Goto
<1>26. CASE Crash
  BY <1>26 DEF Crash
<1>27. CASE HostEdit
  BY <1>27 DEF HostEdit
<1>28. ASSUME NEW t \in Txns, NEW g \in 0..MaxGen, Invoke(t, g) PROVE IInv'
  BY <1>28 DEF Invoke, Begin, AreaSafe
<1>29. CASE UNCHANGED vars
  BY <1>29 DEF vars
<1> QED
  BY <1>1, <1>2, <1>3, <1>4, <1>5, <1>6, <1>7, <1>8, <1>9, <1>10, <1>11, <1>12, <1>13, <1>14, <1>15, <1>16, <1>17, <1>18, <1>19, <1>20, <1>21, <1>22, <1>23, <1>24, <1>25, <1>26, <1>27, <1>28, <1>29 DEF Next, Work

\* So it holds of every behaviour.
LEMMA Invariance == Spec => []IInv
<1>1. Init => IInv
  BY Initially
<1>2. IInv /\ [Next]_vars => IInv'
  BY Inductive
<1> QED
  BY <1>1, <1>2, PTL DEF Spec

-----------------------------------------------------------------------------
\* Every reachable state is well typed, and outside a call the helper has no
\* current transaction, phase or to-do list left over from an earlier one.
THEOREM TypeCorrect == Spec => []TypeOK
<1>1. IInv => TypeOK
  BY DEF IInv
<1> QED
  BY <1>1, Invariance, PTL

\* No crash, failing write or order of recovery makes an incomplete
\* transaction look finished (state.json of root_txn.py).
THEOREM TerminalStatesAreComplete == Spec => []TerminalIsComplete
<1>1. IInv => TerminalIsComplete
  BY DEF IInv
<1> QED
  BY <1>1, Invariance, PTL

\* The commit hook runs before the outcome is durable: the ledger never misses
\* a committed automatic change.
THEOREM CommitsAreInLedger == Spec => []CommitIsInLedger
<1>1. IInv => CommitIsInLedger
  BY DEF IInv
<1> QED
  BY <1>1, Invariance, PTL

\* commit-bundle.json, once written, is never written again.
THEOREM OutcomesAreFinal == Spec => OutcomeIsFinal
<1> DEFINE Final == \A t \in Txns : bundle[t] # None => bundle'[t] = bundle[t]
<1>1. IInv /\ [Next]_vars => [Final]_vars
  <2> SUFFICES ASSUME IInv, Next PROVE Final
    OBVIOUS
  <2> USE DEF dirs
  <2>1. CASE WriteBundle
    \* The only step that writes a bundle finds none.
    BY <2>1 DEF WriteBundle, IInv, TypeOK, PlaceInv, Open
  <2>2. ASSUME UNCHANGED bundle PROVE Final
    BY <2>2
  <2>3. CASE Work /\ ~WriteBundle
    BY <2>2, <2>3 DEF Work, Backup, Mark, PreVerify, Rmtree, Mutate, Restart,
       RestartOk, Verify, CommitHook, MaterializeGen, MaterializeResult,
       MaterializeReceipt, MaterializeDelivery, MaterializeTerminal, Restore,
       RestartRestored, RestartRestoredFails, RestartFails, RestoreGen,
       RbVerify, RollbackHook, MarkUnverified, RecoverOne
  <2>4. CASE RecoverAll \/ Reconcile \/ Fault \/ Crash \/ HostEdit
    BY <2>2, <2>4 DEF RecoverAll, Reconcile, Fault, Crash, HostEdit
  <2>5. ASSUME NEW t \in Txns, NEW g \in 0..MaxGen, Invoke(t, g) PROVE Final
    BY <2>2, <2>5 DEF Invoke, Begin
  <2> QED
    BY <2>1, <2>3, <2>4, <2>5 DEF Next
<1> QED
  BY <1>1, Invariance, PTL DEF Spec, OutcomeIsFinal

\* Only Mutate puts a candidate in place, and it does so with no outcome for
\* it yet and every other transaction settled.
THEOREM MutationsAreExclusive == Spec => MutationIsExclusive
<1> DEFINE Exclusive ==
      \A t \in Txns : phase = "apply" /\ managed # t /\ managed' = t =>
        bundle[t] = None /\ \A u \in made \ {t} : Safe(u)
<1>1. IInv /\ [Next]_vars => [Exclusive]_vars
  <2> SUFFICES ASSUME IInv, Next PROVE Exclusive
    OBVIOUS
  <2> USE DEF host
  <2>1. CASE Mutate
    BY <2>1 DEF Mutate, IInv, TypeOK, PlaceInv, AloneInv, Open, Forward
  <2>2. CASE Restore
    BY <2>2 DEF Restore, IInv, PhaseInv, Backward
  <2>3. CASE HostEdit
    BY <2>3, ConstantsOK DEF HostEdit
  <2>4. ASSUME UNCHANGED managed PROVE Exclusive
    BY <2>4
  <2>5. CASE Work /\ ~Mutate /\ ~Restore
    BY <2>4, <2>5 DEF Work, Backup, Mark, PreVerify, Rmtree, Restart,
       RestartOk, Verify, CommitHook, WriteBundle, MaterializeGen,
       MaterializeResult, MaterializeReceipt, MaterializeDelivery,
       MaterializeTerminal, RestartRestored, RestartRestoredFails,
       RestartFails, RestoreGen, RbVerify, RollbackHook, MarkUnverified,
       RecoverOne
  <2>6. CASE RecoverAll \/ Reconcile \/ Fault \/ Crash
    BY <2>4, <2>6 DEF RecoverAll, Reconcile, Fault, Crash
  <2>7. ASSUME NEW t \in Txns, NEW g \in 0..MaxGen, Invoke(t, g)
        PROVE  Exclusive
    BY <2>4, <2>7 DEF Invoke, Begin
  <2> QED
    BY <2>1, <2>2, <2>3, <2>5, <2>6, <2>7 DEF Next
<1> QED
  BY <1>1, Invariance, PTL DEF Spec, MutationIsExclusive

-----------------------------------------------------------------------------
(* The host: whenever the area is settled Xray runs what is on the disk,   *)
(* and, as long as the host edits the file only on a settled area, RootTxn *)
(* implements AtomicConfig: seen through recovery a request takes effect   *)
(* at once or not at all.                                                  *)

\* After the restart with the candidate, and with the restored configuration.
Restarted == {"applied", "verify", "verified", "commitIntent", "hook"}
Restored  == {"rbGen", "rbVerify", "rbHook"}

\* Xray runs something else than the file only while some transaction has no
\* outcome, and never when an outcome is about to be written.
RunningInv ==
  /\ running # managed => \E t \in made : bundle[t] = None
  /\ pc \in {"backup", "prepared", "preverify", "applying", "mutate", "rmtree",
              "bundle"} \union Restarted \union Restored => running = managed
  /\ pc \notin {"idle", "recover"} => cur \in made
  /\ todo \subseteq made

\* At first Xray runs the file.
LEMMA RunningInitially == Init => RunningInv
  BY DEF Init, RunningInv, Restarted, Restored, Open, Forward, Backward

\* Which of file and process is ahead, step by step.
LEMMA RunningInductive == IInv /\ RunningInv /\ [Next]_vars => RunningInv'
<1> SUFFICES ASSUME IInv, RunningInv, [Next]_vars PROVE RunningInv'
  OBVIOUS
<1> USE ConstantsOK DEF IInv, TypeOK, Steps, PhaseInv, PlaceInv, RunningInv, Restarted,
      Restored, Forward, Backward, Open, Closed, dirs, parts, host, ledger
<1>1. CASE Backup
  BY <1>1 DEF Backup, Goto
<1>2. CASE Mark
  BY <1>2 DEF Mark, Marks, Goto
<1>3. CASE PreVerify
  BY <1>3 DEF PreVerify, Goto
<1>4. CASE Rmtree
  BY <1>4 DEF Rmtree, Goto, Return
<1>5. CASE Mutate
  BY <1>5 DEF Mutate, Goto
<1>6. CASE Restart
  BY <1>6 DEF Restart, RestartOk, StartRollback, Goto
<1>7. CASE Verify
  BY <1>7 DEF Verify, Goto, StartRollback
<1>8. CASE CommitHook
  BY <1>8 DEF CommitHook, Goto
<1>9. CASE WriteBundle
  BY <1>9 DEF WriteBundle, Goto
<1>10. CASE MaterializeGen
  BY <1>10 DEF MaterializeGen, Goto, AfterGen, NextGen
<1>11. CASE MaterializeResult
  BY <1>11 DEF MaterializeResult, Goto
<1>12. CASE MaterializeReceipt
  BY <1>12 DEF MaterializeReceipt, Goto
<1>13. CASE MaterializeDelivery
  BY <1>13 DEF MaterializeDelivery, Goto
<1>14. CASE MaterializeTerminal
  BY <1>14 DEF MaterializeTerminal, Return
<1>15. CASE Restore
  BY <1>15 DEF Restore, Goto
<1>16. CASE RestartRestored
  BY <1>16 DEF RestartRestored, RestartOk, Goto
<1>17. CASE RestartRestoredFails
  BY <1>17 DEF RestartRestoredFails, RestartFails, Goto
<1>18. CASE RestoreGen
  BY <1>18 DEF RestoreGen, Goto
<1>19. CASE RbVerify
  BY <1>19 DEF RbVerify, Goto
<1>20. CASE RollbackHook
  BY <1>20 DEF RollbackHook, Goto
<1>21. CASE MarkUnverified
  BY <1>21 DEF MarkUnverified, Return
<1>22. CASE RecoverOne
  BY <1>22 DEF RecoverOne, RecoverEntry
<1>23. CASE RecoverAll
  BY <1>23 DEF RecoverAll
<1>24. CASE Reconcile
  BY <1>24 DEF Reconcile
<1>25. CASE Fault
  BY <1>25 DEF Fault, Return, StartRollback, Goto
<1>26. CASE Crash
  BY <1>26 DEF Crash
<1>27. CASE HostEdit
  BY <1>27 DEF HostEdit, AreaSafe
<1>28. ASSUME NEW t \in Txns, NEW g \in 0..MaxGen, Invoke(t, g) PROVE RunningInv'
  BY <1>28 DEF Invoke, Begin, AreaSafe, Safe
<1>29. CASE UNCHANGED vars
  BY <1>29 DEF vars
<1> QED
  BY <1>1, <1>2, <1>3, <1>4, <1>5, <1>6, <1>7, <1>8, <1>9, <1>10, <1>11, <1>12, <1>13, <1>14, <1>15, <1>16, <1>17, <1>18, <1>19, <1>20, <1>21, <1>22, <1>23, <1>24, <1>25, <1>26, <1>27, <1>28, <1>29 DEF Next, Work

\* Whenever the area is safe, Xray runs the configuration on the disk, however
\* many restarts, writes and helper runs have failed before, and whenever the
\* host edits the file.
THEOREM HostConverges == Spec => []Converged
<1>1. IInv /\ RunningInv => Converged
  BY DEF IInv, PhaseInv, RunningInv, Converged, AreaSafe, Safe
<1>2. Init => RunningInv
  BY RunningInitially
<1>3. IInv /\ RunningInv /\ [Next]_vars => RunningInv'
  BY RunningInductive
<1> QED
  BY <1>1, <1>2, <1>3, Invariance, PTL DEF Spec

-----------------------------------------------------------------------------
\* At most one work directory has no outcome, an unused one has nothing in it,
\* and the place of the helper says which content the managed file has.
FileInv ==
  /\ \A t, u \in made : bundle[t] = None /\ bundle[u] = None => t = u
  /\ \A t \in Txns \ made : wstate[t] = None /\ backup[t] = None
  /\ pc \in {"backup", "prepared"} => wstate[cur] = None
  /\ pc = "backup" => backup[cur] = None
  /\ pc \in (Forward \ {"prepared"}) \union Backward \union {"rbIntent", "bundle"}
       => wstate[cur] # None /\ backup[cur] # None
  /\ pc \in {"prepared", "preverify", "applying", "mutate"} \union Restored
            \union {"rbRestart"} => managed = backup[cur]
  /\ pc = "rmtree" => backup[cur] \in {None, managed}
  /\ pc \in Restarted \union {"restart"} => managed = cur
  /\ pc = "bundle" => managed = IF phase = "apply" THEN cur ELSE backup[cur]
  /\ pc = "unverified" /\ bundle[cur] = None /\ backup[cur] # None
       => wstate[cur] # None

\* No transaction has touched the file.
LEMMA FileInitially == Init => FileInv
  BY ConstantsOK DEF Init, FileInv, Restarted, Restored, Forward, Backward

\* The file is the candidate or the backup of the one open transaction.
LEMMA FileInductive ==
  ASSUME HostEdits = "settled"
  PROVE  IInv /\ RunningInv /\ FileInv /\ [Next]_vars => FileInv'
<1> SUFFICES ASSUME IInv, RunningInv, FileInv, [Next]_vars PROVE FileInv'
  OBVIOUS
<1> USE ConstantsOK DEF IInv, TypeOK, Steps, PhaseInv, PlaceInv, RunningInv, FileInv,
      Restarted, Restored, Forward, Backward, Open, Closed, Contents, Terminal,
      Recoverable, dirs, parts, host, ledger
<1>1. CASE Backup
  BY <1>1 DEF Backup, Goto
<1>2. CASE Mark
  BY <1>2 DEF Mark, Marks, Goto
<1>3. CASE PreVerify
  BY <1>3 DEF PreVerify, Goto
<1>4. CASE Rmtree
  BY <1>4 DEF Rmtree, Goto, Return
<1>5. CASE Mutate
  BY <1>5 DEF Mutate, Goto
<1>6. CASE Restart
  BY <1>6 DEF Restart, RestartOk, StartRollback, Goto
<1>7. CASE Verify
  BY <1>7 DEF Verify, Goto, StartRollback
<1>8. CASE CommitHook
  BY <1>8 DEF CommitHook, Goto
<1>9. CASE WriteBundle
  BY <1>9 DEF WriteBundle, Goto
<1>10. CASE MaterializeGen
  BY <1>10 DEF MaterializeGen, Goto, AfterGen, NextGen
<1>11. CASE MaterializeResult
  BY <1>11 DEF MaterializeResult, Goto
<1>12. CASE MaterializeReceipt
  BY <1>12 DEF MaterializeReceipt, Goto
<1>13. CASE MaterializeDelivery
  BY <1>13 DEF MaterializeDelivery, Goto
<1>14. CASE MaterializeTerminal
  BY <1>14 DEF MaterializeTerminal, Return
<1>15. CASE Restore
  BY <1>15 DEF Restore, Goto
<1>16. CASE RestartRestored
  BY <1>16 DEF RestartRestored, RestartOk, Goto
<1>17. CASE RestartRestoredFails
  BY <1>17 DEF RestartRestoredFails, RestartFails, Goto
<1>18. CASE RestoreGen
  BY <1>18 DEF RestoreGen, Goto
<1>19. CASE RbVerify
  BY <1>19 DEF RbVerify, Goto
<1>20. CASE RollbackHook
  BY <1>20 DEF RollbackHook, Goto
<1>21. CASE MarkUnverified
  BY <1>21 DEF MarkUnverified, Return
<1>22. CASE RecoverOne
  BY <1>22 DEF RecoverOne, RecoverEntry
<1>23. CASE RecoverAll
  BY <1>23 DEF RecoverAll
<1>24. CASE Reconcile
  BY <1>24 DEF Reconcile
<1>25. CASE Fault
  BY <1>25 DEF Fault, Return, StartRollback, Goto
<1>26. CASE Crash
  BY <1>26 DEF Crash
<1>27. CASE HostEdit
  BY <1>27 DEF HostEdit, AreaSafe, Safe
<1>28. ASSUME NEW t \in Txns, NEW g \in 0..MaxGen, Invoke(t, g) PROVE FileInv'
  BY <1>28 DEF Invoke, Begin, AreaSafe, Safe
<1>29. CASE UNCHANGED vars
  BY <1>29 DEF vars
<1> QED
  BY <1>1, <1>2, <1>3, <1>4, <1>5, <1>6, <1>7, <1>8, <1>9, <1>10, <1>11, <1>12, <1>13, <1>14, <1>15, <1>16, <1>17, <1>18, <1>19, <1>20, <1>21, <1>22, <1>23, <1>24, <1>25, <1>26, <1>27, <1>28, <1>29 DEF Next, Work

\* What a reader of Settled needs: a lone undecided transaction stands for the
\* configuration of its backup.
LEMMA SettledValue ==
  ASSUME TypeOK, FileInv
  PROVE  /\ Undecided \subseteq made
         /\ \A t \in Undecided : Undecided = {t} /\ Settled = backup[t]
         /\ Undecided = {} => Settled = managed
<1>1. Undecided \subseteq made
  BY DEF Undecided, FileInv
<1>2. ASSUME NEW t \in Undecided PROVE Undecided = {t}
  BY <1>1, <1>2 DEF Undecided, FileInv
<1>3. ASSUME NEW t \in Undecided PROVE Settled = backup[t]
  <2>1. Undecided = {t}
    BY <1>2
  <2>2. (CHOOSE u \in Undecided : TRUE) = t
    BY <2>1
  <2> QED
    BY <2>1, <2>2 DEF Settled
<1> QED
  BY <1>1, <1>2, <1>3 DEF Settled

\* A step that leaves managed, the outcomes and the undecided transactions
\* with their backups alone is a stutter of AtomicConfig.
LEMMA Stutter ==
  ASSUME UNCHANGED <<managed, bundle>>, Undecided' = Undecided,
         \A t \in Undecided : backup'[t] = backup[t]
  PROVE  UNCHANGED Abstract!vars
<1>1. CASE Undecided = {}
  BY <1>1 DEF Settled, Abstract!vars
<1>2. CASE Undecided # {}
  <2>1. (CHOOSE t \in Undecided : TRUE) \in Undecided
    BY <1>2
  <2>2. (CHOOSE t \in Undecided' : TRUE) = (CHOOSE t \in Undecided : TRUE)
    OBVIOUS
  <2> QED
    BY <1>2, <2>1, <2>2 DEF Settled, Abstract!vars
<1> QED
  BY <1>1, <1>2

\* Every action is a step of AtomicConfig, or a stutter.
LEMMA StepRefines ==
  ASSUME HostEdits = "settled", IInv, RunningInv, FileInv, TypeOK', FileInv', Next
  PROVE  [Abstract!Next]_(Abstract!vars)
<1> USE ConstantsOK DEF Contents, Terminal, Recoverable
<1>0. TypeOK
  BY DEF IInv
<1>1. CASE Mark
  <2>1. cur \in Txns /\ Marks[pc][1] # None /\ backup[cur] # None /\ bundle[cur] = None
    BY <1>0, <1>1 DEF Mark, Marks, TypeOK, IInv, PlaceInv, Open, Forward
  <2>2. CASE pc = "prepared"
    \* The backup that recovery would restore is what the file still holds.
    <3>1. cur \in Undecided' /\ managed = backup[cur]
      BY <1>0, <1>1, <2>1, <2>2 DEF Mark, Undecided, TypeOK, FileInv, parts, host
    <3>2. Settled' = managed
      <4>1. Undecided' = {cur}
        BY <3>1 DEF Undecided, FileInv, TypeOK
      <4>2. (CHOOSE t \in Undecided' : TRUE) = cur
        BY <4>1
      <4> QED
        BY <1>1, <3>1, <4>1, <4>2 DEF Settled, Mark
    <3>3. Undecided = {}
      BY <1>0, <1>1, <2>2, <3>1, SettledValue DEF Mark, Undecided, FileInv, TypeOK
    <3> QED
      BY <1>0, <1>1, <3>2, <3>3, SettledValue DEF Mark, Abstract!vars
  <2>3. CASE pc # "prepared"
    <3>1. wstate[cur] # None
      BY <1>0, <1>1, <2>3 DEF Mark, Marks, FileInv, Forward
    <3>2. Undecided' = Undecided
      BY <1>0, <1>1, <2>1, <3>1 DEF Mark, Undecided, TypeOK
    <3> QED
      BY <1>1, <3>2, Stutter DEF Mark, host
  <2> QED
    BY <2>2, <2>3
<1>2. CASE Backup
  <2>1. wstate[cur] = None /\ cur \in Txns
    BY <1>0, <1>2 DEF Backup, FileInv, TypeOK
  <2>2. Undecided' = Undecided /\ \A t \in Undecided : backup'[t] = backup[t]
    BY <1>0, <1>2, <2>1 DEF Backup, Undecided, TypeOK
  <2> QED
    BY <1>2, <2>2, Stutter DEF Backup, host
<1>3. CASE Rmtree
  \* The file was never touched, so the vanishing backup equals it.
  <2>1. cur \in Txns /\ cur \in made /\ backup[cur] \in {None, managed} /\ bundle[cur] = None
    BY <1>0, <1>3 DEF Rmtree, FileInv, RunningInv, TypeOK, IInv, PlaceInv, Open
  <2>2. Undecided \subseteq {cur} /\ Undecided' \subseteq {cur}
    BY <1>0, <1>3, <2>1 DEF Rmtree, Undecided, FileInv, TypeOK
  <2>3. Settled = managed
    BY <1>0, <2>1, <2>2, SettledValue DEF Undecided
  <2>4. backup'[cur] \in {None, managed}
    BY <1>0, <1>3, <2>1 DEF Rmtree, TypeOK
  <2>5. Settled' = managed
    <3>1. Undecided' # {} => (CHOOSE t \in Undecided' : TRUE) = cur
      BY <2>2
    <3>2. \A t \in Undecided' : backup'[t] # None
      BY DEF Undecided
    <3> QED
      BY <1>3, <2>2, <2>4, <3>1, <3>2 DEF Settled, Rmtree, host
  <2> QED
    BY <1>3, <2>3, <2>5 DEF Rmtree, host, Abstract!vars
<1>4. CASE Mutate \/ Restore
  \* The file changes while the backup stands for it.
  <2>1. cur \in Undecided
    BY <1>0, <1>4 DEF Mutate, Restore, Undecided, FileInv, TypeOK, IInv, PlaceInv,
       Open, Forward, Backward
  <2>2. Undecided' = Undecided /\ backup' = backup /\ bundle' = bundle
    BY <1>4 DEF Mutate, Restore, Undecided, dirs
  <2>3. (CHOOSE t \in Undecided' : TRUE) = (CHOOSE t \in Undecided : TRUE)
    BY <2>2
  <2> QED
    BY <2>1, <2>2, <2>3 DEF Settled, Abstract!vars
<1>5. CASE WriteBundle
  <2>1. cur \in Txns /\ bundle[cur] = None /\ cur \in Undecided
    BY <1>0, <1>5 DEF WriteBundle, Undecided, FileInv, TypeOK, IInv, PlaceInv, Open
  <2>2. Settled = backup[cur]
    BY <1>0, <2>1, SettledValue
  <2>3. bundle'[cur] # None
    BY <1>0, <1>5, <2>1 DEF WriteBundle, TypeOK
  <2>4. Undecided' \subseteq Undecided \ {cur}
    BY <1>0, <1>5, <2>1, <2>3 DEF WriteBundle, Undecided, TypeOK
  <2>5. Undecided' = {}
    BY <1>0, <2>1, <2>4, SettledValue
  <2>6. Settled' = managed
    BY <1>5, <2>5 DEF WriteBundle, Settled, host
  <2>7. CASE phase = "apply"
    <3>1. managed = cur
      BY <1>5, <2>7 DEF WriteBundle, FileInv
    <3>2. Abstract!Commit(cur)
      BY <1>5, <2>1, <2>6, <2>7, <3>1 DEF WriteBundle, Abstract!Commit
    <3> QED
      BY <2>1, <3>2 DEF Abstract!Next
  <2>8. CASE phase # "apply"
    <3>1. managed = backup[cur]
      BY <1>5, <2>8 DEF WriteBundle, FileInv
    <3>2. Abstract!RollBack(cur)
      BY <1>5, <2>1, <2>2, <2>6, <2>8, <3>1 DEF WriteBundle, Abstract!RollBack
    <3> QED
      BY <2>1, <3>2 DEF Abstract!Next
  <2> QED
    BY <2>7, <2>8
<1>6. CASE MaterializeTerminal \/ MarkUnverified
  <2>1. Undecided' = Undecided
    BY <1>0, <1>6 DEF MaterializeTerminal, MarkUnverified, Undecided, TypeOK,
       FileInv, IInv, PlaceInv, Closed
  <2> QED
    BY <1>6, <2>1, Stutter DEF MaterializeTerminal, MarkUnverified, host
<1>7. CASE HostEdit
  <2>1. AreaSafe
    BY <1>7 DEF HostEdit
  <2>2. Undecided = {} /\ Undecided' = {}
    BY <1>0, <1>7, <2>1, SettledValue DEF HostEdit, AreaSafe, Safe, Undecided, dirs
  <2>3. Settled' = managed' /\ bundle' = bundle
    BY <1>7, <2>2 DEF HostEdit, Settled, dirs
  <2> QED
    BY <1>7, <2>3 DEF HostEdit, Abstract!HostEdit, Abstract!Next
<1>8. ASSUME UNCHANGED <<wstate, backup, bundle, managed>>
      PROVE  UNCHANGED Abstract!vars
  BY <1>8, Stutter DEF Undecided
<1>9. CASE \/ PreVerify \/ Restart \/ Verify \/ CommitHook \/ MaterializeGen
           \/ MaterializeResult \/ MaterializeReceipt \/ MaterializeDelivery
           \/ RestartRestored \/ RestartRestoredFails \/ RestoreGen \/ RbVerify
           \/ RollbackHook \/ RecoverOne
  BY <1>8, <1>9 DEF PreVerify, Restart, Verify, CommitHook, MaterializeGen,
     MaterializeResult, MaterializeReceipt, MaterializeDelivery, RestartOk,
     RestartFails, RestartRestored, RestartRestoredFails, RestoreGen, RbVerify,
     RollbackHook, RecoverOne, dirs, host
<1>10. CASE RecoverAll \/ Reconcile \/ Fault \/ Crash
  BY <1>8, <1>10 DEF RecoverAll, Reconcile, Fault, Crash, dirs, host
<1>11. ASSUME NEW t \in Txns, NEW g \in 0..MaxGen, Invoke(t, g)
       PROVE  UNCHANGED Abstract!vars
  BY <1>8, <1>11 DEF Invoke, Begin, host
<1> QED
  BY <1>1, <1>2, <1>3, <1>4, <1>5, <1>6, <1>7, <1>9, <1>10, <1>11 DEF Next, Work

\* On a host that edits its configuration only while the area is settled, a
\* request becomes the live configuration or leaves it alone, whatever crashes
\* and failing writes its transaction meets.
THEOREM Refinement ==
  ASSUME HostEdits = "settled"
  PROVE  Spec => Atomic
<1>1. Init => Abstract!Init
  BY ConstantsOK DEF Init, Abstract!Init, Settled, Undecided
<1>2. IInv /\ RunningInv /\ FileInv /\ IInv' /\ FileInv' /\ [Next]_vars
        => [Abstract!Next]_(Abstract!vars)
  <2> SUFFICES ASSUME IInv, RunningInv, FileInv, IInv', FileInv', [Next]_vars
               PROVE  [Abstract!Next]_(Abstract!vars)
    OBVIOUS
  <2>1. CASE Next
    BY <2>1, StepRefines DEF IInv
  <2>2. CASE UNCHANGED vars
    BY <2>2, Stutter DEF vars, Undecided
  <2> QED
    BY <2>1, <2>2
<1>3. Init => RunningInv /\ FileInv
  BY RunningInitially, FileInitially
<1>4. IInv /\ RunningInv /\ FileInv /\ [Next]_vars => RunningInv' /\ FileInv'
  BY RunningInductive, FileInductive
<1> QED
  BY <1>1, <1>2, <1>3, <1>4, Invariance, PTL DEF Spec, Atomic, Abstract!Spec

-----------------------------------------------------------------------------
(* The executor keeps the contract of RootTxn, so that the invariant above *)
(* holds of its runs too; what is left concerns the steps of apply.        *)

\* Past the claim there is one, past the gate it is of this run's epoch, and past
\* the recovery gate the area is settled.
Claiming == {"recover1", "reconcile1", "report", "gate", "bind", "scan", "recover2",
             "reconcile2", "rescan", "prove", "run", "txn", "settle"}
Gated    == {"bind", "scan", "recover2", "reconcile2", "rescan", "prove", "run", "txn"}

RunInv ==
  /\ step \in Claiming => claim # None
  /\ step \in Gated => claim.epoch = seen
  /\ step \in {"prove", "run"} => AreaSafe
  /\ phase \in {"apply", "rollback"} => step = "txn" /\ cur = claim.id
  /\ phase = "recover" => step \in {"reconcile1", "reconcile2"}

\* A work directory was made for a plan, and is bound to its generation.
Bound(t) == plan[t] # None /\ old[t] = plan[t].gen

PlanInv ==
  /\ spool # None => plan[spool.id] # None
  /\ claim # None => plan[claim.id] # None
  /\ \A t \in Txns : backup[t] # None \/ bundle[t] # None => Bound(t)
  /\ pc \in Backward \union {"bundle"} => backup[cur] # None
  /\ pc = "backup" => gen = plan[cur].gen

\* A directory with an outcome stays.
DirInv ==
  /\ \A t \in Txns : bundle[t] # None => t \in made
  /\ cur # None => cur \in made
  /\ todo \subseteq made

\* A rolled back request that the ledger has not counted is unsafe, or will be
\* reconciled: by this run, or by the next one for the claim that is left over.
Uncounted(t) == bundle[t] = "rolledBack" /\ t \notin rolled
Reconciling  == {"recover1", "reconcile1", "recover2", "reconcile2"}

CountInv ==
  /\ ~missed => \A t \in AutoTxns : Uncounted(t) =>
       ~Safe(t) \/ step \in Reconciling \/ (step = "down" /\ claim # None)
  /\ pc = "bundle" /\ phase = "rollback" /\ cur \in AutoTxns => cur \in rolled
  /\ step = "txn" /\ pc \in Closed /\ cur \in AutoTxns /\ bundle[cur] = "rolledBack"
       => missed \/ cur \in rolled

ExecInv == IInv /\ ExecTypeOK /\ RunInv /\ PlanInv /\ DirInv /\ CountInv

-----------------------------------------------------------------------------
(* The contract *)

\* Steps of the executor that leave the transaction area alone.
Aside == \/ Start \/ Report \/ Claim \/ Gate \/ Bind \/ Scan \/ Rescan \/ Prove \/ Done
         \/ Settle \/ Revoke \/ \E t \in Txns : Plan(t) \/ Approve(t)

\* They do.
LEMMA AsideKeepsVars == Aside => UNCHANGED vars
BY DEF Aside, Start, Report, Claim, Gate, Bind, Scan, Rescan, Prove, Done, Settle, Revoke, Plan,
       Approve

\* apply is called past the gate, and a decided id comes with the generation it
\* was decided at.
LEMMA RunInvokes == ExecInv /\ Run => Next
<1> SUFFICES ASSUME ExecInv, Run PROVE Next
  OBVIOUS
<1>1. claim.id \in Txns /\ plan[claim.id] # None /\ AreaSafe
  BY DEF ExecInv, RunInv, PlanInv, ExecTypeOK, Run, At, Claiming
<1>2. plan[claim.id].gen \in 0..MaxGen
  BY <1>1 DEF ExecInv, ExecTypeOK
<1>3. bundle[claim.id] # None => plan[claim.id].gen = old[claim.id]
  BY <1>1 DEF ExecInv, PlanInv, Bound
<1>4. Invoke(claim.id, plan[claim.id].gen)
  BY <1>1, <1>3 DEF Run, Invoke
<1> QED
  BY <1>1, <1>2, <1>4 DEF Next

\* What the executor does to the area is a step of RootTxn.
LEMMA StepsOfContract == ExecInv /\ [ExecNext]_allVars => [Next]_vars
<1> SUFFICES ASSUME ExecInv, [ExecNext]_allVars PROVE [Next]_vars
  OBVIOUS
<1>1. CASE Aside
  BY <1>1, AsideKeepsVars
<1>2. CASE RecoverClaim \/ RecoverOthers
  BY <1>2 DEF RecoverClaim, RecoverOthers, Recover, Next
<1>3. CASE ReconcileClaim \/ ReconcileOthers
  BY <1>3 DEF ReconcileClaim, ReconcileOthers, Reconciled, Next
<1>4. CASE Run
  BY <1>4, RunInvokes
<1>5. CASE TxnWork \/ TxnFault
  BY <1>5 DEF TxnWork, TxnFault, Next
<1>6. CASE LedgerFault
  <2>1. Crash
    BY <1>6 DEF LedgerFault, Crash, dirs, parts, host, ledger, ExecInv, IInv, TypeOK
  <2> QED
    BY <2>1 DEF Next
<1>7. CASE ExecCrash \/ HostEditsConfig
  BY <1>7 DEF ExecCrash, HostEditsConfig, Next
<1>8. CASE UNCHANGED allVars
  BY <1>8 DEF allVars
<1> QED
  BY <1>1, <1>2, <1>3, <1>4, <1>5, <1>6, <1>7, <1>8 DEF ExecNext, ExecWork, Aside

\* So the invariant of RootTxn is one of the executor.
LEMMA TxnInvStep == ExecInv /\ [ExecNext]_allVars => IInv'
BY StepsOfContract, Inductive DEF ExecInv

-----------------------------------------------------------------------------
(* Types, and the place in apply *)

\* Any step of RootTxn keeps its types.
LEMMA TypesKept ==
  ASSUME ExecInv, [ExecNext]_allVars
  PROVE  TypeOK'
BY TxnInvStep DEF IInv

\* The Runtime's files and the executor's own variables keep their types.
LEMMA ExecTypeStep == ExecInv /\ [ExecNext]_allVars => ExecTypeOK'
<1> SUFFICES ASSUME ExecInv, [ExecNext]_allVars PROVE ExecTypeOK'
  OBVIOUS
<1>0. TypeOK /\ TypeOK'
  BY TypesKept DEF ExecInv, IInv
<1> USE <1>0, BoundsOK DEF ExecTypeOK, ExecInv, At
<1>1. CASE Aside
  <2>1. UNCHANGED vars /\ UNCHANGED pc
    BY <1>1, AsideKeepsVars DEF vars
  <2>2. CASE Start
    BY <2>1, <2>2 DEF Start, files, RunInv
  <2>3. CASE Report \/ Claim
    BY <2>1, <2>3 DEF Report, Claim
  <2>4. CASE Gate \/ Bind \/ Scan \/ Rescan \/ Prove \/ Done
    BY <2>1, <2>4 DEF Gate, Bind, Scan, Rescan, Prove, Done, files
  <2>5. CASE Settle
    BY <2>1, <2>5 DEF Settle
  <2>6. CASE Revoke
    BY <2>1, <2>6 DEF Revoke
  <2>7. ASSUME NEW t \in Txns, Plan(t) PROVE ExecTypeOK'
    BY <2>1, <2>7 DEF Plan, TypeOK
  <2>8. ASSUME NEW t \in Txns, Approve(t) PROVE ExecTypeOK'
    BY <2>1, <2>8 DEF Approve
  <2> QED
    BY <1>1, <2>2, <2>3, <2>4, <2>5, <2>6, <2>7, <2>8 DEF Aside
<1>2. CASE RecoverClaim \/ RecoverOthers
  BY <1>2 DEF RecoverClaim, RecoverOthers, Recover, RecoverAll, files, vars
<1>3. CASE ReconcileClaim \/ ReconcileOthers
  BY <1>3 DEF ReconcileClaim, ReconcileOthers, Reconciled, Reconcile, files
<1>4. CASE Run
  BY <1>4 DEF Run, Begin, files
<1>5. CASE TxnWork \/ TxnFault
  <2>1. pc # "idle" /\ UNCHANGED execVars
    BY <1>5 DEF TxnWork, TxnFault, Fault, Work, Backup, Mark, Marks, PreVerify, Rmtree, Mutate,
       Restart, RestartOk, Verify, CommitHook, WriteBundle, MaterializeGen, MaterializeResult,
       MaterializeReceipt, MaterializeDelivery, MaterializeTerminal, Restore, RestartRestored,
       RestartRestoredFails, RestartFails, RestoreGen, RbVerify, RollbackHook, MarkUnverified,
       RecoverOne
  <2> QED
    BY <2>1 DEF execVars
<1>6. CASE LedgerFault
  BY <1>6 DEF LedgerFault, files
<1>7. CASE ExecCrash
  BY <1>7 DEF ExecCrash, Crash, files
<1>8. CASE HostEditsConfig
  BY <1>8 DEF HostEditsConfig, HostEdit, execVars
<1>9. CASE UNCHANGED allVars
  BY <1>9 DEF allVars, vars, execVars
<1> QED
  BY <1>1, <1>2, <1>3, <1>4, <1>5, <1>6, <1>7, <1>8, <1>9 DEF ExecNext, ExecWork, Aside

\* A step of recovery or of the transaction stays in its phase, but for a rollback
\* that starts and for the end.
LEMMA PhasesOfWork ==
  ASSUME IInv, Work \/ Fault
  PROVE  /\ pc # "idle"
         /\ phase' \in {"apply", "rollback"} => phase \in {"apply", "rollback"} /\ cur' = cur
         /\ phase' = "recover" => phase = "recover"
<1> USE DEF IInv, PhaseInv, Forward, Backward
<1>1. CASE Backup \/ Mark \/ PreVerify \/ Mutate \/ Verify \/ CommitHook \/ WriteBundle
  BY <1>1 DEF Backup, Mark, Marks, PreVerify, Mutate, Verify, CommitHook, WriteBundle, Goto,
     StartRollback
<1>2. CASE Rmtree \/ MaterializeTerminal \/ MarkUnverified
  BY <1>2 DEF Rmtree, MaterializeTerminal, MarkUnverified, Return, Goto
<1>3. CASE Restart \/ RestartRestored \/ RestartRestoredFails
  BY <1>3 DEF Restart, RestartOk, RestartRestored, RestartRestoredFails, RestartFails,
     StartRollback, Goto
<1>4. CASE MaterializeGen \/ MaterializeResult \/ MaterializeReceipt \/ MaterializeDelivery
  BY <1>4 DEF MaterializeGen, MaterializeResult, MaterializeReceipt, MaterializeDelivery, Goto
<1>5. CASE Restore \/ RestoreGen \/ RbVerify \/ RollbackHook
  BY <1>5 DEF Restore, RestoreGen, RbVerify, RollbackHook, Goto
<1>6. CASE RecoverOne
  BY <1>6 DEF RecoverOne
<1>7. CASE Fault
  BY <1>7 DEF Fault, Return, StartRollback, Goto
<1> QED
  BY <1>1, <1>2, <1>3, <1>4, <1>5, <1>6, <1>7 DEF Work

\* The steps of the executor come in their order, and a transaction runs in one.
LEMMA RunInvStep == ExecInv /\ [ExecNext]_allVars => RunInv'
<1> SUFFICES ASSUME ExecInv, [ExecNext]_allVars PROVE RunInv'
  OBVIOUS
<1>0. TypeOK
  BY DEF ExecInv, IInv
<1> USE DEF ExecTypeOK, ExecInv, RunInv, Claiming, Gated, At
<1>1. CASE Aside
  <2>1. UNCHANGED <<wstate, bundle, result, receipt, made, pc, phase, cur>>
    BY <1>1, AsideKeepsVars DEF vars
  <2>2. AreaSafe' = AreaSafe /\ (pc = "idle" => phase = "none")
    BY <1>0, <2>1 DEF AreaSafe, Safe, TypeOK
  <2>3. CASE Start \/ Report \/ Claim
    BY <2>1, <2>2, <2>3 DEF Start, Report, Claim, files
  <2>4. CASE Gate \/ Bind \/ Prove \/ Done \/ Settle
    BY <2>1, <2>2, <2>4 DEF Gate, Bind, Prove, Done, Settle, files
  <2>5. CASE Scan \/ Rescan
    BY <2>1, <2>2, <2>5 DEF Scan, Rescan, files
  <2>6. CASE Revoke \/ \E t \in Txns : Plan(t) \/ Approve(t)
    BY <2>1, <2>2, <2>6 DEF Revoke, Plan, Approve
  <2> QED
    BY <1>1, <2>3, <2>4, <2>5, <2>6 DEF Aside
<1>2. CASE RecoverClaim \/ RecoverOthers
  <2>1. phase' \in {"none", "recover"}
    BY <1>0, <1>2 DEF RecoverClaim, RecoverOthers, Recover, RecoverAll, vars, TypeOK
  <2> QED
    BY <1>2, <2>1 DEF RecoverClaim, RecoverOthers, Recover, files
<1>3. CASE ReconcileClaim \/ ReconcileOthers
  BY <1>0, <1>3 DEF ReconcileClaim, ReconcileOthers, Reconciled, Reconcile, files, TypeOK
<1>4. CASE Run
  BY <1>0, <1>4 DEF Run, Begin, files, TypeOK
<1>5. CASE TxnWork \/ TxnFault
  <2>1. IInv /\ (Work \/ Fault) /\ UNCHANGED execVars
    BY <1>5 DEF TxnWork, TxnFault
  <2> QED
    BY <2>1, PhasesOfWork DEF execVars
<1>6. CASE LedgerFault
  BY <1>0, <1>6 DEF LedgerFault, files, TypeOK
<1>7. CASE ExecCrash
  BY <1>7 DEF ExecCrash, Crash, files
<1>8. CASE HostEditsConfig
  <2>1. AreaSafe' = AreaSafe
    BY <1>8 DEF HostEditsConfig, HostEdit, AreaSafe, Safe, dirs, parts
  <2> QED
    BY <1>8, <2>1 DEF HostEditsConfig, HostEdit, execVars
<1>9. CASE UNCHANGED allVars
  BY <1>9 DEF allVars, vars, execVars, AreaSafe, Safe
<1> QED
  BY <1>1, <1>2, <1>3, <1>4, <1>5, <1>6, <1>7, <1>8, <1>9 DEF ExecNext, ExecWork, Aside

-----------------------------------------------------------------------------
(* Work directories *)

\* What a step of the transaction does to a directory: the backup is taken under
\* the plan's generation, and an outcome is written where there is a backup.
LEMMA PlanOfWork ==
  ASSUME IInv, PlanInv, plan \in [Txns -> [gen : 0..MaxGen, src : Contents] \union {None}],
         pc = "backup" => plan[cur] # None,
         Work \/ Fault, UNCHANGED <<plan, spool, claim>>
  PROVE  PlanInv'
<1> USE DEF IInv, TypeOK, Steps, PlanInv, Bound, Backward, Forward, PlaceInv
<1>1. CASE Backup
  BY <1>1 DEF Backup, Goto, parts
<1>2. CASE Mark
  BY <1>2 DEF Mark, Marks, Goto, parts
<1>3. CASE PreVerify \/ Mutate \/ Verify \/ CommitHook
  BY <1>3 DEF PreVerify, Mutate, Verify, CommitHook, Goto, StartRollback, dirs, parts
<1>4. CASE WriteBundle
  BY <1>4 DEF WriteBundle, Goto, parts
<1>5. CASE Rmtree
  BY <1>5 DEF Rmtree, Return, Goto, parts
<1>6. CASE MaterializeTerminal \/ MarkUnverified
  BY <1>6 DEF MaterializeTerminal, MarkUnverified, Return, parts
<1>7. CASE Restart \/ RestartRestored \/ RestartRestoredFails
  BY <1>7 DEF Restart, RestartOk, RestartRestored, RestartRestoredFails, RestartFails,
     StartRollback, Goto, dirs, parts
<1>8. CASE MaterializeGen \/ MaterializeResult \/ MaterializeReceipt \/ MaterializeDelivery
  BY <1>8 DEF MaterializeGen, MaterializeResult, MaterializeReceipt, MaterializeDelivery, Goto,
     AfterGen, dirs
<1>9. CASE Restore \/ RestoreGen \/ RbVerify \/ RollbackHook
  BY <1>9 DEF Restore, RestoreGen, RbVerify, RollbackHook, Goto, dirs, parts
<1>10. CASE RecoverOne
  BY <1>10 DEF RecoverOne, RecoverEntry, dirs, parts
<1>11. CASE Fault
  BY <1>11 DEF Fault, Return, StartRollback, Goto, dirs, parts
<1> QED
  BY <1>1, <1>2, <1>3, <1>4, <1>5, <1>6, <1>7, <1>8, <1>9, <1>10, <1>11 DEF Work

\* A directory is removed only by the transaction that made it, before it has an
\* outcome.
LEMMA DirOfWork ==
  ASSUME IInv, DirInv, Work \/ Fault
  PROVE  DirInv'
<1> USE ConstantsOK DEF IInv, TypeOK, DirInv, PlaceInv, PhaseInv, Open, Contents
<1>1. CASE Backup \/ Mark
  BY <1>1 DEF Backup, Mark, Marks, Goto
<1>2. CASE PreVerify \/ Mutate \/ Verify \/ CommitHook
  BY <1>2 DEF PreVerify, Mutate, Verify, CommitHook, Goto, StartRollback, dirs
<1>3. CASE WriteBundle
  BY <1>3 DEF WriteBundle, Goto
<1>4. CASE Rmtree
  BY <1>4 DEF Rmtree, Return, Goto
<1>5. CASE MaterializeTerminal \/ MarkUnverified
  BY <1>5 DEF MaterializeTerminal, MarkUnverified, Return
<1>6. CASE Restart \/ RestartRestored \/ RestartRestoredFails
  BY <1>6 DEF Restart, RestartOk, RestartRestored, RestartRestoredFails, RestartFails,
     StartRollback, Goto, dirs
<1>7. CASE MaterializeGen \/ MaterializeResult \/ MaterializeReceipt \/ MaterializeDelivery
  BY <1>7 DEF MaterializeGen, MaterializeResult, MaterializeReceipt, MaterializeDelivery, Goto, dirs
<1>8. CASE Restore \/ RestoreGen \/ RbVerify \/ RollbackHook
  BY <1>8 DEF Restore, RestoreGen, RbVerify, RollbackHook, Goto, dirs
<1>9. CASE RecoverOne
  BY <1>9 DEF RecoverOne, dirs
<1>10. CASE Fault
  BY <1>10 DEF Fault, Return, StartRollback, Goto, dirs
<1> QED
  BY <1>1, <1>2, <1>3, <1>4, <1>5, <1>6, <1>7, <1>8, <1>9, <1>10 DEF Work

\* Both stay true of the executor's runs.
LEMMA DirectoriesStep == ExecInv /\ [ExecNext]_allVars => PlanInv' /\ DirInv'
<1> SUFFICES ASSUME ExecInv, [ExecNext]_allVars PROVE PlanInv' /\ DirInv'
  OBVIOUS
<1>0. /\ TypeOK
      /\ claim # None => claim.id \in Txns
      /\ plan \in [Txns -> [gen : 0..MaxGen, src : Contents] \union {None}]
  BY DEF ExecInv, IInv, ExecTypeOK
<1> USE DEF ExecInv, PlanInv, DirInv, Bound, At
<1>1. CASE Aside
  <2>1. UNCHANGED <<made, backup, old, bundle, gen, pc, cur, todo>>
    BY <1>1, AsideKeepsVars DEF vars
  <2>2. DirInv'
    BY <2>1
  <2>3. CASE Start \/ Gate \/ Bind \/ Scan \/ Rescan \/ Prove \/ Done \/ Revoke
    BY <2>1, <2>3 DEF Start, Gate, Bind, Scan, Rescan, Prove, Done, Revoke, files
  <2>4. CASE Report \/ Claim \/ Settle
    BY <2>1, <2>4 DEF Report, Claim, Settle
  <2>5. ASSUME NEW t \in Txns, Approve(t) PROVE PlanInv'
    BY <2>1, <2>5 DEF Approve
  <2>6. ASSUME NEW t \in Txns, Plan(t) PROVE PlanInv'
    <3>1. plan' = [plan EXCEPT ![t] = [gen |-> gen, src |-> managed]] /\ plan[t] = None
      BY <2>6 DEF Plan
    <3>2. plan'[t] # None
      <4>1. plan'[t] \in [gen : Nat, src : Contents]
        BY <1>0, <2>6, <3>1 DEF Plan, TypeOK
      <4> QED
        BY <4>1, BoundsOK
    <3>3. \A u \in Txns : plan[u] # None => plan'[u] = plan[u]
      BY <3>1, <1>0
    <3>4. pc = "backup" => cur \in Txns /\ plan[cur] # None
      BY <1>0, <2>6 DEF RunInv, TypeOK, ExecTypeOK, PhaseInv, IInv, Claiming
    <3> QED
      BY <1>0, <2>1, <2>6, <3>2, <3>3, <3>4 DEF Plan, ExecTypeOK, Backward
  <2> QED
    BY <1>1, <2>2, <2>3, <2>4, <2>5, <2>6 DEF Aside
<1>2. CASE RecoverClaim \/ RecoverOthers
  BY <1>0, <1>2 DEF RecoverClaim, RecoverOthers, Recover, RecoverAll, files, vars, dirs, parts,
     Backward, TypeOK
<1>3. CASE ReconcileClaim \/ ReconcileOthers
  BY <1>3 DEF ReconcileClaim, ReconcileOthers, Reconciled, Reconcile, files, dirs, parts
<1>4. CASE Run
  <2>1. claim # None /\ claim.id \in Txns /\ plan[claim.id] # None
    BY <1>0, <1>4 DEF Run, RunInv, Claiming
  <2>2. pc = "idle" /\ cur = None /\ todo = {}
    BY <1>0, <1>4 DEF Run, Begin, TypeOK
  <2>3. PlanInv'
    BY <1>0, <1>4, <2>1, <2>2 DEF Run, Begin, files, parts, Backward
  <2>4. DirInv'
    BY <1>4, <2>1, <2>2 DEF Run, Begin
  <2> QED
    BY <2>3, <2>4
<1>5. CASE TxnWork \/ TxnFault
  <2>1. IInv /\ (Work \/ Fault) /\ UNCHANGED <<plan, spool, claim>>
    BY <1>5 DEF TxnWork, TxnFault, execVars
  <2>2. pc = "backup" => plan[cur] # None
    BY <1>0 DEF RunInv, PhaseInv, IInv, Claiming
  <2> QED
    BY <1>0, <2>1, <2>2, PlanOfWork, DirOfWork
<1>6. CASE LedgerFault
  BY <1>6 DEF LedgerFault, files, dirs, parts
<1>7. CASE ExecCrash
  BY <1>7 DEF ExecCrash, Crash, files, dirs, parts, Backward
<1>8. CASE HostEditsConfig
  BY <1>8 DEF HostEditsConfig, HostEdit, execVars, dirs, parts
<1>9. CASE UNCHANGED allVars
  BY <1>9 DEF allVars, vars, execVars
<1> QED
  BY <1>1, <1>2, <1>3, <1>4, <1>5, <1>6, <1>7, <1>8, <1>9 DEF ExecNext, ExecWork, Aside

-----------------------------------------------------------------------------
(* Rollbacks and the ledger *)

\* A rollback is counted before its outcome is durable, or is recover_all's, which
\* the executor reconciles afterwards.
LEMMA CountOfWork ==
  ASSUME IInv, RunInv, CountInv, Work \/ Fault, UNCHANGED execVars
  PROVE  CountInv'
<1> USE DEF IInv, TypeOK, Steps, RunInv, CountInv, Uncounted, Reconciling, Safe, Closed, execVars,
      PhaseInv, PlaceInv, Terminal, Forward, Backward, Open
<1>1. CASE Backup \/ PreVerify \/ Mutate \/ Verify \/ CommitHook
  BY <1>1 DEF Backup, PreVerify, Mutate, Verify, CommitHook, Goto, StartRollback, dirs, parts,
     host, ledger
<1>2. CASE Mark
  BY <1>2 DEF Mark, Marks, Goto, parts, ledger
<1>3. CASE WriteBundle
  BY <1>3 DEF WriteBundle, Goto, parts, ledger
<1>4. CASE Rmtree
  BY <1>4 DEF Rmtree, Return, Goto, parts, ledger
<1>5. CASE MaterializeTerminal
  BY <1>5 DEF MaterializeTerminal, Return, parts, ledger
<1>6. CASE MarkUnverified
  BY <1>6 DEF MarkUnverified, Return, parts, ledger
<1>7. CASE Restart \/ RestartRestored \/ RestartRestoredFails
  BY <1>7 DEF Restart, RestartOk, RestartRestored, RestartRestoredFails, RestartFails,
     StartRollback, Goto, dirs, parts, ledger
<1>8. CASE MaterializeGen \/ MaterializeDelivery
  BY <1>8 DEF MaterializeGen, MaterializeDelivery, Goto, AfterGen, dirs, ledger
<1>9. CASE MaterializeResult
  BY <1>9 DEF MaterializeResult, Goto, dirs, ledger
<1>10. CASE MaterializeReceipt
  BY <1>10 DEF MaterializeReceipt, Goto, dirs, ledger
<1>11. CASE Restore \/ RestoreGen \/ RbVerify \/ RollbackHook
  BY <1>11 DEF Restore, RestoreGen, RbVerify, RollbackHook, Goto, dirs, parts, ledger
<1>12. CASE RecoverOne
  BY <1>12 DEF RecoverOne, RecoverEntry, dirs, parts, ledger
<1>13. CASE Fault
  BY <1>13 DEF Fault, Return, StartRollback, Goto, dirs, parts, ledger
<1> QED
  BY <1>1, <1>2, <1>3, <1>4, <1>5, <1>6, <1>7, <1>8, <1>9, <1>10, <1>11, <1>12, <1>13 DEF Work

\* It stays so in all that the executor does, crashes included.
LEMMA CountStep == ExecInv /\ [ExecNext]_allVars => CountInv'
<1> SUFFICES ASSUME ExecInv, [ExecNext]_allVars PROVE CountInv'
  OBVIOUS
<1>0. IInv /\ TypeOK /\ RunInv /\ CountInv
  BY DEF ExecInv, IInv
<1> USE <1>0 DEF CountInv, Uncounted, Reconciling, Safe, RunInv, Claiming, At
<1>1. CASE Aside
  <2>1. UNCHANGED <<bundle, rolled, wstate, result, receipt, pc, phase, cur>>
    BY <1>1, AsideKeepsVars DEF vars
  <2>2. CASE Start \/ Report \/ Claim
    BY <2>1, <2>2 DEF Start, Report, Claim, files, TypeOK, Closed
  <2>3. CASE Gate \/ Bind \/ Scan \/ Rescan \/ Prove
    BY <2>1, <2>3 DEF Gate, Bind, Scan, Rescan, Prove, files
  <2>4. CASE Done \/ Settle
    BY <2>1, <2>4 DEF Done, Settle, files
  <2>5. CASE Revoke \/ \E t \in Txns : Plan(t) \/ Approve(t)
    BY <2>1, <2>5 DEF Revoke, Plan, Approve
  <2> QED
    BY <1>1, <2>2, <2>3, <2>4, <2>5 DEF Aside
<1>2. CASE RecoverClaim \/ RecoverOthers
  BY <1>2 DEF RecoverClaim, RecoverOthers, Recover, RecoverAll, files, vars, dirs, parts, ledger,
     Closed
<1>3. CASE ReconcileClaim \/ ReconcileOthers
  <2>1. \A t \in AutoTxns : Uncounted(t)' => wstate[t] # "rolledBack"
    BY <1>3 DEF ReconcileClaim, ReconcileOthers, Reconciled, Reconcile, dirs
  <2>2. \A t \in AutoTxns : Uncounted(t)' => ~Safe(t)'
    BY <1>3, <2>1, ConstantsOK DEF ReconcileClaim, ReconcileOthers, Reconciled, Reconcile, dirs, parts, IInv,
       TerminalIsComplete
  <2> QED
    BY <1>3, <2>2 DEF ReconcileClaim, ReconcileOthers, Reconciled, Reconcile, Closed
<1>4. CASE Run
  <2>1. claim # None /\ step' = "txn" /\ AreaSafe /\ DirInv
    BY <1>4 DEF Run, ExecInv
  <2>2. UNCHANGED <<bundle, rolled, wstate, result, receipt, missed>>
    BY <1>4 DEF Run, Begin, parts, ledger
  <2>3. pc' \in Closed => cur' = claim.id /\ bundle[claim.id] # None
    BY <1>4 DEF Run, Begin, Closed
  <2>4. claim.id \in Txns
    BY <2>1 DEF ExecInv, ExecTypeOK
  <2>5. bundle[claim.id] # None => Safe(claim.id)
    BY <2>1, <2>4 DEF AreaSafe, DirInv
  <2>6. pc' # "bundle"
    BY <1>4 DEF Run, Begin
  <2> QED
    BY <1>4, <2>1, <2>2, <2>3, <2>4, <2>5, <2>6 DEF Run
<1>5. CASE TxnWork \/ TxnFault
  BY <1>5, CountOfWork DEF TxnWork, TxnFault
<1>6. CASE LedgerFault
  BY <1>6 DEF LedgerFault, files, dirs, parts, ledger, Closed
<1>7. CASE ExecCrash
  BY <1>7 DEF ExecCrash, Crash, files, dirs, parts, ledger
<1>8. CASE HostEditsConfig
  BY <1>8 DEF HostEditsConfig, HostEdit, execVars, dirs, parts, ledger
<1>9. CASE UNCHANGED allVars
  BY <1>9 DEF allVars, vars, execVars
<1> QED
  BY <1>1, <1>2, <1>3, <1>4, <1>5, <1>6, <1>7, <1>8, <1>9 DEF ExecNext, ExecWork, Aside

-----------------------------------------------------------------------------
(* Theorems *)

\* Nothing has begun yet.
LEMMA ExecInitially == ExecInit => ExecInv
<1> SUFFICES ASSUME ExecInit PROVE ExecInv
  OBVIOUS
<1>1. IInv
  BY Initially DEF ExecInit
<1>2. /\ TypeOK /\ pc = "idle" /\ phase = "none" /\ cur = None /\ todo = {}
      /\ \A t \in Txns : backup[t] = None /\ bundle[t] = None
  BY <1>1 DEF ExecInit, IInv, Init
<1>3. plan \in [Txns -> [gen : 0..MaxGen, src : Contents] \union {None}]
  BY DEF ExecInit
<1>4. ExecTypeOK
  <2>1. epoch \in 0..MaxEpoch /\ seen \in 0..epoch
    BY BoundsOK DEF ExecInit
  <2>2. spool = None /\ claim = None /\ missed = FALSE /\ step = "down"
    BY DEF ExecInit
  <2> QED
    BY <1>2, <1>3, <2>1, <2>2 DEF ExecTypeOK
<1>5. RunInv /\ PlanInv
  BY <1>2 DEF ExecInit, RunInv, PlanInv, Claiming, Gated, Bound, Backward
<1>6. DirInv
  BY <1>2 DEF DirInv
<1>7. CountInv
  BY <1>2, ConstantsOK DEF CountInv, Uncounted, Closed, Terminal
<1> QED
  BY <1>1, <1>4, <1>5, <1>6, <1>7 DEF ExecInv

\* The invariant of the executor holds in every run.
LEMMA ExecInvariance == ExecSpec => []ExecInv
<1>1. ExecInit => ExecInv
  BY ExecInitially
<1>2. ExecInv /\ [ExecNext]_allVars => ExecInv'
  BY TxnInvStep, ExecTypeStep, RunInvStep, DirectoriesStep, CountStep DEF ExecInv
<1> QED
  BY <1>1, <1>2, PTL DEF ExecSpec

\* What route_executor.py does to the transaction area is what root_txn.py asks of
\* its caller: apply is entered on a settled area, and an id keeps its generation.
THEOREM ExecutorKeepsContract == ExecSpec => HonoursTxnContract
<1>1. ExecInit => Init
  BY DEF ExecInit
<1>2. ExecInv /\ [ExecNext]_allVars => [Next]_vars
  BY StepsOfContract
<1> QED
  BY <1>1, <1>2, ExecInvariance, PTL DEF ExecSpec, HonoursTxnContract, Spec

\* The fuse counts every automatic rollback: once nothing runs, is left over or
\* is unsettled, each is in rolled, however often the executor crashed before.
THEOREM RollbacksCounted == ExecSpec => []RollbacksAreCounted
<1>1. ExecInv => RollbacksAreCounted
  <2> SUFFICES ASSUME ExecInv, Quiet, ~missed, NEW t \in AutoTxns, bundle[t] = "rolledBack"
               PROVE  t \in rolled
    BY DEF RollbacksAreCounted, ExecInv
  <2>1. t \in Txns /\ t \in made
    BY ConstantsOK DEF ExecInv, DirInv, Terminal
  <2>2. Safe(t)
    BY <2>1 DEF Quiet, AreaSafe
  <2> QED
    BY <2>2 DEF ExecInv, CountInv, Uncounted, Quiet, Reconciling
<1> QED
  BY <1>1, ExecInvariance, PTL

\* Once the executor has loaded a newer epoch, no request spooled before the
\* revocation reaches the managed file, the leftover claim's included.
THEOREM RevokedNeverMutates == ExecSpec => NoRevokedMutation
<1> DEFINE Fresh == \A t \in Txns : phase = "apply" /\ managed # t /\ managed' = t =>
                      claim = [id |-> t, epoch |-> seen]
<1>1. ExecInv /\ [ExecNext]_allVars => [Fresh]_allVars
  <2> SUFFICES ASSUME ExecInv, ExecNext, NEW t \in Txns, phase = "apply", managed # t, managed' = t
               PROVE  claim = [id |-> t, epoch |-> seen]
    OBVIOUS
  <2>0. TypeOK /\ PhaseInv
    BY DEF ExecInv, IInv
  <2> USE <2>0
  <2>1. CASE TxnWork
    <3>1. Mutate \/ Restore
      BY <2>1 DEF TxnWork, Work, Backup, Mark, PreVerify, Rmtree, Restart, RestartOk, Verify,
         CommitHook, WriteBundle, MaterializeGen, MaterializeResult, MaterializeReceipt,
         MaterializeDelivery, MaterializeTerminal, RestartRestored, RestartRestoredFails,
         RestartFails, RestoreGen, RbVerify, RollbackHook, MarkUnverified, RecoverOne, host
    <3>2. pc = "mutate" /\ cur = t
      BY <3>1 DEF Mutate, Restore, PhaseInv, Backward
    <3>3. claim # None /\ claim.id = t /\ claim.epoch = seen
      BY <3>2 DEF ExecInv, RunInv, Claiming, Gated
    <3>4. claim \in [id : Txns, epoch : 0..epoch]
      BY <3>3 DEF ExecInv, ExecTypeOK
    <3> QED
      BY <3>3, <3>4
  <2>2. CASE HostEditsConfig
    BY <2>2, ConstantsOK DEF HostEditsConfig, HostEdit
  <2>3. CASE Aside
    BY <2>3, AsideKeepsVars DEF vars
  <2>4. CASE RecoverClaim \/ RecoverOthers \/ ReconcileClaim \/ ReconcileOthers
    BY <2>4 DEF RecoverClaim, RecoverOthers, Recover, RecoverAll, ReconcileClaim, ReconcileOthers,
       Reconciled, Reconcile, host, vars
  <2>5. CASE Run \/ TxnFault \/ LedgerFault \/ ExecCrash
    BY <2>5 DEF Run, Begin, TxnFault, Fault, LedgerFault, ExecCrash, Crash, host
  <2> QED
    BY <2>1, <2>2, <2>3, <2>4, <2>5 DEF ExecNext, ExecWork, Aside
<1> QED
  BY <1>1, ExecInvariance, PTL DEF ExecSpec, NoRevokedMutation
=============================================================================
