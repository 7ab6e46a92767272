----------------------------- MODULE Lifecycle -----------------------------
(***************************************************************************)
(* The root scripts of the Xray integration: the mode transaction of the   *)
(* manager (rxa_apply_mode), the installer with its upgrade journal, and   *)
(* the uninstaller.  One manager call runs at a time, the operator's or    *)
(* that of the running script; between the steps of a script the operator  *)
(* may give orders of his own, for only installers exclude one another.    *)
(* Any command may be refused and any script killed.                       *)
(***************************************************************************)
EXTENDS Naturals, FiniteSets

CONSTANTS
  Modes,      \* normal, observe-only and safe-disabled
  Normal, Observe, Safe,
  None,
  Tries,      \* how often the installer tries to apply the mode
  MaxRuns,    \* bound: runs of the installer and uninstaller
  MaxOrders,  \* bound: orders of the operator
  MaxFaults   \* bound: refused commands, lost answers and kills, together

\* "watch" stands for the observer's path and timer and auto-evaluate.path.
Units == {"runtime", "agent", "watch"}
Runs == 1..MaxRuns
Broken == {"partial", "mixed", "torn"}
Payloads == {"old", "new", None} \union Broken

Dirs == [mark : {"made", "prepared", "committed"}, payload : Payloads,
         mode : Modes \union {None}, active : SUBSET Units]
CallPcs == {"match", "policy", "runtime", "verify", "units", "observe", "commit", "undoRuntime",
            "undoPolicy", "undoAll", "undoPolicyAll", "undoUnits", "undoConfig"}
SetupPcs == {"recover", "backup", "prepare", "remove", "copy", "restart", "revoke", "socket",
             "apply", "applied", "verify", "commit", "clean", "restorePaths", "restoreCopy",
             "restoreUnits", "restoreRevoke", "restored", "freeze", "frozen", "removeUnits",
             "removeFiles", "mark", "purgeMark", "purge"}
Calls == [pc : CallPcs, mode : Modes, old : Modes, by : {"operator", "setup"}, rc : {0, 1},
          since : 0..MaxFaults, lost : BOOLEAN, before : Modes \X Modes \X Modes]
Setups == [kind : {"install", "upgrade", "uninstall", "purge"}, pc : SetupPcs,
           run : Runs, txn : Runs, saved : Modes \union {None}, recovering : BOOLEAN,
           tries : 0..Tries, rc : {0, 1}, answer : BOOLEAN, orders : 0..MaxOrders]

ASSUME ConstantsOK ==
  /\ Modes = {Normal, Observe, Safe} /\ Cardinality(Modes) = 3
  /\ None \notin Modes \union {"old", "new"} \union Broken \union Dirs \union Calls \union Setups
  /\ Tries \in Nat \ {0} /\ MaxRuns \in Nat /\ MaxOrders \in Nat /\ MaxFaults \in Nat

VARIABLES
  config, runtime, policy,  \* mode in config.json, in the Runtime, in the root policy
  confirmed,                \* None, or the number of runs when auto was confirmed
  active, fresh,            \* active units; is the observation recent
  payload,                  \* the installed files
  dirs,                     \* the .upgrade-* directory of each run, or None
  intent,                   \* last phase in uninstall.intent.json
  call,                     \* the manager call that runs, or None
  setup,                    \* the script that runs, or None
  runs, orders, faults,
  ordered                   \* the operator's last order, once it has returned 0

modes  == <<config, runtime, policy, confirmed>>
host   == <<active, fresh>>
files  == <<payload, dirs, intent>>
counts == <<runs, orders>>
vars   == <<config, runtime, policy, confirmed, active, fresh, payload, dirs, intent,
            call, setup, runs, orders, faults, ordered>>

UnitsFit(mode) == IF mode = Safe THEN active \subseteq {"runtime"} ELSE active = Units

Init ==
  /\ config = Observe /\ runtime = Observe /\ policy = Observe /\ confirmed = None
  /\ active = Units /\ fresh = TRUE
  /\ payload = "old" /\ dirs = [r \in Runs |-> None] /\ intent = None
  /\ call = None /\ setup = None
  /\ runs = 0 /\ orders = 0 /\ faults = 0 /\ ordered = None

Fault == faults < MaxFaults /\ faults' = faults + 1

\* A command works unless refused; without the files it calls it never does.
Works == payload # None /\ UNCHANGED faults
Refused == \/ Fault
           \/ payload \in {None} \union Broken /\ UNCHANGED faults

-----------------------------------------------------------------------------
(* The manager: rxa_apply_mode *)

CallTo(pc) == call' = [call EXCEPT !.pc = pc]
CallFails(pc) == call' = [call EXCEPT !.pc = pc, !.rc = 1]

\* ok is what the caller gets; the script that called waits in pc "mode".
Return(ok) ==
  /\ call' = None
  /\ setup' = IF call.by = "setup" THEN [setup EXCEPT !.answer = ok] ELSE setup
  /\ ordered' = IF ok /\ call.by = "operator" THEN call.mode ELSE ordered

Apply(mode, by) ==
  call' = [pc |-> "match", mode |-> mode, old |-> config, by |-> by, rc |-> 0,
           since |-> faults, lost |-> FALSE, before |-> <<config, runtime, policy>>]

\* rxa_mode_state_matches_target: the root policy is not asked.
Matches(mode) == /\ config = mode /\ runtime = mode /\ "runtime" \in active
                 /\ UnitsFit(mode) /\ (mode # Safe => fresh)

Match ==
  /\ call.pc = "match"
  /\ \/ Works /\ Matches(call.mode) /\ Return(TRUE)
     \/ /\ Refused \/ (~Matches(call.mode) /\ UNCHANGED faults)
        /\ CallTo("policy") /\ UNCHANGED <<setup, ordered>>
  /\ UNCHANGED <<modes, host, files, counts>>

\* mode or safe-disable of the root policy helper.
SetPolicy(mode) == /\ policy' = mode
                   /\ confirmed' = IF mode = Safe THEN None ELSE confirmed

SyncPolicy ==
  /\ call.pc = "policy"
  /\ \/ Works /\ SetPolicy(call.mode) /\ CallTo("runtime") /\ UNCHANGED <<setup, ordered>>
     \/ Refused /\ Return(FALSE) /\ UNCHANGED <<policy, confirmed>>
  /\ UNCHANGED <<config, runtime, host, files, counts>>

\* Of an answer that is lost the Runtime has taken the mode all the same.
SetRuntime ==
  /\ call.pc = "runtime"
  /\ \/ /\ Works /\ "runtime" \in active
        /\ runtime' = call.mode /\ CallTo("verify")
     \/ /\ Refused \/ ("runtime" \notin active /\ UNCHANGED faults)
        /\ CallTo("undoPolicy") /\ UNCHANGED runtime
     \/ /\ Fault /\ "runtime" \in active /\ runtime' = call.mode
        /\ call' = [call EXCEPT !.pc = "undoPolicy", !.lost = TRUE]
  /\ UNCHANGED <<config, policy, confirmed, host, files, counts, setup, ordered>>

VerifyRuntime ==
  /\ call.pc = "verify"
  /\ \/ Works /\ CallTo("units")
     \/ Refused /\ CallTo("undoRuntime")
  /\ UNCHANGED <<modes, host, files, counts, setup, ordered>>

\* Each systemctl that is refused leaves one unit as it is.
SwitchTo(mode) == IF mode = Safe THEN active \ {"agent", "watch"} ELSE Units

SwitchUnits ==
  /\ call.pc = "units"
  /\ \/ /\ UNCHANGED faults /\ active' = SwitchTo(call.mode) /\ CallTo("observe")
     \/ /\ Fault /\ CallFails("observe")
        /\ \E u \in Units : active' = (SwitchTo(call.mode) \ {u}) \union (active \intersect {u})
  /\ UNCHANGED <<modes, fresh, files, counts, setup, ordered>>

Refresh ==
  /\ call.pc = "observe"
  /\ \/ /\ call.mode = Safe /\ CallTo("commit") /\ UNCHANGED <<fresh, faults>>
     \/ /\ call.mode # Safe /\ Works /\ fresh' = TRUE /\ CallTo("commit")
     \/ /\ call.mode # Safe /\ Refused /\ CallFails("commit") /\ UNCHANGED fresh
  /\ UNCHANGED <<modes, active, files, counts, setup, ordered>>

\* Units that do not fit show in the is-active checks of phases 2 and 3.
CommitConfig ==
  /\ call.pc = "commit"
  /\ IF call.rc = 0 /\ UnitsFit(call.mode)
       THEN \/ /\ config' = call.mode /\ UNCHANGED faults /\ Return(TRUE)
            \/ /\ Fault /\ CallFails("undoAll") /\ UNCHANGED <<config, setup, ordered>>
       ELSE CallTo("undoAll") /\ UNCHANGED <<config, setup, ordered, faults>>
  /\ UNCHANGED <<runtime, policy, confirmed, host, files, counts>>

\* Roll-back: every error is ignored.
UndoRuntime ==
  /\ call.pc \in {"undoRuntime", "undoAll"}
  /\ \/ UNCHANGED faults /\ runtime' = call.old
     \/ Refused /\ UNCHANGED runtime
  /\ CallTo(IF call.pc = "undoAll" THEN "undoPolicyAll" ELSE "undoPolicy")
  /\ UNCHANGED <<config, policy, confirmed, host, files, counts, setup, ordered>>

\* Mutant: the root policy keeps the refused mode.
UndoPolicyForgotten ==
  /\ call.pc \in {"undoPolicy", "undoPolicyAll"}
  /\ IF call.pc = "undoPolicy" THEN Return(FALSE)
                               ELSE CallTo("undoUnits") /\ UNCHANGED <<setup, ordered>>
  /\ UNCHANGED <<modes, host, files, counts, faults>>

UndoPolicy ==
  /\ call.pc \in {"undoPolicy", "undoPolicyAll"}
  /\ \/ Works /\ SetPolicy(call.old)
     \/ Refused /\ UNCHANGED <<policy, confirmed>>
  /\ IF call.pc = "undoPolicy" THEN Return(FALSE)
                               ELSE CallTo("undoUnits") /\ UNCHANGED <<setup, ordered>>
  /\ UNCHANGED <<config, runtime, host, files, counts>>

\* The Runtime's own unit is not among the ones switched back.
UndoUnits ==
  /\ call.pc = "undoUnits" /\ CallTo("undoConfig")
  /\ \/ /\ UNCHANGED faults
        /\ active' = IF call.old = Safe THEN active \ {"agent", "watch"}
                                       ELSE active \union {"agent", "watch"}
     \/ Fault /\ UNCHANGED active
  /\ UNCHANGED <<modes, fresh, files, counts, setup, ordered>>

UndoConfig ==
  /\ call.pc = "undoConfig" /\ Return(FALSE)
  /\ \/ UNCHANGED faults /\ config' = call.old
     \/ Fault /\ UNCHANGED config
  /\ UNCHANGED <<runtime, policy, confirmed, host, files, counts>>

CallStep == /\ call # None
            /\ \/ Match \/ SyncPolicy \/ SetRuntime \/ VerifyRuntime \/ SwitchUnits
               \/ Refresh \/ CommitConfig
               \/ UndoRuntime \/ UndoPolicy \/ UndoUnits \/ UndoConfig

-----------------------------------------------------------------------------
(* The operator, and what happens to the host *)

Order(mode) ==
  /\ config # None /\ call = None /\ orders < MaxOrders /\ orders' = orders + 1
  /\ Apply(mode, "operator") /\ ordered' = None
  /\ UNCHANGED <<modes, host, files, setup, runs, faults>>

\* rxa_apply_auto_confirm and rxa_apply_auto_revoke.
ConfirmAuto ==
  /\ config # None /\ call = None /\ orders < MaxOrders /\ orders' = orders + 1
  /\ Works /\ confirmed' = runs
  /\ UNCHANGED <<config, runtime, policy, host, files, call, setup, runs, ordered>>

\* A unit stops, the Runtime is started again, the observation grows old.
Drift ==
  /\ call = None
  /\ \/ Fault /\ (\E u \in active : active' = active \ {u}) /\ UNCHANGED fresh
     \/ Works /\ active' = active \union {"runtime"} /\ UNCHANGED fresh
     \/ UNCHANGED <<faults, active>> /\ "watch" \notin active /\ fresh' = FALSE
  /\ UNCHANGED <<modes, files, counts, call, setup, ordered>>

\* SIGKILL or a reboot: no trap runs.
Kill ==
  /\ Fault
  /\ \/ /\ call # None /\ call' = None
        /\ setup' = IF call.by = "setup" THEN None ELSE setup
     \/ call = None /\ setup # None /\ setup' = None /\ UNCHANGED call
  /\ UNCHANGED <<modes, host, files, counts, ordered>>

-----------------------------------------------------------------------------
(* The installer *)

At(pc) == setup # None /\ setup.pc = pc /\ call = None
Goto(pc) == setup' = [setup EXCEPT !.pc = pc]
Txn == setup.txn
Upgrading == setup.kind = "upgrade"

\* exit: the EXIT trap of everything but a prepared upgrade removes $TXN_DIR.
Exit == setup' = None
ExitTrap == dirs' = [dirs EXCEPT ![Txn] = None]

\* rollback_on_error of a prepared upgrade.
Rollback == IF Upgrading THEN Goto("restorePaths") /\ UNCHANGED dirs
                         ELSE Exit /\ ExitTrap

Begin(kind, pc) ==
  /\ config # None /\ setup = None /\ runs < MaxRuns /\ runs' = runs + 1
  /\ setup' = [kind |-> kind, pc |-> pc, run |-> runs + 1, txn |-> runs + 1,
               saved |-> IF kind = "upgrade" THEN config ELSE None,
               recovering |-> FALSE, tries |-> 0, rc |-> 0, answer |-> FALSE,
               orders |-> orders]
  /\ UNCHANGED <<modes, host, payload, intent, call, orders, faults>>

Made == [mark |-> "made", payload |-> None, mode |-> None, active |-> {}]

\* An upgrade needs the executable of an installation.
Install(kind) ==
  /\ kind = "upgrade" => payload # None
  /\ Begin(kind, "recover")
  /\ dirs' = [dirs EXCEPT ![runs + 1] = Made] /\ UNCHANGED ordered

\* Staging and verifying the candidate, or the backup, may fail.
GiveUp ==
  /\ At("recover") \/ At("backup") \/ At("prepare")
  /\ Fault /\ Exit /\ ExitTrap
  /\ UNCHANGED <<modes, host, payload, intent, counts, call, ordered>>

Previous(mark) == {r \in Runs \ {Txn} : dirs[r] # None /\ dirs[r].mark = mark}

\* Mutant: what an interrupted upgrade has left is cleared away.
RecoverClears ==
  /\ At("recover") /\ Goto(IF Upgrading THEN "backup" ELSE "remove")
  /\ dirs' = [r \in Runs |-> IF r = Txn THEN dirs[r] ELSE None]
  /\ UNCHANGED <<modes, host, payload, intent, counts, call, ordered, faults>>

\* From here on $TXN_DIR is the directory that is recovered.
Recover ==
  /\ At("recover")
  /\ \/ \E r \in Previous("committed") : dirs' = [dirs EXCEPT ![r] = None] /\ UNCHANGED setup
     \/ \E r \in Previous("prepared") :
          /\ setup' = [setup EXCEPT !.pc = "restorePaths", !.txn = r, !.recovering = TRUE]
          /\ UNCHANGED dirs
     \/ /\ Previous("committed") \union Previous("prepared") = {}
        /\ Goto(IF Upgrading THEN "backup" ELSE "remove") /\ UNCHANGED dirs
  /\ UNCHANGED <<modes, host, payload, intent, counts, call, ordered, faults>>

\* mkdir -p makes a directory again that a recovery has removed.
Backup ==
  /\ At("backup") /\ Goto("prepare")
  /\ dirs' = [dirs EXCEPT ![Txn] = [mark |-> "made", payload |-> payload,
                                    mode |-> setup.saved, active |-> active]]
  /\ UNCHANGED <<modes, host, payload, intent, counts, call, ordered, faults>>

Prepare ==
  /\ At("prepare") /\ Goto("remove")
  /\ dirs' = [dirs EXCEPT ![Txn].mark = "prepared"]
  /\ UNCHANGED <<modes, host, payload, intent, counts, call, ordered, faults>>

\* Until the last file is copied the payload is neither old nor new.
Remove ==
  /\ At("remove") /\ Goto("copy")
  /\ payload' = IF Upgrading THEN "mixed" ELSE "partial"
  /\ UNCHANGED <<modes, host, dirs, intent, counts, call, ordered, faults>>

Copy ==
  /\ At("copy")
  /\ \/ payload' = "new" /\ Goto("restart") /\ UNCHANGED <<dirs, faults>>
     \/ Fault /\ Rollback /\ UNCHANGED payload
  /\ UNCHANGED <<modes, host, intent, counts, call, ordered>>

Restart ==
  /\ At("restart")
  /\ \/ /\ active' = IF Upgrading THEN active ELSE active \union {"runtime"}
        /\ Goto(IF Upgrading THEN "revoke" ELSE "socket") /\ UNCHANGED <<dirs, faults>>
     \/ Fault /\ Rollback /\ active' \in {active} \union {active \ {u} : u \in active}
  /\ UNCHANGED <<modes, fresh, payload, intent, counts, call, ordered>>

\* Mutant: the authorization for automatic changes is left as it is.
RevokeSkipped ==
  /\ At("revoke") /\ Goto("socket")
  /\ UNCHANGED <<modes, host, files, counts, call, ordered, faults>>

Revoke ==
  /\ At("revoke")
  /\ \/ Works /\ confirmed' = None /\ Goto("socket") /\ UNCHANGED dirs
     \/ Refused /\ Rollback /\ UNCHANGED confirmed
  /\ UNCHANGED <<config, runtime, policy, host, payload, intent, counts, call, ordered>>

Socket ==
  /\ At("socket")
  /\ IF "runtime" \in active THEN Goto("apply") /\ UNCHANGED dirs ELSE Rollback
  /\ UNCHANGED <<modes, host, payload, intent, counts, call, ordered, faults>>

Target == IF setup.saved # None THEN setup.saved ELSE config

ApplyMode ==
  /\ At("apply") /\ Goto("applied") /\ Apply(Target, "setup")
  /\ UNCHANGED <<modes, host, files, counts, ordered, faults>>

Applied ==
  /\ At("applied")
  /\ \/ setup.answer /\ Goto("verify") /\ UNCHANGED dirs
     \/ /\ ~setup.answer /\ setup.tries + 1 < Tries
        /\ setup' = [setup EXCEPT !.pc = "apply", !.tries = @ + 1] /\ UNCHANGED dirs
     \/ ~setup.answer /\ setup.tries + 1 = Tries /\ Rollback
  /\ UNCHANGED <<modes, host, payload, intent, counts, call, ordered, faults>>

Verify ==
  /\ At("verify")
  /\ IF ~Matches(config) THEN Rollback
     ELSE IF Upgrading THEN Goto("commit") /\ UNCHANGED dirs
     ELSE Exit /\ ExitTrap
  /\ UNCHANGED <<modes, host, payload, intent, counts, call, ordered, faults>>

Commit ==
  /\ At("commit") /\ Goto("clean")
  /\ dirs' = [dirs EXCEPT ![Txn].mark = "committed"]
  /\ UNCHANGED <<modes, host, payload, intent, counts, call, ordered, faults>>

Clean ==
  /\ At("clean") /\ Exit /\ ExitTrap
  /\ UNCHANGED <<modes, host, payload, intent, counts, call, ordered, faults>>

-----------------------------------------------------------------------------
(* restore_upgrade *)

\* The EXIT trap of a recovering installer removes what it could not restore.
RestoreFails == Exit /\ (IF setup.recovering THEN ExitTrap ELSE UNCHANGED dirs)

RestorePaths ==
  /\ At("restorePaths") /\ Goto("restoreCopy") /\ payload' = "mixed"
  /\ UNCHANGED <<modes, host, dirs, intent, counts, call, ordered, faults>>

\* set -e does not hold inside: a failing copy goes unnoticed.
RestoreCopy ==
  /\ At("restoreCopy") /\ Goto("restoreUnits")
  /\ \/ payload' = dirs[Txn].payload /\ UNCHANGED faults
     \/ Fault /\ payload' = "torn"
  /\ UNCHANGED <<modes, host, dirs, intent, counts, call, ordered>>

RestoreUnits ==
  /\ At("restoreUnits")
  /\ \/ active' = dirs[Txn].active /\ Goto("restoreRevoke") /\ UNCHANGED <<dirs, faults>>
     \/ Fault /\ RestoreFails /\ active' \in {active, dirs[Txn].active}
  /\ UNCHANGED <<modes, fresh, payload, intent, counts, call, ordered>>

RestoreRevoke ==
  /\ At("restoreRevoke")
  /\ \/ /\ Works /\ confirmed' = None /\ Goto("restored") /\ UNCHANGED dirs
        /\ Apply(IF setup.saved # None THEN setup.saved ELSE dirs[Txn].mode, "setup")
     \/ Refused /\ RestoreFails /\ UNCHANGED <<confirmed, call>>
  /\ UNCHANGED <<config, runtime, policy, host, payload, intent, counts, ordered>>

Restored ==
  /\ At("restored")
  /\ \/ ~setup.answer /\ RestoreFails
     \/ /\ setup.answer /\ setup.recovering /\ ExitTrap
        /\ setup' = [setup EXCEPT !.pc = "recover", !.recovering = FALSE, !.answer = FALSE]
     \/ setup.answer /\ ~setup.recovering /\ Exit /\ ExitTrap
  /\ UNCHANGED <<modes, host, payload, intent, counts, call, ordered, faults>>

-----------------------------------------------------------------------------
(* The uninstaller *)

\* The standalone one keeps configuration and state; --purge is the host's.
Uninstall ==
  /\ Begin("uninstall", "freeze") /\ UNCHANGED <<dirs, ordered>>
Purge ==
  /\ Begin("purge", "purgeMark") /\ UNCHANGED <<dirs, ordered>>

\* rxa_uninstall_abort: the marker is written if it can be.
Abort == Exit /\ intent' \in {"aborted", intent}

Freeze ==
  /\ At("freeze") /\ Goto("frozen") /\ Apply(Observe, "setup") /\ ordered' = None
  /\ UNCHANGED <<modes, host, files, counts, faults>>

\* rxa_uninstall_prepare: any of its three parts may fail, and all are tried.
Frozen ==
  /\ At("frozen")
  /\ \/ /\ Works /\ setup.answer
        /\ fresh' = TRUE /\ intent' = "prepared" /\ Goto("removeUnits")
     \/ /\ Fault \/ (UNCHANGED faults /\ (~setup.answer \/ payload = None))
        /\ Abort /\ fresh' \in {TRUE, fresh}
  /\ UNCHANGED <<modes, active, payload, dirs, counts, call, ordered>>

RemoveUnits ==
  /\ At("removeUnits")
  /\ \/ UNCHANGED faults /\ active' = {} /\ Goto("removeFiles")
     \/ /\ Fault /\ (\E u \in active : active' = {u})
        /\ setup' = [setup EXCEPT !.pc = "removeFiles", !.rc = 1]
  /\ UNCHANGED <<modes, fresh, files, counts, call, ordered>>

RemoveFiles ==
  /\ At("removeFiles") /\ payload' = None
  /\ IF setup.rc = 0 THEN Goto("mark") /\ UNCHANGED intent ELSE Abort
  /\ UNCHANGED <<modes, host, dirs, counts, call, ordered, faults>>

\* rxa_uninstall_verify_host, and the marker.
Mark ==
  /\ At("mark")
  /\ \/ active # {} /\ Abort /\ UNCHANGED faults
     \/ active = {} /\ Exit /\ intent' = "committed" /\ UNCHANGED faults
     \/ active = {} /\ Exit /\ Fault /\ UNCHANGED intent
  /\ UNCHANGED <<modes, host, payload, dirs, counts, call, ordered>>

PurgeMark ==
  /\ At("purgeMark")
  /\ \/ intent' = "committed" /\ Goto("purge") /\ UNCHANGED faults
     \/ Fault /\ Exit /\ UNCHANGED intent
  /\ UNCHANGED <<modes, host, payload, dirs, counts, call, ordered>>

\* Everything goes, the intent too, whether the units could be stopped or not.
PurgeAll ==
  /\ At("purge") /\ Exit
  /\ \/ active' = {} /\ UNCHANGED faults
     \/ Fault /\ (\E u \in active : active' = {u})
  /\ config' = None /\ runtime' = None /\ policy' = None /\ confirmed' = None /\ fresh' = FALSE
  /\ payload' = None /\ dirs' = [r \in Runs |-> None] /\ intent' = None
  /\ ordered' = None /\ UNCHANGED <<counts, call>>

InstallStep == GiveUp \/ Recover \/ Backup \/ Prepare \/ Remove \/ Copy \/ Restart
                 \/ Revoke \/ Socket \/ ApplyMode \/ Applied \/ Verify \/ Commit \/ Clean
RestoreStep == RestorePaths \/ RestoreCopy \/ RestoreUnits \/ RestoreRevoke \/ Restored
UninstallStep == Freeze \/ Frozen \/ RemoveUnits \/ RemoveFiles \/ Mark
                   \/ PurgeMark \/ PurgeAll

Next == \/ CallStep \/ InstallStep \/ RestoreStep \/ UninstallStep
        \/ \E mode \in Modes : Order(mode)
        \/ \E kind \in {"install", "upgrade"} : Install(kind)
        \/ Uninstall \/ Purge \/ ConfirmAuto \/ Drift \/ Kill

Spec == Init /\ [][Next]_vars

-----------------------------------------------------------------------------
(* Properties *)

\* A manager call of a script does not outlive it, and only a purge takes the
\* configuration away.
TypeOK ==
  /\ {config, runtime, policy} \subseteq Modes \/ {config, runtime, policy} = {None}
  /\ confirmed \in 0..MaxRuns \union {None}
  /\ active \subseteq Units /\ fresh \in BOOLEAN
  /\ payload \in Payloads /\ intent \in {None, "prepared", "committed", "aborted"}
  /\ dirs \in [Runs -> Dirs \union {None}]
  /\ \A r \in Runs : dirs[r] # None /\ dirs[r].mark # "made" =>
       dirs[r].payload # None /\ dirs[r].mode # None
  /\ setup \in Setups \union {None} /\ call \in Calls \union {None}
  /\ setup # None \/ call # None => config # None
  /\ call # None /\ call.by = "setup" => setup # None
  /\ ordered \in Modes \union {None}
  /\ runs \in 0..MaxRuns /\ orders \in 0..MaxOrders /\ faults \in 0..MaxFaults

\* While the files of two versions are mixed, whoever was killed or refused and
\* whichever script ran since, a prepared upgrade still holds the files it found,
\* and the next installer restores them (install.sh: prepared, committed, and the
\* loop over .upgrade-* directories).  A restore whose own copy failed is torn and
\* not promised anything: restore_upgrade does not notice and drops the backup.
\* (With the types.)
UpgradeIsAtomic ==
  /\ TypeOK
  /\ payload = "mixed" =>
      \E r \in Runs : dirs[r] # None /\ dirs[r].mark = "prepared" /\ dirs[r].payload # "mixed"

\* An upgrade that ends well, done or undone, leaves the mode it found, and no
\* automatic change stays authorized, unless the operator gave an order
\* meanwhile (install.sh: SAVED_MODE and rxa_apply_auto_revoke).
UpgradeIsNeutral ==
  [][(/\ setup # None /\ Upgrading /\ orders = setup.orders
      /\ Clean \/ (Restored /\ setup.answer /\ ~setup.recovering))
     => config' = setup.saved /\ confirmed' = None]_vars

\* A mode transaction that fails because one command was refused, at any of its
\* steps, leaves the mode of the configuration, of the Runtime and of the root
\* policy as they were, given that the Runtime runs and no answer of it is lost
\* (rxa_apply_mode: a partial transition is never left behind).
FailureRestores ==
  [][(/\ call # None /\ call' = None /\ (SyncPolicy \/ UndoPolicy \/ UndoConfig)
      /\ faults' - call.since <= 1 /\ ~call.lost /\ payload \in {"old", "new"}
      /\ "runtime" \in active /\ call.before = <<call.old, call.old, call.old>>)
     => <<config', runtime', policy'>> = call.before]_vars

\* A mode transaction that reports success has left every party in the mode:
\* configuration, Runtime, units, and, in the modes that observe, a recent
\* observation; the root policy too, unless the call was taken for a no-op.
SuccessIsComplete ==
  [][call # None /\ call' = None /\ (Match \/ CommitConfig) =>
       /\ config' = call.mode /\ runtime' = call.mode /\ UnitsFit(call.mode)
       /\ call.mode # Safe => fresh
       /\ call.pc = "commit" => policy' = call.mode]_vars

\* What a mode transaction answers is what it has done.
CallsAreHonest == FailureRestores /\ SuccessIsComplete
=============================================================================
