-------------------------- MODULE LifecycleProofs --------------------------
(***************************************************************************)
(* The scripts, for any number of runs, orders, tries and faults: an       *)
(* interrupted upgrade can be undone, an upgrade leaves the mode it found  *)
(* and no authorization, and a mode transaction does what it answers.      *)
(***************************************************************************)
EXTENDS Lifecycle, TLAPS

Replaced  == {"restart", "revoke", "socket", "apply", "applied", "verify", "commit", "clean"}
Restoring == {"restorePaths", "restoreCopy", "restoreUnits", "restoreRevoke", "restored"}
Uninstalling == {"freeze", "frozen", "removeUnits", "removeFiles", "mark", "purgeMark", "purge"}

Marked(r, m) == dirs[r] # None /\ dirs[r].mark = m
OnlyMade     == \A r \in Runs : dirs[r] = None \/ Marked(r, "made")

\* The files are mixed only while the directory of the upgrade, this one or an
\* interrupted one, is marked as prepared; it is marked so late and for so long that
\* it holds files that are not mixed.
FilesInv ==
  /\ payload = "mixed" => \E r \in Runs : Marked(r, "prepared")
  /\ \A r \in Runs : dirs[r] = None \/ Marked(r, "made") \/ dirs[r].payload # "mixed"
  /\ \A r \in Runs : r > runs => dirs[r] = None
  /\ setup # None =>
       /\ setup.txn <= runs
       /\ Upgrading => setup.saved # None /\ payload # None
       /\ setup.recovering => setup.pc \in Restoring
       /\ setup.pc \in Uninstalling => ~Upgrading
       /\ setup.pc = "recover" => dirs[Txn] = None \/ Marked(Txn, "made")
       /\ setup.pc \in {"backup", "prepare", "commit"} => Upgrading
       /\ setup.pc \in {"backup", "prepare"} => OnlyMade
       /\ setup.pc = "prepare" => Marked(Txn, "made") /\ dirs[Txn].mode # None
                                  /\ dirs[Txn].payload \notin {None, "mixed"}
       /\ setup.pc \in ({"remove", "copy"} \union Replaced) \ {"clean"} =>
            IF Upgrading THEN Marked(Txn, "prepared") ELSE payload # "mixed"
       /\ setup.pc \in Replaced => payload = "new"
       /\ setup.pc \in Restoring => Marked(Txn, "prepared")
       /\ setup.pc \in {"restoreUnits", "restoreRevoke", "restored"} => payload # "mixed"

\* What a mode transaction has done so far.
Undoing == {"undoRuntime", "undoAll", "undoPolicyAll", "undoUnits", "undoConfig"}

CallInv ==
  call # None =>
    /\ call.since <= faults
    /\ config = call.old
    /\ call.pc \in {"runtime", "verify", "units", "observe", "commit"} => policy = call.mode
    /\ call.pc \in {"verify", "units", "observe", "commit"} => runtime = call.mode
    /\ call.pc = "commit" /\ call.rc = 0 /\ call.mode # Safe => fresh

\* How far one refused command can have moved a host that was in one mode, or,
\* where the undoing was refused too, how many there were.
Spent    == faults - call.since
Regular  == payload \in {"old", "new"} /\ call.before = <<call.old, call.old, call.old>>

UndoInv ==
  call # None /\ Regular =>
    /\ call.pc \in {"match", "policy"} => runtime = call.old /\ policy = call.old
    /\ call.pc = "runtime" => runtime = call.old
    /\ call.pc \in {"match", "policy", "runtime", "verify", "units"} => call.rc = 0
    /\ call.pc \in {"observe", "commit"} =>
         IF call.rc = 0 THEN UnitsFit(call.mode) ELSE Spent >= 1
    /\ call.pc \in Undoing => Spent >= 1
    /\ call.pc = "undoPolicy" => /\ Spent >= 1 \/ "runtime" \notin active
                                 /\ call.lost \/ runtime = call.old \/ Spent >= 2
    /\ call.pc \in {"undoPolicyAll", "undoUnits", "undoConfig"} =>
         runtime = call.old \/ Spent >= 2
    /\ call.pc \in {"undoUnits", "undoConfig"} => policy = call.old \/ Spent >= 2

\* A script asks for the mode it has saved, and unless an order came since it began
\* nobody else asks for one, or authorizes anything.
Unordered == orders = setup.orders
NeutralInv ==
  setup # None /\ Upgrading =>
    /\ setup.orders <= orders
    /\ call # None /\ call.by = "operator" => setup.pc = "recover" \/ ~Unordered
    /\ call # None /\ call.by = "setup" =>
         setup.pc \in {"applied", "restored"} /\ call.mode = setup.saved
    /\ Unordered /\ setup.pc \in {"socket", "apply", "applied", "verify", "commit", "clean",
                                  "restored"} => confirmed = None
    /\ Unordered /\ call = None /\ setup.pc \in {"applied", "restored"} /\ setup.answer =>
         config = setup.saved
    /\ Unordered /\ setup.pc \in {"verify", "commit", "clean"} => config = setup.saved

LifeInv == TypeOK /\ FilesInv /\ CallInv /\ UndoInv /\ NeutralInv

-----------------------------------------------------------------------------
(* Types *)

\* Initially nothing runs.
LEMMA Initially == Init => LifeInv
<1> SUFFICES ASSUME Init PROVE LifeInv
  OBVIOUS
<1>1. TypeOK
  BY ConstantsOK DEF Init, TypeOK, Units, Payloads
<1>2. FilesInv
  BY ConstantsOK DEF Init, FilesInv, Broken
<1>3. CallInv /\ UndoInv /\ NeutralInv
  BY DEF Init, CallInv, UndoInv, NeutralInv
<1> QED
  BY <1>1, <1>2, <1>3 DEF LifeInv

Moves == /\ call' \in Calls /\ UNCHANGED <<setup, ordered>>
         /\ call'.mode = call.mode /\ call'.old = call.old /\ call'.by = call.by
         /\ call'.since = call.since /\ call'.before = call.before
Ends == Return(TRUE) \/ Return(FALSE)

\* Of a call only the place, the result and the loss of an answer change.
LEMMA CallMoves ==
  ASSUME call \in Calls, NEW p \in CallPcs, UNCHANGED <<setup, ordered>>,
         \/ CallTo(p) \/ CallFails(p) \/ call' = [call EXCEPT !.pc = p, !.lost = TRUE]
  PROVE  Moves
BY DEF Calls, CallTo, CallFails, Moves

\* A step of a call moves it, or ends it.
LEMMA CallSteps ==
  ASSUME call \in Calls, CallStep
  PROVE  Moves \/ Ends
<1>1. CASE Match
  BY <1>1, CallMoves DEF Match, Ends, CallPcs
<1>2. CASE SyncPolicy
  BY <1>2, CallMoves DEF SyncPolicy, Ends, CallPcs
<1>3. CASE SetRuntime
  BY <1>3, CallMoves DEF SetRuntime, CallPcs
<1>4. CASE VerifyRuntime \/ SwitchUnits \/ Refresh
  BY <1>4, CallMoves DEF VerifyRuntime, SwitchUnits, Refresh, CallPcs
<1>5. CASE CommitConfig
  BY <1>5, CallMoves DEF CommitConfig, Ends, CallPcs
<1>6. CASE UndoRuntime
  BY <1>6, CallMoves DEF UndoRuntime, CallPcs
<1>7. CASE UndoPolicy
  BY <1>7, CallMoves DEF UndoPolicy, Ends, CallPcs
<1>8. CASE UndoUnits \/ UndoConfig
  BY <1>8, CallMoves DEF UndoUnits, UndoConfig, Ends, CallPcs
<1> QED
  BY <1>1, <1>2, <1>3, <1>4, <1>5, <1>6, <1>7, <1>8 DEF CallStep

\* Of a script the place, the directory, the tries, the result and the answer.
LEMMA SetupTyped ==
  ASSUME setup \in Setups, NEW p \in SetupPcs
  PROVE  /\ [setup EXCEPT !.pc = p] \in Setups
         /\ [setup EXCEPT !.pc = p, !.rc = 1] \in Setups
         /\ [setup EXCEPT !.pc = p, !.recovering = FALSE, !.answer = FALSE] \in Setups
         /\ \A r \in Runs : [setup EXCEPT !.pc = p, !.txn = r, !.recovering = TRUE] \in Setups
BY DEF Setups

\* A new call is one of the mode the host is in.
LEMMA ApplyTyped ==
  ASSUME TypeOK, config # None, NEW m \in Modes, NEW by \in {"operator", "setup"}, Apply(m, by)
  PROVE  call' \in Calls
<1>1. config \in Modes /\ runtime \in Modes /\ policy \in Modes
  BY DEF TypeOK
<1>2. faults \in 0..MaxFaults /\ "match" \in CallPcs
  BY DEF TypeOK, CallPcs
<1> DEFINE b == <<config, runtime, policy>>
<1>3. b \in Modes \X Modes \X Modes
  BY <1>1
<1>4. call' = [pc |-> "match", mode |-> m, old |-> config, by |-> by, rc |-> 0,
               since |-> faults, lost |-> FALSE, before |-> b]
  BY DEF Apply
<1> HIDE DEF b
<1> QED
  BY <1>1, <1>2, <1>3, <1>4 DEF Calls

\* A fault is counted.
LEMMA FaultTyped ==
  ASSUME TypeOK, Fault \/ UNCHANGED faults
  PROVE  faults' \in 0..MaxFaults
BY ConstantsOK DEF TypeOK, Fault

\* The types of what a call touches.
LEMMA CallTypes == LifeInv /\ CallStep => TypeOK'
<1> SUFFICES ASSUME LifeInv, CallStep PROVE TypeOK'
  OBVIOUS
<1>t. TypeOK /\ call \in Calls /\ config \in Modes /\ call.mode \in Modes /\ call.old \in Modes
      /\ {config, runtime, policy} \subseteq Modes
  BY DEF LifeInv, TypeOK, CallStep, Calls
<1>1. /\ faults' \in 0..MaxFaults
      /\ UNCHANGED <<dirs, payload, intent, runs, orders>>
  BY <1>t, FaultTyped DEF CallStep, Match, SyncPolicy, SetRuntime, VerifyRuntime, SwitchUnits,
     Refresh, CommitConfig, UndoRuntime, UndoPolicy, UndoUnits, UndoConfig, Works, Refused,
     files, counts
<1>2. /\ {config', runtime', policy'} \subseteq Modes
      /\ confirmed' \in {confirmed, None}
      /\ active' \subseteq Units /\ fresh' \in BOOLEAN
  BY <1>t DEF TypeOK, CallStep, Match, SyncPolicy, SetRuntime, VerifyRuntime, SwitchUnits,
     Refresh, CommitConfig, UndoRuntime, UndoPolicy, UndoUnits, UndoConfig, SetPolicy,
     SwitchTo, Units, modes, host
<1>3. Moves \/ Ends
  BY <1>t, CallSteps
<1>4. CASE Moves
  BY <1>t, <1>1, <1>2, <1>4, ConstantsOK DEF TypeOK, Moves
<1>5. CASE Ends
  <2>1. PICK ok \in BOOLEAN : Return(ok)
    BY <1>5 DEF Ends
  <2>2. setup' \in Setups \union {None}
    <3>1. CASE call.by = "setup"
      <4>1. setup \in Setups
        BY <1>t, <3>1 DEF TypeOK, CallStep
      <4>2. [setup EXCEPT !.answer = ok] \in Setups
        BY <4>1 DEF Setups
      <4> QED
        BY <2>1, <3>1, <4>2 DEF Return
    <3>2. CASE call.by # "setup"
      BY <1>t, <2>1, <3>2 DEF Return, TypeOK
    <3> QED
      BY <3>1, <3>2
  <2>3. call' = None /\ ordered' \in Modes \union {None}
    BY <1>t, <2>1 DEF Return, TypeOK
  <2>4. config' # None
    BY <1>2, ConstantsOK
  <2> QED
    BY <1>t, <1>1, <1>2, <2>2, <2>3, <2>4 DEF TypeOK
<1> QED
  BY <1>3, <1>4, <1>5

DirsOK ==
  /\ dirs \in [Runs -> Dirs \union {None}]
  /\ \A r \in Runs : dirs[r] # None /\ dirs[r].mark # "made" =>
       dirs[r].payload # None /\ dirs[r].mode # None

\* A directory that is removed leaves the others as they are.
LEMMA RemovedTyped ==
  ASSUME DirsOK, NEW r \in Runs
  PROVE  /\ dirs' = [dirs EXCEPT ![r] = None] => DirsOK'
         /\ dirs' = [q \in Runs |-> None] => DirsOK'
         /\ UNCHANGED dirs => DirsOK'
BY DEF DirsOK

\* So does one that is made or marked.
LEMMA MadeTyped ==
  ASSUME DirsOK, NEW r \in Runs, NEW d \in Dirs,
         d.mark = "made" \/ (d.payload # None /\ d.mode # None),
         dirs' = [dirs EXCEPT ![r] = d]
  PROVE  DirsOK'
BY DEF DirsOK

\* The mark of a directory is a field of it.
LEMMA MarkTyped ==
  ASSUME DirsOK, NEW r \in Runs, NEW m \in {"prepared", "committed"},
         dirs[r] # None, dirs[r].payload # None, dirs[r].mode # None,
         dirs' = [dirs EXCEPT ![r].mark = m]
  PROVE  DirsOK'
<1> DEFINE d == [dirs[r] EXCEPT !.mark = m]
<1>1. dirs[r] \in Dirs
  BY DEF DirsOK
<1>2. d \in Dirs /\ d.payload # None /\ d.mode # None
  BY <1>1 DEF Dirs
<1>3. dirs' = [dirs EXCEPT ![r] = d]
  OBVIOUS
<1> HIDE DEF d
<1> QED
  BY <1>2, <1>3, MadeTyped

\* What a running script knows of itself.
LEMMA ScriptKnows ==
  ASSUME LifeInv, setup # None
  PROVE  /\ TypeOK /\ FilesInv /\ DirsOK
         /\ setup \in Setups /\ Txn \in Runs /\ setup.run \in Runs
         /\ {config, runtime, policy} \subseteq Modes
         /\ setup.saved \in Modes \union {None} /\ Target \in Modes
BY DEF LifeInv, TypeOK, DirsOK, Setups, Txn, Target

\* A step of the installer leaves a script that knows as much, or none.
LEMMA InstallSetups ==
  ASSUME LifeInv, InstallStep
  PROVE  setup' \in Setups \union {None}
<1>1. setup # None
  BY DEF InstallStep, At, GiveUp, Recover, Backup, Prepare, Remove, Copy, Restart, Revoke, Socket,
     ApplyMode, Applied, Verify, Commit, Clean
<1>2. setup \in Setups
  BY <1>1, ScriptKnows
<1>3. ASSUME NEW p \in SetupPcs, Goto(p) PROVE setup' \in Setups
  BY <1>2, <1>3, SetupTyped DEF Goto
<1>4. Rollback => setup' \in Setups \union {None}
  BY <1>3 DEF Rollback, Exit, SetupPcs
<1>5. CASE GiveUp \/ Clean
  BY <1>5 DEF GiveUp, Clean, Exit
<1>6. CASE Recover
  <2>1. "recover" \in SetupPcs /\ "restorePaths" \in SetupPcs /\ "backup" \in SetupPcs
        /\ "remove" \in SetupPcs
    BY DEF SetupPcs
  <2>2. CASE \E r \in Runs : setup' = [setup EXCEPT !.pc = "restorePaths", !.txn = r,
                                                !.recovering = TRUE]
    BY <1>2, <2>1, <2>2, SetupTyped
  <2>3. CASE UNCHANGED setup \/ Goto(IF Upgrading THEN "backup" ELSE "remove")
    BY <1>2, <1>3, <2>1, <2>3
  <2> QED
    BY <1>6, <2>2, <2>3 DEF Recover, Previous
<1>7. CASE Backup \/ Prepare \/ Remove \/ ApplyMode \/ Commit
  BY <1>3, <1>7 DEF Backup, Prepare, Remove, ApplyMode, Commit, SetupPcs
<1>8. CASE Copy \/ Restart \/ Revoke \/ Socket
  BY <1>3, <1>4, <1>8 DEF Copy, Restart, Revoke, Socket, SetupPcs
<1>9. CASE Applied
  <2>1. setup.tries + 1 < Tries => [setup EXCEPT !.pc = "apply", !.tries = @ + 1] \in Setups
    <3>1. setup.tries \in 0..Tries /\ "apply" \in SetupPcs
      BY <1>2 DEF Setups, SetupPcs
    <3>2. setup.tries + 1 < Tries => setup.tries + 1 \in 0..Tries
      BY <3>1, ConstantsOK
    <3> QED
      BY <1>2, <3>1, <3>2 DEF Setups
  <2> QED
    BY <1>3, <1>4, <1>9, <2>1 DEF Applied, SetupPcs
<1>10. CASE Verify
  BY <1>3, <1>4, <1>10 DEF Verify, Exit, SetupPcs
<1> QED
  BY <1>5, <1>6, <1>7, <1>8, <1>9, <1>10 DEF InstallStep

\* So does a step of the restore,
LEMMA RestoreSetups ==
  ASSUME LifeInv, RestoreStep
  PROVE  setup' \in Setups \union {None}
<1>1. setup # None
  BY DEF RestoreStep, At, RestorePaths, RestoreCopy, RestoreUnits, RestoreRevoke, Restored
<1>2. setup \in Setups
  BY <1>1, ScriptKnows
<1>3. ASSUME NEW p \in SetupPcs, Goto(p) PROVE setup' \in Setups
  BY <1>2, <1>3, SetupTyped DEF Goto
<1>4. CASE RestorePaths \/ RestoreCopy \/ RestoreUnits \/ RestoreRevoke
  BY <1>3, <1>4 DEF RestorePaths, RestoreCopy, RestoreUnits, RestoreRevoke, RestoreFails, Exit,
     SetupPcs
<1>5. CASE Restored
  BY <1>1, <1>2, <1>5, ScriptKnows, SetupTyped DEF Restored, RestoreFails, Exit, SetupPcs
<1> QED
  BY <1>4, <1>5 DEF RestoreStep

\* and one of the uninstaller.
LEMMA UninstallSetups ==
  ASSUME LifeInv, UninstallStep
  PROVE  setup' \in Setups \union {None}
<1>1. setup # None
  BY DEF UninstallStep, At, Freeze, Frozen, RemoveUnits, RemoveFiles, Mark, PurgeMark, PurgeAll
<1>2. setup \in Setups
  BY <1>1, ScriptKnows
<1>3. ASSUME NEW p \in SetupPcs, Goto(p) PROVE setup' \in Setups
  BY <1>2, <1>3, SetupTyped DEF Goto
<1>4. CASE Freeze \/ Frozen \/ RemoveFiles \/ Mark
  BY <1>3, <1>4 DEF Freeze, Frozen, RemoveFiles, Mark, Abort, Exit, SetupPcs
<1>5. CASE PurgeMark \/ PurgeAll
  BY <1>3, <1>5 DEF PurgeMark, PurgeAll, Exit, SetupPcs
<1>6. CASE RemoveUnits
  BY <1>1, <1>2, <1>3, <1>6, ScriptKnows, SetupTyped DEF RemoveUnits, SetupPcs
<1> QED
  BY <1>4, <1>5, <1>6 DEF UninstallStep

\* An installer makes, marks and removes its directory, and no step leaves one that is
\* prepared without the files and the mode it found.
LEMMA InstallDirs ==
  ASSUME LifeInv, InstallStep
  PROVE  DirsOK'
<1>1. setup # None
  BY DEF InstallStep, At, GiveUp, Recover, Backup, Prepare, Remove, Copy, Restart, Revoke, Socket,
     ApplyMode, Applied, Verify, Commit, Clean
<1>2. TypeOK /\ FilesInv /\ DirsOK /\ Txn \in Runs
  BY <1>1, ScriptKnows
<1>3. ExitTrap \/ UNCHANGED dirs => DirsOK'
  BY <1>2, RemovedTyped DEF ExitTrap
<1>4. Rollback => DirsOK'
  BY <1>3 DEF Rollback
<1>5. CASE GiveUp \/ Clean \/ Remove \/ ApplyMode \/ Copy \/ Restart \/ Revoke \/ Socket \/ Verify
             \/ Applied
  BY <1>3, <1>4, <1>5 DEF GiveUp, Clean, Remove, ApplyMode, Copy, Restart, Revoke, Socket, Verify,
     Applied, files
<1>6. CASE Recover
  <2>1. CASE \E r \in Runs : dirs' = [dirs EXCEPT ![r] = None]
    BY <1>2, <2>1, RemovedTyped
  <2> QED
    BY <1>3, <1>6, <2>1 DEF Recover, Previous
<1>7. CASE Backup
  <2>1. dirs' = [dirs EXCEPT ![Txn] = [mark |-> "made", payload |-> payload,
                                       mode |-> setup.saved, active |-> active]]
    BY <1>7 DEF Backup
  <2>2. payload \in Payloads /\ setup.saved \in Modes \union {None} /\ active \in SUBSET Units
    BY <1>1, ScriptKnows DEF TypeOK
  <2> DEFINE d == [mark |-> "made", payload |-> payload, mode |-> setup.saved, active |-> active]
  <2>3. d \in Dirs /\ d.mark = "made" /\ dirs' = [dirs EXCEPT ![Txn] = d]
    BY <2>1, <2>2 DEF Dirs
  <2> HIDE DEF d
  <2> QED
    BY <1>2, <2>3, MadeTyped
<1>8. CASE Prepare
  <2>1. dirs[Txn] # None /\ dirs[Txn].payload # None /\ dirs[Txn].mode # None
    BY <1>2, <1>8 DEF Prepare, At, FilesInv, Marked
  <2> QED
    BY <1>2, <1>8, <2>1, MarkTyped DEF Prepare
<1>9. CASE Commit
  <2>1. Marked(Txn, "prepared")
    BY <1>2, <1>9 DEF Commit, At, FilesInv, Replaced
  <2>2. dirs[Txn] # None /\ dirs[Txn].payload # None /\ dirs[Txn].mode # None
    BY <1>2, <2>1 DEF DirsOK, Marked
  <2> QED
    BY <1>2, <1>9, <2>2, MarkTyped DEF Commit
<1> QED
  BY <1>5, <1>6, <1>7, <1>8, <1>9 DEF InstallStep

\* The restore and the uninstaller only remove directories.
LEMMA ScriptDirs ==
  ASSUME LifeInv, RestoreStep \/ UninstallStep
  PROVE  DirsOK'
<1>1. setup # None
  BY DEF RestoreStep, UninstallStep, At, RestorePaths, RestoreCopy, RestoreUnits, RestoreRevoke,
     Restored, Freeze, Frozen, RemoveUnits, RemoveFiles, Mark, PurgeMark, PurgeAll
<1>2. DirsOK /\ Txn \in Runs
  BY <1>1, ScriptKnows
<1>3. ExitTrap \/ UNCHANGED dirs => DirsOK'
  BY <1>2, RemovedTyped DEF ExitTrap
<1>4. CASE RestoreStep
  BY <1>3, <1>4 DEF RestoreStep, RestorePaths, RestoreCopy, RestoreUnits, RestoreRevoke, Restored,
     RestoreFails
<1>5. CASE UninstallStep
  BY <1>2, <1>3, <1>5, RemovedTyped DEF UninstallStep, Freeze, Frozen, RemoveUnits, RemoveFiles,
     Mark, PurgeMark, PurgeAll, files
<1> QED
  BY <1>4, <1>5

ScriptStep == InstallStep \/ RestoreStep \/ UninstallStep

\* The rest of the types: what a script does to the host.
LEMMA ScriptFiles ==
  ASSUME LifeInv, ScriptStep
  PROVE  /\ payload' \in Payloads /\ intent' \in {None, "prepared", "committed", "aborted"}
         /\ active' \subseteq Units /\ fresh' \in BOOLEAN
         /\ ordered' \in Modes \union {None} /\ faults' \in 0..MaxFaults
         /\ UNCHANGED <<runs, orders>>
<1>1. CASE InstallStep
  <2>1. TypeOK
    BY DEF LifeInv
  <2>2. faults' \in 0..MaxFaults
    BY <1>1, <2>1, FaultTyped DEF InstallStep, GiveUp, Recover, Backup, Prepare, Remove, Copy,
       Restart, Revoke, Socket, ApplyMode, Applied, Verify, Commit, Clean, Works, Refused
  <2>3. payload' \in Payloads /\ UNCHANGED <<intent, fresh, ordered, runs, orders>>
    BY <1>1, <2>1
    DEF TypeOK, Payloads, Broken, InstallStep, GiveUp, Recover, Backup, Prepare, Remove,
       Copy, Restart, Revoke, Socket, ApplyMode, Applied, Verify, Commit, Clean, host, files, counts
  <2>4. active' \subseteq Units
    BY <1>1, <2>1 DEF TypeOK, Units, InstallStep, GiveUp, Recover, Backup, Prepare, Remove,
       Copy, Restart, Revoke, Socket, ApplyMode, Applied, Verify, Commit, Clean, host
  <2> QED
    BY <2>1, <2>2, <2>3, <2>4 DEF TypeOK
<1>2. CASE RestoreStep
  <2>1. setup # None /\ (~At("restorePaths") => dirs[Txn] # None)
    BY <1>2 DEF LifeInv, FilesInv, Restoring, Marked, RestoreStep, At, RestorePaths, RestoreCopy,
       RestoreUnits, RestoreRevoke, Restored
  <2>2. TypeOK /\ Txn \in Runs
    BY <2>1, ScriptKnows
  <2>3. ~At("restorePaths") => dirs[Txn].payload \in Payloads /\ dirs[Txn].active \subseteq Units
    BY <2>1, <2>2 DEF TypeOK, Dirs
  <2>4. faults' \in 0..MaxFaults
    BY <1>2, <2>2, FaultTyped DEF RestoreStep, RestorePaths, RestoreCopy, RestoreUnits,
       RestoreRevoke, Restored, Works, Refused
  <2>5. payload' \in Payloads /\ active' \subseteq Units
        /\ UNCHANGED <<intent, fresh, ordered, runs, orders>>
    BY <1>2, <2>2, <2>3 DEF TypeOK, Payloads, Broken, RestoreStep, RestorePaths, RestoreCopy,
       RestoreUnits, RestoreRevoke, Restored, At, host, counts
  <2> QED
    BY <2>2, <2>4, <2>5 DEF TypeOK
<1>3. CASE UninstallStep
  <2>1. TypeOK
    BY DEF LifeInv
  <2>2. faults' \in 0..MaxFaults
    BY <1>3, <2>1, FaultTyped DEF UninstallStep, Freeze, Frozen, RemoveUnits, RemoveFiles, Mark,
       PurgeMark, PurgeAll, Works, Refused
  <2>3. payload' \in Payloads /\ intent' \in {None, "prepared", "committed", "aborted"}
        /\ fresh' \in BOOLEAN /\ ordered' \in Modes \union {None} /\ UNCHANGED <<runs, orders>>
    BY <1>3, <2>1 DEF TypeOK, Payloads, UninstallStep, Freeze, Frozen, RemoveUnits, RemoveFiles,
       Mark, PurgeMark, PurgeAll, Abort, host, files, counts
  <2>4. active' \subseteq Units
    BY <1>3, <2>1 DEF TypeOK, UninstallStep, Freeze, Frozen, RemoveUnits, RemoveFiles, Mark,
       PurgeMark, PurgeAll, host
  <2> QED
    BY <2>2, <2>3, <2>4
<1> QED
  BY <1>1, <1>2, <1>3 DEF ScriptStep

\* The types after a step of a script.
LEMMA ScriptTypes ==
  ASSUME LifeInv, ScriptStep
  PROVE  TypeOK'
<1>1. setup # None /\ call = None
  BY DEF ScriptStep, InstallStep, RestoreStep, UninstallStep, At, GiveUp, Recover, Backup, Prepare,
     Remove, Copy, Restart, Revoke, Socket, ApplyMode, Applied, Verify, Commit, Clean,
     RestorePaths, RestoreCopy, RestoreUnits, RestoreRevoke, Restored,
     Freeze, Frozen, RemoveUnits, RemoveFiles, Mark, PurgeMark, PurgeAll
<1>2. /\ TypeOK /\ FilesInv /\ Txn \in Runs /\ Target \in Modes /\ setup \in Setups
      /\ {config, runtime, policy} \subseteq Modes
  BY <1>1, ScriptKnows
<1>3. setup' \in Setups \union {None} /\ DirsOK'
  BY InstallSetups, RestoreSetups, UninstallSetups, InstallDirs, ScriptDirs DEF ScriptStep
<1>4. CASE PurgeAll
  <2>1. /\ {config', runtime', policy'} = {None} /\ confirmed' = None
        /\ setup' = None /\ call' = None
    BY <1>1, <1>4 DEF PurgeAll, Exit
  <2>2. confirmed' \in 0..MaxRuns \union {None} /\ setup' \in Setups \union {None}
        /\ call' \in Calls \union {None} /\ ~(setup' # None \/ call' # None)
        /\ runs' \in 0..MaxRuns /\ orders' \in 0..MaxOrders
    BY <1>2, <2>1, ScriptFiles DEF TypeOK
  <2> QED
    BY <1>3, <2>1, <2>2, ScriptFiles DEF TypeOK, DirsOK
<1>5. CASE ~PurgeAll
  <2>1. UNCHANGED <<config, runtime, policy>> /\ confirmed' \in {confirmed, None}
    BY <1>5 DEF ScriptStep, InstallStep, RestoreStep, UninstallStep, GiveUp, Recover, Backup,
       Prepare, Remove, Copy, Restart, Revoke, Socket, ApplyMode, Applied, Verify, Commit, Clean,
       RestorePaths, RestoreCopy, RestoreUnits, RestoreRevoke, Restored,
       Freeze, Frozen, RemoveUnits, RemoveFiles, Mark, PurgeMark, modes
  <2>2. call' = None \/ (call' \in Calls /\ setup' # None)
    <3>1. ASSUME NEW p \in SetupPcs, Goto(p) PROVE setup' # None
      BY <1>2, <3>1, SetupTyped, ConstantsOK DEF Goto
    <3>2. CASE ApplyMode
      <4>1. Apply(Target, "setup") /\ Goto("applied") /\ "applied" \in SetupPcs
        BY <3>2 DEF ApplyMode, SetupPcs
      <4> QED
        BY <1>2, <3>1, <4>1, ApplyTyped, ConstantsOK
    <3>3. CASE RestoreRevoke
      <4>1. dirs[Txn].mode \in Modes
        BY <1>2, <3>3 DEF RestoreRevoke, At, FilesInv, Restoring, Marked, TypeOK, Dirs
      <4>2. (IF setup.saved # None THEN setup.saved ELSE dirs[Txn].mode) \in Modes
        BY <1>1, <4>1, ScriptKnows
      <4>3. \/ call' = call
            \/ /\ Goto("restored") /\ "restored" \in SetupPcs
               /\ Apply(IF setup.saved # None THEN setup.saved ELSE dirs[Txn].mode, "setup")
        BY <3>3 DEF RestoreRevoke, SetupPcs
      <4> QED
        BY <1>1, <1>2, <3>1, <4>2, <4>3, ApplyTyped, ConstantsOK
    <3>4. CASE Freeze
      <4>1. Apply(Observe, "setup") /\ Goto("frozen") /\ "frozen" \in SetupPcs
        BY <3>4 DEF Freeze, SetupPcs
      <4> QED
        BY <1>2, <3>1, <4>1, ApplyTyped, ConstantsOK
    <3> QED
      BY <1>1, <1>5, <3>2, <3>3, <3>4
      DEF ScriptStep, InstallStep, RestoreStep, UninstallStep, GiveUp,
         Recover, Backup, Prepare, Remove, Copy, Restart, Revoke, Socket, Applied, Verify,
         Commit, Clean, RestorePaths, RestoreCopy, RestoreUnits, Restored,
         Frozen, RemoveUnits, RemoveFiles, Mark, PurgeMark
  <2> QED
    BY <1>2, <1>3, <2>1, <2>2, ScriptFiles, ConstantsOK DEF TypeOK, DirsOK
<1> QED
  BY <1>4, <1>5

HostStep == \/ \E mode \in Modes : Order(mode)
            \/ \E kind \in {"install", "upgrade"} : Install(kind)
            \/ Uninstall \/ Purge \/ ConfirmAuto \/ Drift \/ Kill

\* A script begins with the mode the host is in, and with a directory of its own.
LEMMA BeginTyped ==
  ASSUME TypeOK, NEW kind \in {"install", "upgrade", "uninstall", "purge"},
         NEW pc \in SetupPcs, Begin(kind, pc)
  PROVE  /\ setup' \in Setups /\ runs' \in 0..MaxRuns /\ runs + 1 \in Runs
         /\ {config, runtime, policy} \subseteq Modes
<1>1. runs + 1 \in Runs /\ runs' \in 0..MaxRuns /\ orders \in 0..MaxOrders /\ 0 \in 0..Tries
  BY ConstantsOK DEF TypeOK, Begin, Runs
<1>2. {config, runtime, policy} \subseteq Modes
  BY DEF TypeOK, Begin
<1>3. setup' = [kind |-> kind, pc |-> pc, run |-> runs + 1, txn |-> runs + 1,
               saved |-> IF kind = "upgrade" THEN config ELSE None,
               recovering |-> FALSE, tries |-> 0, rc |-> 0, answer |-> FALSE,
               orders |-> orders]
  BY DEF Begin
<1> QED
  BY <1>1, <1>2, <1>3 DEF Setups

\* The types after an order, a new script, a drift or a kill.
LEMMA HostTypes ==
  ASSUME LifeInv, HostStep
  PROVE  TypeOK'
<1>1. TypeOK /\ DirsOK
  BY DEF LifeInv, TypeOK, DirsOK
<1>2. ASSUME NEW mode \in Modes, Order(mode) PROVE TypeOK'
  <2>1. call' \in Calls /\ {config, runtime, policy} \subseteq Modes
    BY <1>1, <1>2, ApplyTyped DEF Order, TypeOK
  <2>2. orders' \in 0..MaxOrders
    BY <1>1, <1>2, ConstantsOK DEF Order, TypeOK
  <2>3. call'.by = "operator"
    BY <1>2 DEF Order, Apply
  <2> QED
    BY <1>1, <1>2, <2>1, <2>2, <2>3, ConstantsOK DEF Order, TypeOK, modes, host, files
<1>3. ASSUME NEW kind \in {"install", "upgrade"}, Install(kind) PROVE TypeOK'
  <2>1. Begin(kind, "recover") /\ "recover" \in SetupPcs
    BY <1>3 DEF Install, SetupPcs
  <2>2. /\ setup' \in Setups /\ runs' \in 0..MaxRuns /\ runs + 1 \in Runs
        /\ {config, runtime, policy} \subseteq Modes
    BY <1>1, <2>1, BeginTyped
  <2>3. Made \in Dirs /\ Made.mark = "made"
    BY DEF Made, Dirs, Payloads
  <2>4. DirsOK'
    BY <1>1, <1>3, <2>2, <2>3, MadeTyped DEF Install
  <2> QED
    BY <1>1, <1>3, <2>1, <2>2, <2>4, ConstantsOK DEF Begin, Install, TypeOK, DirsOK, modes, host
<1>4. CASE Uninstall \/ Purge
  <2>1. \E kind \in {"uninstall", "purge"}, pc \in SetupPcs : Begin(kind, pc)
    BY <1>4 DEF Uninstall, Purge, SetupPcs
  <2>2. /\ setup' \in Setups /\ runs' \in 0..MaxRuns
        /\ {config, runtime, policy} \subseteq Modes
    BY <1>1, <2>1, BeginTyped
  <2>3. UNCHANGED <<modes, host, files, call, orders, faults, ordered>>
    BY <1>4 DEF Uninstall, Purge, Begin, files
  <2> QED
    BY <1>1, <2>2, <2>3, ConstantsOK DEF TypeOK, modes, host, files
<1>5. CASE ConfirmAuto
  BY <1>1, <1>5, ConstantsOK DEF ConfirmAuto, TypeOK, Works, host, files
<1>6. CASE Drift
  <2>1. faults' \in 0..MaxFaults
    BY <1>1, <1>6, FaultTyped DEF Drift, Works
  <2>2. active' \subseteq Units /\ fresh' \in BOOLEAN
    BY <1>1, <1>6 DEF Drift, TypeOK, Units
  <2> QED
    BY <1>1, <1>6, <2>1, <2>2 DEF Drift, TypeOK, modes, files, counts
<1>7. CASE Kill
  <2>1. faults' \in 0..MaxFaults
    BY <1>1, <1>7, FaultTyped DEF Kill
  <2> QED
    BY <1>1, <1>7, <2>1 DEF Kill, TypeOK, modes, host, files, counts
<1> QED
  BY <1>2, <1>3, <1>4, <1>5, <1>6, <1>7 DEF HostStep

\* Types are preserved.
LEMMA TypesStep == LifeInv /\ [Next]_vars => TypeOK'
<1>1. ASSUME LifeInv, Next PROVE TypeOK'
  BY <1>1, CallTypes, ScriptTypes, HostTypes DEF Next, ScriptStep, HostStep
<1>2. ASSUME LifeInv, UNCHANGED vars PROVE TypeOK'
  BY <1>2 DEF LifeInv, TypeOK, vars
<1> QED
  BY <1>1, <1>2

-----------------------------------------------------------------------------
(* The files *)

\* Who does not touch the files, or the place of a script, does not touch what it says
\* of them.
LEMMA FilesUntouched ==
  ASSUME TypeOK, FilesInv, UNCHANGED <<payload, dirs, runs>>,
         \/ setup' = setup \/ setup' = None
         \/ setup # None /\ \E b \in BOOLEAN : setup' = [setup EXCEPT !.answer = b]
  PROVE  FilesInv'
<1>1. setup' # None =>
        /\ setup # None /\ setup'.pc = setup.pc /\ setup'.txn = setup.txn
        /\ setup'.kind = setup.kind /\ setup'.saved = setup.saved
        /\ setup'.recovering = setup.recovering
  BY ConstantsOK DEF TypeOK, Setups
<1> QED
  BY <1>1 DEF FilesInv, Marked, OnlyMade, Txn, Upgrading

\* An order, a drift and a kill leave the files alone; a new script has an empty directory.
LEMMA HostKeepsFiles ==
  ASSUME LifeInv, HostStep
  PROVE  FilesInv'
<1>1. TypeOK /\ FilesInv
  BY DEF LifeInv
<1>2. CASE ConfirmAuto \/ Drift \/ Kill \/ \E mode \in Modes : Order(mode)
  BY <1>1, <1>2, FilesUntouched DEF ConfirmAuto, Drift, Kill, Order, files, counts
<1>3. ASSUME NEW kind \in {"install", "upgrade"}, Install(kind) PROVE FilesInv'
  <2>1. /\ runs' = runs + 1 /\ UNCHANGED payload /\ config \in Modes
        /\ setup' = [kind |-> kind, pc |-> "recover", run |-> runs + 1, txn |-> runs + 1,
               saved |-> IF kind = "upgrade" THEN config ELSE None,
               recovering |-> FALSE, tries |-> 0, rc |-> 0, answer |-> FALSE,
               orders |-> orders]
        /\ kind = "upgrade" => payload # None
    BY <1>1, <1>3 DEF Install, Begin, TypeOK
  <2>2. dirs' = [dirs EXCEPT ![runs + 1] = Made] /\ runs + 1 \in Runs
        /\ dirs \in [Runs -> Dirs \union {None}] /\ runs \in Nat
    BY <1>1, <1>3, ConstantsOK DEF Install, Begin, TypeOK, Runs
  <2>3. \A r \in Runs : r # runs + 1 => dirs'[r] = dirs[r]
    BY <2>2
  <2>4. dirs'[runs + 1] = Made /\ Made.mark = "made" /\ Made \in Dirs /\ dirs[runs + 1] = None
    BY <1>1, <2>2 DEF Made, Dirs, Payloads, FilesInv
  <2>5. payload' = "mixed" => \E r \in Runs : Marked(r, "prepared")'
    BY <1>1, <2>1, <2>2, <2>3, <2>4 DEF FilesInv, Marked
  <2>6. \A r \in Runs : dirs'[r] = None \/ Marked(r, "made")' \/ dirs'[r].payload # "mixed"
    BY <1>1, <2>3, <2>4, ConstantsOK DEF FilesInv, Marked
  <2>7. \A r \in Runs : r > runs' => dirs'[r] = None
    BY <1>1, <2>1, <2>2, <2>3 DEF FilesInv, Runs
  <2>8. Marked(Txn, "made")' /\ Txn' <= runs' /\ Txn' = runs + 1
    BY <2>1, <2>2, <2>4, ConstantsOK DEF Marked, Txn
  <2> QED
    BY <2>1, <2>5, <2>6, <2>7, <2>8, ConstantsOK
    DEF FilesInv, Restoring, Replaced, Uninstalling, Txn, Upgrading
<1>4. CASE Uninstall \/ Purge
  <2>1. /\ runs' = runs + 1 /\ UNCHANGED <<payload, dirs>> /\ runs \in Nat
        /\ setup'.pc \in {"freeze", "purgeMark"} /\ setup'.txn = runs + 1
        /\ setup'.recovering = FALSE /\ setup'.kind \in {"uninstall", "purge"}
    BY <1>1, <1>4, ConstantsOK DEF Uninstall, Purge, Begin, TypeOK
  <2> QED
    BY <1>1, <2>1
    DEF FilesInv, Marked, OnlyMade, Restoring, Replaced, Uninstalling, Txn, Upgrading, Runs
<1> QED
  BY <1>2, <1>3, <1>4 DEF HostStep

\* The directory of a script is put away, and with it the script.
LEMMA ExitKeepsFiles ==
  ASSUME LifeInv, setup # None, UNCHANGED runs, setup' = None,
         payload' # "mixed" \/ (UNCHANGED payload /\ (UNCHANGED dirs \/ ~Marked(Txn, "prepared"))),
         ExitTrap \/ UNCHANGED dirs
  PROVE  FilesInv'
<1>1. FilesInv /\ dirs \in [Runs -> Dirs \union {None}] /\ Txn \in Runs
  BY ScriptKnows DEF TypeOK
<1> QED
  BY <1>1 DEF FilesInv, Marked, ExitTrap

\* A script moves on and leaves the files as they are.
LEMMA GotoKeepsFiles ==
  ASSUME LifeInv, setup # None, NEW p \in SetupPcs, Goto(p), UNCHANGED <<runs, payload, dirs>>,
         p # "recover",
         p \in {"backup", "prepare", "commit"} => Upgrading,
         p \in {"backup", "prepare"} => OnlyMade,
         p # "prepare",
         p \in ({"remove", "copy"} \union Replaced) \ {"clean"} =>
            IF Upgrading THEN Marked(Txn, "prepared") ELSE payload # "mixed",
         p \in Replaced => payload = "new",
         p \in Restoring => Marked(Txn, "prepared"),
         setup.recovering => p \in Restoring,
         p \in Uninstalling => ~Upgrading,
         p \in {"restoreUnits", "restoreRevoke", "restored"} => payload # "mixed"
  PROVE  FilesInv'
<1>1. /\ setup'.pc = p /\ setup'.txn = setup.txn /\ setup'.saved = setup.saved
      /\ setup'.kind = setup.kind /\ setup'.recovering = setup.recovering
  BY ScriptKnows DEF Goto, Setups
<1> QED
  BY <1>1, ScriptKnows DEF FilesInv, Marked, OnlyMade, Txn, Upgrading

\* A mode transaction does not touch the files.
LEMMA CallKeepsFiles ==
  ASSUME LifeInv, CallStep
  PROVE  FilesInv'
<1>1. TypeOK /\ FilesInv /\ call \in Calls /\ (call.by = "setup" => setup # None)
  BY DEF LifeInv, TypeOK, CallStep
<1>2. UNCHANGED <<payload, dirs, runs>>
  BY DEF CallStep, Match, SyncPolicy, SetRuntime, VerifyRuntime, SwitchUnits, Refresh, CommitConfig,
     UndoRuntime, UndoPolicy, UndoUnits, UndoConfig, files, counts
<1>3. CASE Moves
  BY <1>1, <1>2, <1>3, FilesUntouched DEF Moves
<1>4. CASE Ends
  <2>1. PICK ok \in BOOLEAN : Return(ok)
    BY <1>4 DEF Ends
  <2>2. \/ setup' = setup
        \/ setup # None /\ \E b \in BOOLEAN : setup' = [setup EXCEPT !.answer = b]
    BY <1>1, <2>1 DEF Return
  <2> QED
    BY <1>1, <1>2, <2>2, FilesUntouched
<1> QED
  BY <1>1, <1>3, <1>4, CallSteps

\* An upgrade that stops goes to its restore; another installer exits.
LEMMA RollbackKeepsFiles ==
  ASSUME LifeInv, setup # None, Rollback, UNCHANGED <<runs, payload>>,
         setup.pc \in ({"copy"} \union Replaced) \ {"clean"},
         ~Upgrading => payload # "mixed"
  PROVE  FilesInv'
<1>1. CASE Upgrading
  <2>1. Marked(Txn, "prepared")
    BY <1>1, ScriptKnows DEF FilesInv
  <2> QED
    BY <1>1, <2>1, GotoKeepsFiles DEF Rollback, SetupPcs, Replaced, Restoring, Uninstalling
<1>2. CASE ~Upgrading
  BY <1>2, ExitKeepsFiles DEF Rollback, Exit
<1> QED
  BY <1>1, <1>2

\* The installer mixes the files only when its directory is marked, and marks it only when
\* no other one is; what it rolls back, it restores.
LEMMA InstallKeepsFiles ==
  ASSUME LifeInv, InstallStep
  PROVE  FilesInv'
<1>1. setup # None /\ UNCHANGED runs
  BY DEF InstallStep, At, GiveUp, Recover, Backup, Prepare, Remove, Copy, Restart, Revoke, Socket,
     ApplyMode, Applied, Verify, Commit, Clean, counts
<1>2. /\ TypeOK /\ FilesInv /\ setup \in Setups /\ Txn \in Runs
      /\ dirs \in [Runs -> Dirs \union {None}]
  BY <1>1, ScriptKnows DEF TypeOK
<1>3. CASE GiveUp
  <2>1. ~Marked(Txn, "prepared")
    BY <1>2, <1>3 DEF GiveUp, At, FilesInv, OnlyMade, Marked
  <2> QED
    BY <1>1, <1>3, <2>1, ExitKeepsFiles DEF GiveUp, Exit
<1>4. CASE Recover
  <2>1. CASE \E r \in Previous("committed") : dirs' = [dirs EXCEPT ![r] = None] /\ UNCHANGED setup
    <3>1. PICK r \in Runs : r # Txn /\ Marked(r, "committed") /\ dirs' = [dirs EXCEPT ![r] = None]
      BY <2>1 DEF Previous, Marked
    <3>2. \A q \in Runs : dirs'[q] = IF q = r THEN None ELSE dirs[q]
      BY <1>2, <3>1
    <3>3. UNCHANGED <<payload, setup, runs>> /\ setup.pc = "recover"
      BY <1>4, <2>1 DEF Recover, At, counts
    <3>4. payload' = "mixed" => \E q \in Runs : Marked(q, "prepared")'
      BY <1>2, <3>1, <3>2, <3>3 DEF FilesInv, Marked
    <3> QED
      BY <1>1, <1>2, <3>1, <3>2, <3>3, <3>4
      DEF FilesInv, Marked, Restoring, Replaced, Uninstalling, Txn, Upgrading
  <2>2. CASE \E r \in Previous("prepared") :
               /\ setup' = [setup EXCEPT !.pc = "restorePaths", !.txn = r, !.recovering = TRUE]
               /\ UNCHANGED dirs
    <3>1. PICK r \in Runs :
               /\ Marked(r, "prepared") /\ UNCHANGED dirs
               /\ setup' = [setup EXCEPT !.pc = "restorePaths", !.txn = r, !.recovering = TRUE]
      BY <2>2 DEF Previous, Marked
    <3>2. setup'.pc = "restorePaths" /\ setup'.txn = r /\ setup'.saved = setup.saved
          /\ setup'.kind = setup.kind
      BY <1>2, <3>1 DEF Setups
    <3>3. UNCHANGED payload /\ r <= runs /\ runs' = runs
      <4>1. runs \in Nat /\ r \in Nat
        BY <1>2, <3>1, ConstantsOK DEF TypeOK, Runs
      <4>2. ~(r > runs)
        BY <1>2, <3>1 DEF FilesInv, Marked
      <4>3. UNCHANGED payload
        BY <1>4 DEF Recover
      <4> QED
        BY <1>1, <4>1, <4>2, <4>3
    <3> QED
      BY <1>1, <1>2, <3>1, <3>2, <3>3
      DEF FilesInv, Marked, Restoring, Replaced, Uninstalling, Txn, Upgrading
  <2>3. CASE /\ Previous("committed") \union Previous("prepared") = {}
             /\ Goto(IF Upgrading THEN "backup" ELSE "remove") /\ UNCHANGED dirs
    <3>1. OnlyMade
      BY <1>2, <1>4, <2>3 DEF Recover, At, FilesInv, Previous, OnlyMade, Marked, Dirs
    <3>2. payload # "mixed" /\ ~setup.recovering
      BY <1>2, <1>4, <3>1 DEF Recover, At, FilesInv, OnlyMade, Marked, Restoring
    <3>3. UNCHANGED payload
      BY <1>4 DEF Recover
    <3> QED
      BY <1>1, <2>3, <3>1, <3>2, <3>3, GotoKeepsFiles
      DEF SetupPcs, Replaced, Restoring, Uninstalling
  <2> QED
    BY <1>4, <2>1, <2>2, <2>3 DEF Recover
<1>5. CASE Backup
  <2>1. /\ UNCHANGED <<payload, runs>> /\ Goto("prepare")
        /\ dirs' = [dirs EXCEPT ![Txn] = [mark |-> "made", payload |-> payload,
                                          mode |-> setup.saved, active |-> active]]
    BY <1>1, <1>5 DEF Backup
  <2>2. Upgrading /\ OnlyMade /\ setup.saved # None /\ payload # None /\ ~setup.recovering
    BY <1>1, <1>2, <1>5 DEF Backup, At, FilesInv, Restoring
  <2>3. payload # "mixed"
    BY <1>2, <2>2 DEF FilesInv, OnlyMade, Marked
  <2>4. DirsOK' /\ Txn' = Txn
    BY <1>5, <2>1, InstallDirs, <1>2 DEF InstallStep, Goto, Txn, Setups
  <2>5. dirs'[Txn] # None /\ dirs'[Txn].mark = "made" /\ dirs'[Txn].payload = payload
        /\ dirs'[Txn].mode = setup.saved
    <3> DEFINE d == [mark |-> "made", payload |-> payload, mode |-> setup.saved, active |-> active]
    <3>1. d \in Dirs
      BY <1>2, <1>1, ScriptKnows DEF Dirs, TypeOK
    <3>2. dirs'[Txn] = d
      BY <1>2, <2>1
    <3> QED
      BY <3>1, <3>2, ConstantsOK
  <2>6. \A r \in Runs : r # Txn => dirs'[r] = dirs[r]
    BY <1>2, <2>1
  <2>7. setup'.pc = "prepare" /\ setup'.txn = setup.txn /\ setup'.saved = setup.saved
        /\ setup'.kind = setup.kind /\ setup'.recovering = setup.recovering
    BY <1>2, <2>1 DEF Goto, Setups
  <2>8. OnlyMade'
    BY <2>2, <2>5, <2>6 DEF OnlyMade, Marked
  <2>9. setup.txn <= runs /\ (\A r \in Runs : r > runs => dirs'[r] = None)
    <3>1. runs \in Nat /\ Runs \subseteq Nat /\ setup.txn \in Nat
      BY <1>2, ConstantsOK DEF TypeOK, Runs, Txn
    <3>2. setup.txn <= runs
      BY <1>1, <1>2 DEF FilesInv
    <3>3. \A r \in Runs : r > runs => dirs[r] = None
      BY <1>2 DEF FilesInv
    <3> QED
      BY <2>6, <3>1, <3>2, <3>3 DEF Txn
  <2> QED
    BY <1>1, <1>2, <2>1, <2>2, <2>3, <2>4, <2>5, <2>7, <2>8, <2>9
    DEF FilesInv, Marked, OnlyMade, Restoring, Replaced, Uninstalling, Txn, Upgrading
<1>6. CASE Prepare
  <2>1. /\ UNCHANGED <<payload, runs>> /\ Goto("remove")
        /\ dirs' = [dirs EXCEPT ![Txn].mark = "prepared"]
    BY <1>1, <1>6 DEF Prepare
  <2>2. /\ Upgrading /\ setup.saved # None /\ payload # None /\ ~setup.recovering
        /\ Marked(Txn, "made") /\ dirs[Txn].payload # "mixed"
    BY <1>1, <1>2, <1>6 DEF Prepare, At, FilesInv, Restoring
  <2>3. dirs[Txn] \in Dirs
    BY <1>2, <2>2 DEF Marked
  <2>4. dirs'[Txn] \in Dirs /\ dirs'[Txn].mark = "prepared" /\ dirs'[Txn].payload # "mixed"
    BY <1>2, <2>1, <2>2, <2>3 DEF Dirs
  <2>5. \A r \in Runs : r # Txn => dirs'[r] = dirs[r]
    BY <1>2, <2>1
  <2>6. setup'.pc = "remove" /\ setup'.txn = setup.txn /\ setup'.saved = setup.saved
        /\ setup'.kind = setup.kind /\ setup'.recovering = setup.recovering
    BY <1>2, <2>1 DEF Goto, Setups
  <2>7. setup.txn <= runs /\ (\A r \in Runs : r > runs => dirs'[r] = None)
    <3>1. runs \in Nat /\ Runs \subseteq Nat /\ setup.txn \in Nat
      BY <1>2, ConstantsOK DEF TypeOK, Runs, Txn
    <3>2. setup.txn <= runs
      BY <1>1, <1>2 DEF FilesInv
    <3>3. \A r \in Runs : r > runs => dirs[r] = None
      BY <1>2 DEF FilesInv
    <3> QED
      BY <2>5, <3>1, <3>2, <3>3 DEF Txn
  <2>8. Marked(Txn, "prepared")' /\ Txn' = Txn
    BY <2>4, <2>6, ConstantsOK DEF Marked, Txn
  <2> QED
    BY <1>1, <1>2, <2>1, <2>2, <2>4, <2>5, <2>6, <2>7, <2>8
    DEF FilesInv, Marked, Restoring, Replaced, Uninstalling, Txn, Upgrading
<1>7. CASE Remove
  <2>1. /\ UNCHANGED <<dirs, runs>> /\ Goto("copy") /\ setup.pc = "remove"
        /\ payload' = IF Upgrading THEN "mixed" ELSE "partial"
    BY <1>1, <1>7 DEF Remove, At
  <2>2. IF Upgrading THEN Marked(Txn, "prepared") /\ payload' = "mixed" ELSE payload' = "partial"
    BY <1>1, <1>2, <2>1 DEF FilesInv, Replaced
  <2>3. setup'.pc = "copy" /\ setup'.txn = setup.txn /\ setup'.saved = setup.saved
        /\ setup'.kind = setup.kind /\ setup'.recovering = setup.recovering
    BY <1>2, <2>1 DEF Goto, Setups
  <2>4. "mixed" # None /\ "partial" # None
    BY ConstantsOK DEF Broken
  <2> QED
    BY <1>1, <1>2, <2>1, <2>2, <2>3, <2>4
    DEF FilesInv, Marked, Restoring, Replaced, Uninstalling, Txn, Upgrading
<1>8. CASE Copy
  <2>1. setup.pc = "copy" /\ UNCHANGED runs
    BY <1>8 DEF Copy, At, counts
  <2>2. IF Upgrading THEN Marked(Txn, "prepared") ELSE payload # "mixed"
    BY <1>1, <1>2, <2>1 DEF FilesInv, Replaced
  <2>3. CASE payload' = "new" /\ Goto("restart") /\ UNCHANGED dirs
    <3>1. setup'.pc = "restart" /\ setup'.txn = setup.txn /\ setup'.saved = setup.saved
          /\ setup'.kind = setup.kind /\ setup'.recovering = setup.recovering
      BY <1>2, <2>3 DEF Goto, Setups
    <3>2. "new" # None
      BY ConstantsOK
    <3> QED
      BY <1>1, <1>2, <2>1, <2>2, <2>3, <3>1, <3>2
      DEF FilesInv, Marked, Restoring, Replaced, Uninstalling, Txn, Upgrading
  <2>4. CASE Rollback /\ UNCHANGED payload
    BY <1>1, <2>1, <2>2, <2>4, RollbackKeepsFiles
  <2> QED
    BY <1>8, <2>3, <2>4 DEF Copy
<1>9. CASE Restart \/ Revoke \/ Socket \/ ApplyMode \/ Applied \/ Verify
  <2>1. /\ setup.pc \in Replaced \ {"commit", "clean"} /\ UNCHANGED <<payload, runs>>
        /\ payload = "new" /\ ~setup.recovering
    BY <1>1, <1>2, <1>9 DEF Restart, Revoke, Socket, ApplyMode, Applied, Verify, At, counts, files,
       FilesInv, Replaced, Restoring, Uninstalling
  <2>2. Upgrading => Marked(Txn, "prepared")
    BY <1>1, <1>2, <2>1 DEF FilesInv
  <2>3. \/ Rollback
        \/ /\ UNCHANGED dirs
           /\ \E p \in Replaced : Goto(p) /\ (p = "commit" => Upgrading) /\ p # "clean"
        \/ UNCHANGED dirs /\ setup' = [setup EXCEPT !.pc = "apply", !.tries = @ + 1]
        \/ Exit /\ ExitTrap
    BY <1>9 DEF Restart, Revoke, Socket, ApplyMode, Applied, Verify, files, Replaced
  <2>4. CASE Rollback
    BY <1>1, <2>1, <2>4, RollbackKeepsFiles
  <2>5. CASE /\ UNCHANGED dirs
             /\ \E p \in Replaced : Goto(p) /\ (p = "commit" => Upgrading) /\ p # "clean"
    BY <1>1, <2>1, <2>2, <2>5, GotoKeepsFiles DEF SetupPcs, Replaced, Restoring, Uninstalling
  <2>6. CASE UNCHANGED dirs /\ setup' = [setup EXCEPT !.pc = "apply", !.tries = @ + 1]
    <3>1. setup'.pc = "apply" /\ setup'.txn = setup.txn /\ setup'.saved = setup.saved
          /\ setup'.kind = setup.kind /\ setup'.recovering = setup.recovering
      BY <1>2, <2>6 DEF Setups
    <3> QED
      BY <1>1, <1>2, <2>1, <2>2, <2>6, <3>1
      DEF FilesInv, Marked, Restoring, Replaced, Uninstalling, Txn, Upgrading
  <2>7. CASE Exit /\ ExitTrap
    BY <1>1, <2>1, <2>7, ExitKeepsFiles DEF Exit
  <2> QED
    BY <2>3, <2>4, <2>5, <2>6, <2>7
<1>10. CASE Commit
  <2>1. /\ UNCHANGED <<payload, runs>> /\ Goto("clean") /\ setup.pc = "commit"
        /\ dirs' = [dirs EXCEPT ![Txn].mark = "committed"]
    BY <1>1, <1>10 DEF Commit, At
  <2>2. /\ Upgrading /\ setup.saved # None /\ payload = "new" /\ ~setup.recovering
        /\ Marked(Txn, "prepared") /\ dirs[Txn].payload # "mixed"
    BY <1>1, <1>2, <2>1 DEF FilesInv, Restoring, Replaced, Uninstalling, Marked
  <2>3. dirs[Txn] \in Dirs
    BY <1>2, <2>2 DEF Marked
  <2>4. dirs'[Txn] \in Dirs /\ dirs'[Txn].mark = "committed" /\ dirs'[Txn].payload # "mixed"
    BY <1>2, <2>1, <2>2, <2>3 DEF Dirs
  <2>5. \A r \in Runs : r # Txn => dirs'[r] = dirs[r]
    BY <1>2, <2>1
  <2>6. setup'.pc = "clean" /\ setup'.txn = setup.txn /\ setup'.saved = setup.saved
        /\ setup'.kind = setup.kind /\ setup'.recovering = setup.recovering
    BY <1>2, <2>1 DEF Goto, Setups
  <2>7. setup.txn <= runs /\ (\A r \in Runs : r > runs => dirs'[r] = None)
    <3>1. runs \in Nat /\ Runs \subseteq Nat /\ setup.txn \in Nat
      BY <1>2, ConstantsOK DEF TypeOK, Runs, Txn
    <3>2. setup.txn <= runs
      BY <1>1, <1>2 DEF FilesInv
    <3>3. \A r \in Runs : r > runs => dirs[r] = None
      BY <1>2 DEF FilesInv
    <3> QED
      BY <2>5, <3>1, <3>2, <3>3 DEF Txn
  <2> QED
    BY <1>1, <1>2, <2>1, <2>2, <2>4, <2>5, <2>6, <2>7, ConstantsOK
    DEF FilesInv, Marked, Restoring, Replaced, Uninstalling, Txn, Upgrading
<1>11. CASE Clean
  <2>1. payload = "new"
    BY <1>1, <1>2, <1>11 DEF Clean, At, FilesInv, Replaced
  <2> QED
    BY <1>1, <1>11, <2>1, ExitKeepsFiles DEF Clean, Exit
<1> QED
  BY <1>3, <1>4, <1>5, <1>6, <1>7, <1>8, <1>9, <1>10, <1>11 DEF InstallStep

\* The restore ends with the files of the directory, or with torn ones.
LEMMA RestoreKeepsFiles ==
  ASSUME LifeInv, RestoreStep
  PROVE  FilesInv'
<1>1. setup # None /\ UNCHANGED runs
  BY DEF RestoreStep, At, RestorePaths, RestoreCopy, RestoreUnits, RestoreRevoke, Restored, counts
<1>2. /\ TypeOK /\ FilesInv /\ setup \in Setups /\ Txn \in Runs
      /\ dirs \in [Runs -> Dirs \union {None}]
  BY <1>1, ScriptKnows DEF TypeOK
<1>3. Marked(Txn, "prepared") /\ dirs[Txn].payload # "mixed" /\ dirs[Txn].payload # None
  <2>1. Marked(Txn, "prepared")
    BY <1>1, <1>2 DEF RestoreStep, At, RestorePaths, RestoreCopy, RestoreUnits, RestoreRevoke,
       Restored, FilesInv, Restoring
  <2> QED
    BY <1>2, <2>1 DEF FilesInv, TypeOK, Marked
<1>4. CASE RestorePaths \/ RestoreCopy
  <2>1. /\ UNCHANGED dirs /\ setup.pc \in {"restorePaths", "restoreCopy"}
        /\ \/ Goto("restoreCopy") /\ payload' = "mixed"
           \/ Goto("restoreUnits") /\ payload' \in {dirs[Txn].payload, "torn"}
    BY <1>1, <1>4 DEF RestorePaths, RestoreCopy, At
  <2>2. /\ setup'.txn = setup.txn /\ setup'.saved = setup.saved
        /\ setup'.kind = setup.kind /\ setup'.recovering = setup.recovering
        /\ \/ setup'.pc = "restoreCopy" /\ payload' = "mixed"
           \/ setup'.pc = "restoreUnits" /\ payload' \in {dirs[Txn].payload, "torn"}
    BY <1>2, <2>1 DEF Goto, Setups
  <2>3. "torn" # None /\ "mixed" # None
    BY ConstantsOK DEF Broken
  <2> QED
    BY <1>1, <1>2, <1>3, <2>1, <2>2, <2>3
    DEF FilesInv, Marked, Restoring, Replaced, Uninstalling, Txn, Upgrading
<1>5. CASE RestoreUnits \/ RestoreRevoke \/ Restored
  <2>1. UNCHANGED payload /\ payload # "mixed"
    BY <1>1, <1>2, <1>5 DEF RestoreUnits, RestoreRevoke, Restored, At, FilesInv
  <2>2. \/ \E p \in {"restoreRevoke", "restored"} : Goto(p) /\ UNCHANGED dirs
        \/ setup' = None /\ (ExitTrap \/ UNCHANGED dirs)
        \/ /\ ExitTrap
           /\ setup' = [setup EXCEPT !.pc = "recover", !.recovering = FALSE, !.answer = FALSE]
    BY <1>5 DEF RestoreUnits, RestoreRevoke, Restored, RestoreFails, Exit
  <2>3. CASE \E p \in {"restoreRevoke", "restored"} : Goto(p) /\ UNCHANGED dirs
    BY <1>1, <1>3, <2>1, <2>3, GotoKeepsFiles DEF SetupPcs, Replaced, Restoring, Uninstalling
  <2>4. CASE setup' = None /\ (ExitTrap \/ UNCHANGED dirs)
    BY <1>1, <2>1, <2>4, ExitKeepsFiles
  <2>5. CASE /\ ExitTrap
             /\ setup' = [setup EXCEPT !.pc = "recover", !.recovering = FALSE, !.answer = FALSE]
    <3>1. \A r \in Runs : dirs'[r] = IF r = Txn THEN None ELSE dirs[r]
      BY <1>2, <2>5 DEF ExitTrap
    <3>2. /\ setup'.pc = "recover" /\ setup'.txn = setup.txn /\ setup'.saved = setup.saved
          /\ setup'.kind = setup.kind /\ setup'.recovering = FALSE
      BY <1>2, <2>5 DEF Setups
    <3> QED
      BY <1>1, <1>2, <2>1, <3>1, <3>2
      DEF FilesInv, Marked, Restoring, Replaced, Uninstalling, Txn, Upgrading
  <2> QED
    BY <2>2, <2>3, <2>4, <2>5
<1> QED
  BY <1>4, <1>5 DEF RestoreStep

\* The uninstaller removes all files or none.
LEMMA UninstallKeepsFiles ==
  ASSUME LifeInv, UninstallStep
  PROVE  FilesInv'
<1>1. setup # None /\ UNCHANGED runs
  BY DEF UninstallStep, At, Freeze, Frozen, RemoveUnits, RemoveFiles, Mark, PurgeMark, PurgeAll,
     counts
<1>2. /\ TypeOK /\ FilesInv /\ setup \in Setups /\ Txn \in Runs
      /\ dirs \in [Runs -> Dirs \union {None}]
  BY <1>1, ScriptKnows DEF TypeOK
<1>3. "mixed" # None
  BY ConstantsOK DEF Broken
<1>4. setup.pc \in Uninstalling /\ ~setup.recovering /\ ~Upgrading
  BY <1>1, <1>2 DEF UninstallStep, At, Freeze, Frozen, RemoveUnits, RemoveFiles, Mark, PurgeMark,
     PurgeAll, FilesInv, Restoring, Uninstalling
<1>5. CASE PurgeAll
  <2>1. setup' = None /\ payload' = None /\ dirs' = [r \in Runs |-> None]
    BY <1>5 DEF PurgeAll, Exit
  <2> QED
    BY <1>3, <2>1 DEF FilesInv
<1>6. CASE RemoveFiles
  <2>1. payload' = None /\ UNCHANGED dirs /\ (setup' = None \/ Goto("mark"))
    BY <1>6 DEF RemoveFiles, Abort, Exit
  <2>2. CASE setup' = None
    BY <1>1, <1>3, <2>1, <2>2, ExitKeepsFiles
  <2>3. CASE Goto("mark")
    <3>1. /\ setup'.pc = "mark" /\ setup'.txn = setup.txn /\ setup'.saved = setup.saved
          /\ setup'.kind = setup.kind /\ setup'.recovering = setup.recovering
      BY <1>2, <2>3 DEF Goto, Setups
    <3> QED
      BY <1>1, <1>2, <1>3, <1>4, <2>1, <3>1
      DEF FilesInv, Marked, Restoring, Replaced, Uninstalling, Txn, Upgrading
  <2> QED
    BY <2>1, <2>2, <2>3
<1>7. CASE Freeze \/ Frozen \/ RemoveUnits \/ Mark \/ PurgeMark
  <2>1. UNCHANGED <<payload, dirs>>
    BY <1>7 DEF Freeze, Frozen, RemoveUnits, Mark, PurgeMark, files
  <2>2. \/ setup' = None
        \/ \E p \in {"frozen", "removeUnits", "removeFiles", "purge"} : Goto(p)
        \/ setup' = [setup EXCEPT !.pc = "removeFiles", !.rc = 1]
    BY <1>7 DEF Freeze, Frozen, RemoveUnits, Mark, PurgeMark, Abort, Exit
  <2>3. CASE setup' = None
    BY <1>1, <2>1, <2>3, ExitKeepsFiles
  <2>4. CASE \E p \in {"frozen", "removeUnits", "removeFiles", "purge"} : Goto(p)
    BY <1>1, <1>4, <2>1, <2>4, GotoKeepsFiles DEF SetupPcs, Replaced, Restoring, Uninstalling
  <2>5. CASE setup' = [setup EXCEPT !.pc = "removeFiles", !.rc = 1]
    <3>1. /\ setup'.pc = "removeFiles" /\ setup'.txn = setup.txn /\ setup'.saved = setup.saved
          /\ setup'.kind = setup.kind /\ setup'.recovering = setup.recovering
      BY <1>2, <2>5 DEF Setups
    <3> QED
      BY <1>1, <1>2, <1>4, <2>1, <3>1
      DEF FilesInv, Marked, Restoring, Replaced, Uninstalling, Txn, Upgrading
  <2> QED
    BY <2>2, <2>3, <2>4, <2>5
<1> QED
  BY <1>5, <1>6, <1>7 DEF UninstallStep

-----------------------------------------------------------------------------
(* The manager call *)

\* What a moved call says.
LEMMA CallFields ==
  ASSUME call \in Calls, NEW p \in CallPcs
  PROVE  /\ CallTo(p) => call'.pc = p /\ call'.rc = call.rc /\ call'.lost = call.lost
         /\ CallFails(p) => call'.pc = p /\ call'.rc = 1 /\ call'.lost = call.lost
         /\ call' = [call EXCEPT !.pc = p, !.lost = TRUE] =>
              call'.pc = p /\ call'.rc = call.rc /\ call'.lost
BY DEF Calls, CallTo, CallFails

\* Faults are only ever counted up; a call that moved is still regular if it was.
LEMMA CallCounts ==
  ASSUME LifeInv, CallStep
  PROVE  /\ faults \in Nat /\ faults' \in Nat /\ faults <= faults' /\ call.since \in Nat
         /\ call \in Calls /\ active \subseteq Units /\ None \notin {"old", "new"}
         /\ UNCHANGED payload
         /\ Moves => UNCHANGED <<setup, ordered>> /\ call' \in Calls /\ call'.since = call.since
                     /\ call'.mode = call.mode /\ call'.old = call.old
                     /\ call'.by = call.by /\ (Regular' <=> Regular)
<1>1. faults \in Nat /\ call \in Calls /\ active \subseteq Units
  BY ConstantsOK DEF LifeInv, TypeOK, CallStep
<1>2. call.since \in Nat
  BY <1>1, ConstantsOK DEF Calls
<1>3. UNCHANGED payload
  BY DEF CallStep, Match, SyncPolicy, SetRuntime, VerifyRuntime, SwitchUnits, Refresh, CommitConfig,
     UndoRuntime, UndoPolicy, UndoUnits, UndoConfig, files
<1>4. faults' = faults \/ faults' = faults + 1
  BY DEF CallStep, Match, SyncPolicy, SetRuntime, VerifyRuntime, SwitchUnits, Refresh,
     CommitConfig, UndoRuntime, UndoPolicy, UndoUnits, UndoConfig, Works, Refused, Fault
<1> QED
  BY <1>1, <1>2, <1>3, <1>4, ConstantsOK DEF Moves, Regular

\* A call that has ended has nothing more to keep.
LEMMA EndedKeeps ==
  ASSUME Ends
  PROVE  CallInv' /\ UndoInv'
BY DEF Ends, Return, CallInv, UndoInv

\* On the way to the new mode: what is undone later is what was done before.
LEMMA ForwardKeeps ==
  ASSUME LifeInv, CallStep, Match \/ SyncPolicy \/ SetRuntime \/ VerifyRuntime
  PROVE  CallInv' /\ UndoInv'
<1>1. CallInv /\ UndoInv /\ call # None
  BY DEF LifeInv, CallStep
<1>2. CASE Match
  <2>1. CASE Ends
    BY <2>1, EndedKeeps
  <2>2. CASE CallTo("policy") /\ UNCHANGED <<setup, ordered>>
    <3>1. Moves /\ call'.pc = "policy" /\ call'.rc = call.rc
      BY <2>2, CallMoves, CallFields, CallCounts DEF CallPcs
    <3>2. UNCHANGED <<config, runtime, policy>> /\ call.pc = "match"
      BY <1>2 DEF Match, modes
    <3> QED
      BY <1>1, <3>1, <3>2, CallCounts DEF CallInv, UndoInv, Undoing
  <2> QED
    BY <1>2, <2>1, <2>2 DEF Match, Ends
<1>3. CASE SyncPolicy
  <2>1. CASE Ends
    BY <2>1, EndedKeeps
  <2>2. CASE Works /\ SetPolicy(call.mode) /\ CallTo("runtime") /\ UNCHANGED <<setup, ordered>>
    <3>1. Moves /\ call'.pc = "runtime" /\ call'.rc = call.rc
      BY <2>2, CallMoves, CallFields, CallCounts DEF CallPcs
    <3>2. UNCHANGED <<config, runtime>> /\ policy' = call.mode /\ call.pc = "policy"
      BY <1>3, <2>2 DEF SyncPolicy, SetPolicy
    <3> QED
      BY <1>1, <3>1, <3>2, CallCounts DEF CallInv, UndoInv, Undoing
  <2> QED
    BY <1>3, <2>1, <2>2 DEF SyncPolicy, Ends
<1>4. CASE SetRuntime
  <2>1. UNCHANGED <<config, policy, active, setup, ordered>> /\ call.pc = "runtime"
    BY <1>4 DEF SetRuntime, host
  <2>2. CASE runtime' = call.mode /\ CallTo("verify")
    <3>1. Moves /\ call'.pc = "verify" /\ call'.rc = call.rc
      BY <2>1, <2>2, CallMoves, CallFields, CallCounts DEF CallPcs
    <3> QED
      BY <1>1, <2>1, <2>2, <3>1, CallCounts DEF CallInv, UndoInv, Undoing
  <2>3. CASE /\ Refused \/ ("runtime" \notin active /\ UNCHANGED faults)
             /\ CallTo("undoPolicy") /\ UNCHANGED runtime
    <3>1. Moves /\ call'.pc = "undoPolicy" /\ call'.rc = call.rc
      BY <2>1, <2>3, CallMoves, CallFields, CallCounts DEF CallPcs
    <3>2. payload \in {"old", "new"} => faults' = faults + 1 \/ "runtime" \notin active
      BY <2>3, ConstantsOK DEF Refused, Fault, Broken
    <3> QED
      BY <1>1, <2>1, <2>3, <3>1, <3>2, CallCounts DEF CallInv, UndoInv, Undoing, Spent, Regular
  <2>4. CASE Fault /\ call' = [call EXCEPT !.pc = "undoPolicy", !.lost = TRUE]
    <3>1. Moves /\ call'.pc = "undoPolicy" /\ call'.lost
      BY <2>1, <2>4, CallMoves, CallFields, CallCounts DEF CallPcs
    <3>2. faults' = faults + 1
      BY <2>4 DEF Fault
    <3> QED
      BY <1>1, <2>1, <2>4, <3>1, <3>2, CallCounts DEF CallInv, UndoInv, Undoing, Spent
  <2> QED
    BY <1>4, <2>2, <2>3, <2>4 DEF SetRuntime
<1>5. CASE VerifyRuntime
  <2>1. UNCHANGED <<config, runtime, policy, active, setup, ordered>> /\ call.pc = "verify"
    BY <1>5 DEF VerifyRuntime, modes, host
  <2>2. CASE CallTo("units")
    <3>1. Moves /\ call'.pc = "units" /\ call'.rc = call.rc
      BY <2>1, <2>2, CallMoves, CallFields, CallCounts DEF CallPcs
    <3> QED
      BY <1>1, <2>1, <2>2, <3>1, CallCounts DEF CallInv, UndoInv, Undoing
  <2>3. CASE Refused /\ CallTo("undoRuntime")
    <3>1. Moves /\ call'.pc = "undoRuntime" /\ call'.rc = call.rc
      BY <2>1, <2>3, CallMoves, CallFields, CallCounts DEF CallPcs
    <3>2. payload \in {"old", "new"} => faults' = faults + 1
      BY <2>3, ConstantsOK DEF Refused, Fault, Broken
    <3> QED
      BY <1>1, <2>1, <3>1, <3>2, CallCounts DEF CallInv, UndoInv, Undoing, Spent, Regular
  <2> QED
    BY <1>5, <2>2, <2>3 DEF VerifyRuntime
<1> QED
  BY <1>2, <1>3, <1>4, <1>5

\* At the units, the observation and the commit: a fault shows in the result.
LEMMA CommitKeeps ==
  ASSUME LifeInv, CallStep, SwitchUnits \/ Refresh \/ CommitConfig
  PROVE  CallInv' /\ UndoInv'
<1>1. CallInv /\ UndoInv /\ call # None
  BY DEF LifeInv, CallStep
<1>2. CASE SwitchUnits
  <2>1. UNCHANGED <<config, runtime, policy, fresh, setup, ordered>> /\ call.pc = "units"
    BY <1>2 DEF SwitchUnits, modes
  <2>2. CASE active' = SwitchTo(call.mode) /\ CallTo("observe") /\ UNCHANGED faults
    <3>1. Moves /\ call'.pc = "observe" /\ call'.rc = call.rc
      BY <2>1, <2>2, CallMoves, CallFields, CallCounts DEF CallPcs
    <3>2. UnitsFit(call.mode)'
      BY <2>2, <3>1, CallCounts DEF SwitchTo, UnitsFit, Units, Moves
    <3> QED
      BY <1>1, <2>1, <2>2, <3>1, <3>2, CallCounts DEF CallInv, UndoInv, Undoing, UnitsFit
  <2>3. CASE Fault /\ CallFails("observe")
    <3>1. Moves /\ call'.pc = "observe" /\ call'.rc = 1
      BY <2>1, <2>3, CallMoves, CallFields, CallCounts DEF CallPcs
    <3>2. faults' = faults + 1
      BY <2>3 DEF Fault
    <3> QED
      BY <1>1, <2>1, <3>1, <3>2, CallCounts DEF CallInv, UndoInv, Undoing, Spent
  <2> QED
    BY <1>2, <2>2, <2>3 DEF SwitchUnits
<1>3. CASE Refresh
  <2>1. UNCHANGED <<config, runtime, policy, active, setup, ordered>> /\ call.pc = "observe"
    BY <1>3 DEF Refresh, modes
  <2>2. CASE CallTo("commit") /\ (call.mode = Safe \/ fresh') /\ UNCHANGED faults
    <3>1. Moves /\ call'.pc = "commit" /\ call'.rc = call.rc
      BY <2>1, <2>2, CallMoves, CallFields, CallCounts DEF CallPcs
    <3> QED
      BY <1>1, <2>1, <2>2, <3>1, CallCounts DEF CallInv, UndoInv, Undoing, UnitsFit, Spent
  <2>3. CASE Refused /\ CallFails("commit") /\ UNCHANGED fresh
    <3>1. Moves /\ call'.pc = "commit" /\ call'.rc = 1
      BY <2>1, <2>3, CallMoves, CallFields, CallCounts DEF CallPcs
    <3>2. payload \in {"old", "new"} => faults' = faults + 1
      BY <2>3, ConstantsOK DEF Refused, Fault, Broken
    <3> QED
      BY <1>1, <2>1, <3>1, <3>2, CallCounts DEF CallInv, UndoInv, Undoing, Spent, Regular
  <2> QED
    BY <1>3, <2>2, <2>3 DEF Refresh, Works
<1>4. CASE CommitConfig
  <2>1. UNCHANGED <<runtime, policy, active>> /\ call.pc = "commit"
    BY <1>4 DEF CommitConfig, host
  <2>2. CASE Ends
    BY <2>2, EndedKeeps
  <2>3. CASE Fault /\ CallFails("undoAll") /\ UNCHANGED <<config, setup, ordered>>
    <3>1. Moves /\ call'.pc = "undoAll"
      BY <2>1, <2>3, CallMoves, CallFields, CallCounts DEF CallPcs
    <3>2. faults' = faults + 1
      BY <2>3 DEF Fault
    <3> QED
      BY <1>1, <2>1, <2>3, <3>1, <3>2, CallCounts DEF CallInv, UndoInv, Undoing, Spent
  <2>4. CASE /\ ~(call.rc = 0 /\ UnitsFit(call.mode))
             /\ CallTo("undoAll") /\ UNCHANGED <<config, setup, ordered, faults>>
    <3>1. Moves /\ call'.pc = "undoAll"
      BY <2>1, <2>4, CallMoves, CallFields, CallCounts DEF CallPcs
    <3> QED
      BY <1>1, <2>1, <2>4, <3>1, CallCounts DEF CallInv, UndoInv, Undoing, Spent
  <2> QED
    BY <1>4, <2>2, <2>3, <2>4 DEF CommitConfig, Ends
<1> QED
  BY <1>2, <1>3, <1>4

\* On the way back: what stays undone takes a second refusal.
LEMMA UndoKeeps ==
  ASSUME LifeInv, CallStep, UndoRuntime \/ UndoPolicy \/ UndoUnits \/ UndoConfig
  PROVE  CallInv' /\ UndoInv'
<1>1. CallInv /\ UndoInv /\ call # None
  BY DEF LifeInv, CallStep
<1>2. payload \in {"old", "new"} /\ Refused => faults' = faults + 1
  BY ConstantsOK DEF Refused, Fault, Broken
<1>3. CASE UndoRuntime
  <2>1. /\ UNCHANGED <<config, policy, active, setup, ordered>>
        /\ call.pc \in {"undoRuntime", "undoAll"}
        /\ runtime' = call.old \/ (Refused /\ UNCHANGED runtime)
    BY <1>3 DEF UndoRuntime, host
  <2>2. CASE call.pc = "undoAll"
    <3>1. Moves /\ call'.pc = "undoPolicyAll" /\ call'.rc = call.rc
      BY <1>3, <2>1, <2>2, CallMoves, CallFields, CallCounts DEF CallPcs, UndoRuntime
    <3> QED
      BY <1>1, <1>2, <2>1, <2>2, <3>1, CallCounts
      DEF CallInv, UndoInv, Undoing, Spent, Regular
  <2>3. CASE call.pc = "undoRuntime"
    <3>1. Moves /\ call'.pc = "undoPolicy" /\ call'.rc = call.rc
      BY <1>3, <2>1, <2>3, CallMoves, CallFields, CallCounts DEF CallPcs, UndoRuntime
    <3> QED
      BY <1>1, <1>2, <2>1, <2>3, <3>1, CallCounts
      DEF CallInv, UndoInv, Undoing, Spent, Regular
  <2> QED
    BY <2>1, <2>2, <2>3
<1>4. CASE UndoPolicy
  <2>1. /\ UNCHANGED <<config, runtime, active>>
        /\ call.pc \in {"undoPolicy", "undoPolicyAll"}
        /\ policy' = call.old \/ (Refused /\ UNCHANGED policy)
    BY <1>4 DEF UndoPolicy, host, SetPolicy
  <2>2. CASE call.pc = "undoPolicy"
    BY <1>4, <2>2, EndedKeeps DEF UndoPolicy, Ends
  <2>3. CASE call.pc = "undoPolicyAll"
    <3>1. Moves /\ call'.pc = "undoUnits" /\ call'.rc = call.rc
      BY <1>4, <2>1, <2>3, CallMoves, CallFields, CallCounts DEF CallPcs, UndoPolicy
    <3> QED
      BY <1>1, <1>2, <2>1, <2>3, <3>1, CallCounts
      DEF CallInv, UndoInv, Undoing, Spent, Regular
  <2> QED
    BY <2>1, <2>2, <2>3
<1>5. CASE UndoUnits
  <2>1. UNCHANGED <<config, runtime, policy, setup, ordered>> /\ call.pc = "undoUnits"
    BY <1>5 DEF UndoUnits, modes
  <2>2. Moves /\ call'.pc = "undoConfig" /\ call'.rc = call.rc
    BY <1>5, <2>1, CallMoves, CallFields, CallCounts DEF CallPcs, UndoUnits
  <2> QED
    BY <1>1, <2>1, <2>2, CallCounts DEF CallInv, UndoInv, Undoing, Spent
<1>6. CASE UndoConfig
  BY <1>6, EndedKeeps DEF UndoConfig, Ends
<1> QED
  BY <1>3, <1>4, <1>5, <1>6

\* A call that begins has done nothing yet.
LEMMA ApplyBegins ==
  ASSUME TypeOK, config # None, NEW m \in Modes, NEW by \in {"operator", "setup"}, Apply(m, by),
         UNCHANGED <<config, runtime, policy, faults>>
  PROVE  CallInv' /\ UndoInv'
<1>1. /\ call'.pc = "match" /\ call'.old = config /\ call'.rc = 0 /\ call'.since = faults
      /\ call'.before = <<config, runtime, policy>>
  BY DEF Apply
<1>2. faults \in Nat
  BY ConstantsOK DEF TypeOK
<1> QED
  BY <1>1, <1>2 DEF CallInv, UndoInv, Regular, Undoing

\* Outside of the call nothing it relies on changes, for scripts wait for it.
LEMMA CallStepKeeps ==
  ASSUME LifeInv, Next
  PROVE  CallInv' /\ UndoInv'
<1>1. TypeOK
  BY DEF LifeInv
<1>2. call' = None => CallInv' /\ UndoInv'
  BY DEF CallInv, UndoInv
<1>3. CASE CallStep
  BY <1>3, ForwardKeeps, CommitKeeps, UndoKeeps DEF CallStep
<1>4. CASE \E mode \in Modes : Order(mode)
  BY <1>1, <1>4, ApplyBegins DEF Order, modes
<1>5. CASE ApplyMode
  BY <1>1, <1>5, ScriptKnows, ApplyBegins, ConstantsOK DEF ApplyMode, At, modes
<1>6. CASE Freeze
  BY <1>1, <1>6, ScriptKnows, ApplyBegins, ConstantsOK DEF Freeze, At, modes
<1>7. CASE RestoreRevoke
  <2>1. setup # None /\ call = None
    BY <1>7 DEF RestoreRevoke, At
  <2>2. dirs[Txn].mode \in Modes
    BY <1>7, <2>1, ScriptKnows DEF RestoreRevoke, At, FilesInv, Restoring, Marked, TypeOK, Dirs
  <2>3. (IF setup.saved # None THEN setup.saved ELSE dirs[Txn].mode) \in Modes
    BY <2>1, <2>2, ScriptKnows
  <2> DEFINE m == IF setup.saved # None THEN setup.saved ELSE dirs[Txn].mode
  <2>4. \/ call' = call
        \/ Apply(m, "setup") /\ UNCHANGED <<config, runtime, policy, faults>>
    BY <1>7 DEF RestoreRevoke, Works
  <2>5. config # None /\ m \in Modes
    BY <2>1, <2>3, ScriptKnows, ConstantsOK
  <2> HIDE DEF m
  <2> QED
    BY <1>1, <1>2, <2>1, <2>4, <2>5, ApplyBegins
<1>8. CASE Install("install") \/ Install("upgrade") \/ Uninstall \/ Purge \/ ConfirmAuto \/ Drift
             \/ Kill
  <2>1. call' = None \/ (call' = call /\ UNCHANGED <<modes, active, fresh, faults, payload>>)
    BY <1>8 DEF Install, Uninstall, Purge, Begin, ConfirmAuto, Drift, Kill, host, files
  <2> QED
    BY <1>2, <2>1 DEF LifeInv, CallInv, UndoInv, Regular, Spent, UnitsFit, modes
<1>9. CASE /\ InstallStep \/ RestoreStep \/ UninstallStep
           /\ ~ApplyMode /\ ~Freeze /\ ~RestoreRevoke
  <2>1. call' = None
    BY <1>9 DEF InstallStep, RestoreStep, UninstallStep, At, GiveUp, Recover, Backup, Prepare,
       Remove, Copy, Restart, Revoke, Socket, Applied, Verify, Commit, Clean,
       RestorePaths, RestoreCopy, RestoreUnits, Restored,
       Frozen, RemoveUnits, RemoveFiles, Mark, PurgeMark, PurgeAll
  <2> QED
    BY <1>2, <2>1
<1> QED
  BY <1>3, <1>4, <1>5, <1>6, <1>7, <1>8, <1>9 DEF Next

-----------------------------------------------------------------------------
(* The mode of an upgrade *)

\* What a call answers is what became of the configuration.
LEMMA CallAnswers ==
  ASSUME LifeInv, CallStep
  PROVE  /\ \/ Moves /\ config' = config
            \/ Return(TRUE) /\ config' = call.mode
            \/ Return(FALSE) /\ config' = config
         /\ confirmed' \in {confirmed, None} /\ UNCHANGED orders
<1>1. call \in Calls /\ config = call.old
  BY CallCounts DEF LifeInv, CallInv, CallStep
<1>2. CASE Match
  <2>1. CASE Matches(call.mode) /\ Return(TRUE)
    BY <1>2, <2>1 DEF Match, Matches, modes, counts
  <2>2. CASE CallTo("policy") /\ UNCHANGED <<setup, ordered>>
    BY <1>1, <1>2, <2>2, CallMoves DEF Match, modes, counts, CallPcs
  <2> QED
    BY <1>2, <2>1, <2>2 DEF Match, modes, counts
<1>3. CASE SyncPolicy
  BY <1>1, <1>3, CallMoves DEF SyncPolicy, SetPolicy, CallPcs, counts
<1>4. CASE SetRuntime
  BY <1>1, <1>4, CallMoves DEF SetRuntime, CallPcs, counts
<1>5. CASE VerifyRuntime \/ SwitchUnits \/ Refresh
  BY <1>1, <1>5, CallMoves DEF VerifyRuntime, SwitchUnits, Refresh, CallPcs, modes, counts
<1>6. CASE CommitConfig
  BY <1>1, <1>6, CallMoves DEF CommitConfig, CallPcs, counts
<1>7. CASE UndoRuntime
  <2>1. Moves
    BY <1>1, <1>7, CallMoves DEF UndoRuntime, CallPcs
  <2> QED
    BY <1>7, <2>1 DEF UndoRuntime, counts
<1>8. CASE UndoPolicy
  <2>1. Moves \/ Return(FALSE)
    BY <1>1, <1>8, CallMoves DEF UndoPolicy, CallPcs
  <2> QED
    BY <1>8, <2>1 DEF UndoPolicy, SetPolicy, counts
<1>9. CASE UndoUnits
  BY <1>1, <1>9, CallMoves DEF UndoUnits, CallPcs, modes, counts
<1>10. CASE UndoConfig
  BY <1>1, <1>10 DEF UndoConfig, counts
<1> QED
  BY <1>2, <1>3, <1>4, <1>5, <1>6, <1>7, <1>8, <1>9, <1>10 DEF CallStep

\* A script's call sets the mode the script saved; the operator's one is an order.
LEMMA CallNeutral ==
  ASSUME LifeInv, CallStep
  PROVE  NeutralInv'
<1>1. NeutralInv /\ call # None /\ call \in Calls /\ (call.by = "setup" => setup \in Setups)
  BY DEF LifeInv, TypeOK, CallStep
<1>2. CASE call.by = "operator" /\ setup' = setup
  <2>1. setup # None /\ Upgrading => setup.pc = "recover" \/ ~Unordered
    BY <1>1, <1>2 DEF NeutralInv
  <2>2. UNCHANGED orders /\ (call' = None \/ call'.by = "operator")
    BY <1>1, <1>2, CallAnswers DEF Moves, Return
  <2> QED
    BY <1>1, <1>2, <2>1, <2>2 DEF NeutralInv, Upgrading, Unordered
<1>3. CASE call.by = "setup" /\ Moves /\ config' = config
  BY <1>1, <1>3, CallAnswers, ConstantsOK DEF NeutralInv, Moves, Upgrading, Unordered
<1>4. CASE call.by = "setup" /\ Return(TRUE) /\ config' = call.mode
  <2>1. /\ call' = None /\ setup'.pc = setup.pc /\ setup'.kind = setup.kind
        /\ setup'.saved = setup.saved /\ setup'.orders = setup.orders
    BY <1>1, <1>4 DEF Return, Setups
  <2> QED
    BY <1>1, <1>4, <2>1, CallAnswers, ScriptKnows, ConstantsOK DEF NeutralInv, Upgrading, Unordered
<1>5. CASE call.by = "setup" /\ Return(FALSE) /\ config' = config
  <2>1. /\ call' = None /\ setup'.pc = setup.pc /\ setup'.kind = setup.kind
        /\ setup'.saved = setup.saved /\ setup'.orders = setup.orders /\ setup'.answer = FALSE
    BY <1>1, <1>5 DEF Return, Setups
  <2> QED
    BY <1>1, <1>5, <2>1, CallAnswers, ConstantsOK DEF NeutralInv, Upgrading, Unordered
<1> QED
  BY <1>1, <1>2, <1>3, <1>4, <1>5, CallAnswers DEF Moves, Return, Calls

\* An order or a confirmation counts as one; no other step of the host gives any.
LEMMA HostNeutral ==
  ASSUME LifeInv, HostStep
  PROVE  NeutralInv'
<1>1. NeutralInv /\ TypeOK /\ orders \in Nat
  BY ConstantsOK DEF LifeInv, TypeOK
<1>2. CASE ConfirmAuto \/ \E mode \in Modes : Order(mode)
  <2>1. /\ UNCHANGED <<setup, config>> /\ orders' = orders + 1
        /\ call' = None \/ call'.by = "operator"
    BY <1>2 DEF ConfirmAuto, Order, Apply, modes
  <2> QED
    BY <1>1, <2>1 DEF NeutralInv, Upgrading, Unordered, TypeOK, Setups
<1>3. CASE Uninstall \/ Purge \/ \E kind \in {"install", "upgrade"} : Install(kind)
  <2>1. setup = None /\ UNCHANGED <<call, orders, config>> /\ setup'.orders = orders
        /\ (setup'.kind = "upgrade" => setup'.pc = "recover")
    BY <1>3 DEF Install, Uninstall, Purge, Begin, modes
  <2>2. call # None => call.by = "operator"
    BY <1>1, <2>1 DEF TypeOK, Calls
  <2> QED
    BY <1>1, <2>1, <2>2 DEF NeutralInv, Upgrading, Unordered
<1>4. CASE Drift
  <2>1. UNCHANGED <<setup, call, orders, config, confirmed>>
    BY <1>4 DEF Drift, modes, counts
  <2> QED
    BY <1>1, <2>1 DEF NeutralInv, Upgrading, Unordered
<1>5. CASE Kill
  <2>1. UNCHANGED <<orders, config, confirmed>> /\ call' = None
        /\ (setup' = None \/ (UNCHANGED setup /\ call # None /\ call.by = "operator"))
    BY <1>1, <1>5 DEF Kill, modes, counts, TypeOK, Calls
  <2> QED
    BY <1>1, <2>1 DEF NeutralInv, Upgrading, Unordered
<1> QED
  BY <1>2, <1>3, <1>4, <1>5 DEF HostStep

\* A script that goes on without a call leaves the mode to the next step.
LEMMA GotoNeutral ==
  ASSUME LifeInv, setup # None, call = None, NEW p \in SetupPcs, Goto(p),
         UNCHANGED <<call, orders, config>>,
         p \notin {"applied", "restored"},
         Upgrading /\ p \in {"socket", "apply", "verify", "commit", "clean"} =>
            confirmed' = None
            \/ (confirmed' = confirmed
                /\ setup.pc \in {"socket", "apply", "applied", "verify", "commit", "clean"}),
         p \in {"verify", "commit", "clean"} =>
            setup.pc \in {"verify", "commit", "clean"} \/ (setup.pc = "applied" /\ setup.answer)
  PROVE  NeutralInv'
<1>1. /\ setup'.pc = p /\ setup'.saved = setup.saved /\ setup'.kind = setup.kind
      /\ setup'.orders = setup.orders
  BY ScriptKnows DEF Goto, Setups
<1>2. NeutralInv
  BY DEF LifeInv
<1> QED
  BY <1>1, <1>2 DEF NeutralInv, Upgrading, Unordered

\* An upgrade revokes before it asks for its mode, and ends where the call answered.
LEMMA InstallNeutral ==
  ASSUME LifeInv, InstallStep
  PROVE  NeutralInv'
<1>1. setup # None /\ call = None /\ UNCHANGED <<orders, config>>
  BY DEF InstallStep, At, GiveUp, Recover, Backup, Prepare, Remove, Copy, Restart, Revoke, Socket,
     ApplyMode, Applied, Verify, Commit, Clean, counts, modes
<1>2. NeutralInv /\ FilesInv /\ setup \in Setups
  BY <1>1, ScriptKnows DEF LifeInv
<1>3. setup' = None => NeutralInv'
  BY DEF NeutralInv
<1>4. Rollback /\ UNCHANGED call => NeutralInv'
  BY <1>1, <1>3, GotoNeutral DEF Rollback, Exit, SetupPcs
<1>5. CASE GiveUp \/ Clean
  BY <1>3, <1>5 DEF GiveUp, Clean, Exit
<1>6. CASE Recover
  <2>1. UNCHANGED <<call, confirmed>>
    BY <1>6 DEF Recover, modes
  <2>2. CASE UNCHANGED setup
    BY <1>1, <1>2, <2>1, <2>2 DEF NeutralInv, Upgrading, Unordered
  <2>3. CASE \E r \in Runs : setup' = [setup EXCEPT !.pc = "restorePaths", !.txn = r,
                                                !.recovering = TRUE]
    <3>1. setup'.pc = "restorePaths" /\ setup'.kind = setup.kind /\ setup'.orders = setup.orders
      BY <1>2, <2>3 DEF Setups
    <3> QED
      BY <1>1, <1>2, <2>1, <3>1 DEF NeutralInv, Upgrading, Unordered
  <2>4. CASE Goto(IF Upgrading THEN "backup" ELSE "remove")
    BY <1>1, <2>1, <2>4, GotoNeutral DEF SetupPcs
  <2> QED
    BY <1>6, <2>2, <2>3, <2>4 DEF Recover, Previous
<1>7. CASE Backup \/ Prepare \/ Remove
  BY <1>1, <1>7, GotoNeutral DEF Backup, Prepare, Remove, SetupPcs
<1>8. CASE Copy \/ Restart
  BY <1>1, <1>4, <1>8, GotoNeutral DEF Copy, Restart, SetupPcs
<1>9. CASE Revoke
  BY <1>1, <1>4, <1>9, GotoNeutral DEF Revoke, SetupPcs
<1>10. CASE Socket
  BY <1>1, <1>4, <1>10, GotoNeutral DEF Socket, SetupPcs, modes, At
<1>11. CASE ApplyMode
  <2>1. /\ Goto("applied") /\ UNCHANGED confirmed /\ setup.pc = "apply"
        /\ call'.by = "setup" /\ call'.mode = Target
    BY <1>11 DEF ApplyMode, At, Apply, modes
  <2>2. call' # None
    BY <1>1, <1>11, ScriptKnows, ApplyTyped, ConstantsOK DEF ApplyMode
  <2>3. /\ setup'.pc = "applied" /\ setup'.saved = setup.saved /\ setup'.kind = setup.kind
        /\ setup'.orders = setup.orders
    BY <1>2, <2>1 DEF Goto, Setups
  <2>4. Upgrading => Target = setup.saved
    BY <1>1, <1>2 DEF FilesInv, Target
  <2> QED
    BY <1>1, <1>2, <2>1, <2>2, <2>3, <2>4 DEF NeutralInv, Upgrading, Unordered
<1>12. CASE Applied
  <2>1. UNCHANGED <<call, confirmed>> /\ setup.pc = "applied"
    BY <1>12 DEF Applied, At, modes
  <2>2. CASE setup.answer /\ Goto("verify")
    BY <1>1, <2>1, <2>2, GotoNeutral DEF SetupPcs
  <2>3. CASE setup' = [setup EXCEPT !.pc = "apply", !.tries = @ + 1]
    <3>1. setup'.pc = "apply" /\ setup'.kind = setup.kind /\ setup'.orders = setup.orders
      BY <1>2, <2>3 DEF Setups
    <3> QED
      BY <1>1, <1>2, <2>1, <3>1 DEF NeutralInv, Upgrading, Unordered
  <2> QED
    BY <1>4, <1>12, <2>1, <2>2, <2>3 DEF Applied
<1>13. CASE Verify \/ Commit
  BY <1>1, <1>3, <1>4, <1>13, GotoNeutral DEF Verify, Commit, Exit, SetupPcs, modes, At
<1> QED
  BY <1>5, <1>6, <1>7, <1>8, <1>9, <1>10, <1>11, <1>12, <1>13 DEF InstallStep

\* So does its restore.
LEMMA RestoreNeutral ==
  ASSUME LifeInv, RestoreStep
  PROVE  NeutralInv'
<1>1. setup # None /\ call = None /\ UNCHANGED <<orders, config>>
  BY DEF RestoreStep, At, RestorePaths, RestoreCopy, RestoreUnits, RestoreRevoke, Restored, counts,
     modes
<1>2. NeutralInv /\ FilesInv /\ setup \in Setups
  BY <1>1, ScriptKnows DEF LifeInv
<1>3. setup' = None => NeutralInv'
  BY DEF NeutralInv
<1>4. CASE RestorePaths \/ RestoreCopy
  BY <1>1, <1>4, GotoNeutral DEF RestorePaths, RestoreCopy, SetupPcs
<1>5. CASE RestoreUnits
  BY <1>1, <1>3, <1>5, GotoNeutral DEF RestoreUnits, RestoreFails, Exit, SetupPcs
<1>6. CASE RestoreRevoke
  <2>1. CASE Goto("restored") /\ call' # None /\ confirmed' = None
             /\ Apply(IF setup.saved # None THEN setup.saved ELSE dirs[Txn].mode, "setup")
    <3>1. /\ setup'.pc = "restored" /\ setup'.saved = setup.saved /\ setup'.kind = setup.kind
          /\ setup'.orders = setup.orders
      BY <1>2, <2>1 DEF Goto, Setups
    <3>2. call'.by = "setup" /\ (Upgrading => call'.mode = setup.saved)
      BY <1>1, <1>2, <2>1 DEF Apply, FilesInv
    <3> QED
      BY <1>1, <1>2, <2>1, <3>1, <3>2 DEF NeutralInv, Upgrading, Unordered
  <2>2. CASE setup' = None
    BY <1>3, <2>2
  <2>3. Goto("restored") => setup' # None
    BY <1>2, SetupTyped, ConstantsOK DEF Goto, SetupPcs
  <2>4. setup' # None => call' # None
    <3>1. dirs[Txn].mode \in Modes
      BY <1>1, <1>6, ScriptKnows DEF RestoreRevoke, At, FilesInv, Restoring, Marked, TypeOK, Dirs
    <3>2. (IF setup.saved # None THEN setup.saved ELSE dirs[Txn].mode) \in Modes
      BY <1>1, <3>1, ScriptKnows
    <3> QED
      BY <1>1, <1>6, <3>2, ScriptKnows, ApplyTyped, ConstantsOK
      DEF RestoreRevoke, RestoreFails, Exit
  <2> QED
    BY <1>6, <2>1, <2>2, <2>3, <2>4 DEF RestoreRevoke, RestoreFails, Exit
<1>7. CASE Restored
  <2>1. CASE setup' = [setup EXCEPT !.pc = "recover", !.recovering = FALSE, !.answer = FALSE]
    <3>1. setup'.pc = "recover" /\ setup'.kind = setup.kind /\ setup'.orders = setup.orders
      BY <1>2, <2>1 DEF Setups
    <3>2. call' = None
      BY <1>1, <1>7 DEF Restored
    <3> QED
      BY <1>1, <1>2, <3>1, <3>2 DEF NeutralInv, Upgrading, Unordered
  <2> QED
    BY <1>3, <1>7, <2>1 DEF Restored, RestoreFails, Exit
<1> QED
  BY <1>4, <1>5, <1>6, <1>7 DEF RestoreStep

\* An uninstaller is no upgrade.
LEMMA UninstallNeutral ==
  ASSUME LifeInv, UninstallStep
  PROVE  NeutralInv'
<1>1. setup # None /\ setup.pc \in Uninstalling
  BY DEF UninstallStep, At, Freeze, Frozen, RemoveUnits, RemoveFiles, Mark, PurgeMark, PurgeAll,
     Uninstalling
<1>2. setup \in Setups /\ ~Upgrading
  BY <1>1, ScriptKnows DEF FilesInv
<1>3. setup' # None => setup'.kind = setup.kind
  BY <1>1, <1>2 DEF Setups, UninstallStep, Freeze, Frozen, RemoveUnits, RemoveFiles, Mark,
     PurgeMark, PurgeAll, Goto, Abort, Exit
<1> QED
  BY <1>2, <1>3 DEF NeutralInv, Upgrading

-----------------------------------------------------------------------------
(* The theorems *)

\* Every step keeps the whole invariant.
LEMMA LifeStep == LifeInv /\ [Next]_vars => LifeInv'
<1>1. ASSUME LifeInv, Next PROVE LifeInv'
  <2>1. TypeOK'
    BY <1>1, TypesStep
  <2>2. FilesInv'
    BY <1>1, CallKeepsFiles, InstallKeepsFiles, RestoreKeepsFiles, UninstallKeepsFiles,
       HostKeepsFiles DEF Next, HostStep
  <2>3. CallInv' /\ UndoInv'
    BY <1>1, CallStepKeeps
  <2>4. NeutralInv'
    BY <1>1, CallNeutral, InstallNeutral, RestoreNeutral, UninstallNeutral, HostNeutral
    DEF Next, HostStep
  <2> QED
    BY <2>1, <2>2, <2>3, <2>4 DEF LifeInv
<1>2. ASSUME LifeInv, UNCHANGED vars PROVE LifeInv'
  <2>1. TypeOK'
    BY <1>2, TypesStep
  <2>2. FilesInv'
    BY <1>2, FilesUntouched DEF LifeInv, vars
  <2>3. CallInv' /\ UndoInv'
    BY <1>2 DEF LifeInv, vars, CallInv, UndoInv, Regular, Spent, UnitsFit
  <2>4. NeutralInv'
    BY <1>2 DEF LifeInv, vars, NeutralInv, Upgrading, Unordered
  <2> QED
    BY <2>1, <2>2, <2>3, <2>4 DEF LifeInv
<1> QED
  BY <1>1, <1>2

\* The inductive invariant: types, files, calls and modes.
THEOREM AlwaysLife == Spec => []LifeInv
BY Initially, LifeStep, PTL DEF Spec

\* Whoever was killed or refused: while the files of two versions are mixed, a prepared
\* upgrade holds files that are not (install.sh: prepared, committed, the loop over
\* .upgrade-* directories).
THEOREM UpgradesCanBeUndone == Spec => []UpgradeIsAtomic
<1>1. LifeInv => UpgradeIsAtomic
  <2> SUFFICES ASSUME LifeInv PROVE UpgradeIsAtomic
    OBVIOUS
  <2>1. TypeOK /\ FilesInv
    BY DEF LifeInv
  <2> QED
    BY <2>1 DEF UpgradeIsAtomic, FilesInv, Marked
<1> QED
  BY <1>1, AlwaysLife, PTL

\* An upgrade that ends well, done or undone, leaves the mode it found and nothing
\* authorized, unless the operator gave an order meanwhile (install.sh: SAVED_MODE).
THEOREM UpgradesKeepTheMode == Spec => UpgradeIsNeutral
<1>1. ASSUME LifeInv, setup # None, Upgrading, orders = setup.orders,
             Clean \/ (Restored /\ setup.answer /\ ~setup.recovering)
      PROVE  config' = setup.saved /\ confirmed' = None
  <2>1. /\ call = None /\ UNCHANGED <<config, confirmed>>
        /\ setup.pc = "clean" \/ (setup.pc = "restored" /\ setup.answer)
    BY <1>1 DEF Clean, Restored, At, modes
  <2> QED
    BY <1>1, <2>1 DEF LifeInv, NeutralInv, Unordered
<1>2. LifeInv /\ [Next]_vars =>
        [(/\ setup # None /\ Upgrading /\ orders = setup.orders
          /\ Clean \/ (Restored /\ setup.answer /\ ~setup.recovering))
         => config' = setup.saved /\ confirmed' = None]_vars
  BY <1>1
<1> QED
  BY <1>2, AlwaysLife, PTL DEF Spec, UpgradeIsNeutral

\* A call that ends has no place any more.
LEMMA MovesGoOn ==
  ASSUME LifeInv, call # None, NEW p \in CallPcs, CallTo(p) \/ CallFails(p)
  PROVE  call' # None
<1>1. call \in Calls
  BY DEF LifeInv, TypeOK
<1>2. [call EXCEPT !.pc = p] \in Calls /\ [call EXCEPT !.pc = p, !.rc = 1] \in Calls
  BY <1>1 DEF Calls
<1> QED
  BY <1>2, ConstantsOK DEF CallTo, CallFails

\* What a mode transaction answers is what it has done: success means every party is in
\* the mode, failure by one refusal that none has left the old one (rxa_apply_mode).
THEOREM AnswersAreHonest == Spec => CallsAreHonest
<1>1. ASSUME LifeInv, call # None, call' = None, SyncPolicy \/ UndoPolicy \/ UndoConfig,
             faults' - call.since <= 1, ~call.lost, payload \in {"old", "new"},
             "runtime" \in active, call.before = <<call.old, call.old, call.old>>
      PROVE  <<config', runtime', policy'>> = call.before
  <2>1. CallInv /\ UndoInv /\ Regular /\ call \in Calls /\ config = call.old
    BY <1>1 DEF LifeInv, CallInv, Regular, TypeOK
  <2>2. faults \in Nat /\ call.since \in Nat
    <3>1. faults \in 0..MaxFaults /\ call.since \in 0..MaxFaults
      BY <1>1, <2>1 DEF LifeInv, TypeOK, Calls
    <3> QED
      BY <3>1, ConstantsOK
  <2>3. payload \in {"old", "new"} /\ Refused => faults' = faults + 1
    BY ConstantsOK DEF Refused, Fault, Broken
  <2>4. CASE SyncPolicy
    <3>1. UNCHANGED <<config, runtime, policy>> /\ call.pc = "policy"
      BY <1>1, <2>4, MovesGoOn DEF SyncPolicy, CallPcs
    <3> QED
      BY <1>1, <2>1, <3>1 DEF UndoInv
  <2>5. CASE UndoPolicy
    <3>1. UNCHANGED <<config, runtime>> /\ call.pc = "undoPolicy"
      BY <1>1, <2>5, MovesGoOn DEF UndoPolicy, CallPcs
    <3>2. Spent >= 1 /\ (runtime = call.old \/ Spent >= 2)
      BY <1>1, <2>1, <3>1 DEF UndoInv
    <3>3. policy' = call.old \/ faults' = faults + 1
      BY <1>1, <2>3, <2>5 DEF UndoPolicy, SetPolicy
    <3>4. faults' = faults \/ faults' = faults + 1
      BY <1>1, <2>3, <2>5 DEF UndoPolicy, Works
    <3> QED
      BY <1>1, <2>1, <2>2, <3>1, <3>2, <3>3, <3>4 DEF Spent
  <2>6. CASE UndoConfig
    <3>1. /\ UNCHANGED <<runtime, policy>> /\ call.pc = "undoConfig"
          /\ config' = call.old /\ faults' \in {faults, faults + 1}
      BY <2>1, <2>6 DEF UndoConfig, Fault
    <3>2. Spent >= 1 /\ (runtime = call.old \/ Spent >= 2) /\ (policy = call.old \/ Spent >= 2)
      BY <1>1, <2>1, <3>1 DEF UndoInv, Undoing
    <3> QED
      BY <1>1, <2>2, <3>1, <3>2 DEF Spent
  <2> QED
    BY <1>1, <2>4, <2>5, <2>6
<1>2. ASSUME LifeInv, call # None, call' = None, Match \/ CommitConfig
      PROVE  /\ config' = call.mode /\ runtime' = call.mode /\ UnitsFit(call.mode)
             /\ call.mode # Safe => fresh
             /\ call.pc = "commit" => policy' = call.mode
  <2>1. CASE Match
    BY <1>2, <2>1, MovesGoOn DEF Match, Matches, modes, CallPcs
  <2>2. CASE CommitConfig
    BY <1>2, <2>2, MovesGoOn DEF CommitConfig, CallPcs, LifeInv, CallInv
  <2> QED
    BY <1>2, <2>1, <2>2
<1>3. LifeInv => [(/\ call # None /\ call' = None /\ (SyncPolicy \/ UndoPolicy \/ UndoConfig)
                   /\ faults' - call.since <= 1 /\ ~call.lost /\ payload \in {"old", "new"}
                   /\ "runtime" \in active /\ call.before = <<call.old, call.old, call.old>>)
                  => <<config', runtime', policy'>> = call.before]_vars
  BY <1>1
<1>4. LifeInv => [call # None /\ call' = None /\ (Match \/ CommitConfig) =>
                   /\ config' = call.mode /\ runtime' = call.mode /\ UnitsFit(call.mode)
                   /\ call.mode # Safe => fresh
                   /\ call.pc = "commit" => policy' = call.mode]_vars
  BY <1>2
<1> QED
  BY <1>3, <1>4, AlwaysLife, PTL DEF CallsAreHonest, FailureRestores, SuccessIsComplete
=============================================================================
