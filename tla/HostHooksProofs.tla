--------------------------- MODULE HostHooksProofs ---------------------------
(***************************************************************************)
(* What the integration promises the host, for any number of updaters,     *)
(* releases, modes, steps, orders, faults and runs.  Three inductive       *)
(* invariants that do not need each other: of the script and its           *)
(* candidates, of the modes, and of the uninstallation.                    *)
(***************************************************************************)
EXTENDS HostHooks, TLAPS

Guarded == Sound \union {Original}

\* The script is guarded, so is what may be moved over it, and so is the backup
\* that may be put back.
ScriptInv ==
  /\ script \in Guarded
  /\ candidate \in [Updaters -> Releases \union {None}]
  /\ updater \in [Updaters -> [pc : {"idle", "guard", "replace", "recheck"},
                               backup : Guarded \union {None}, main : BOOLEAN]]
  /\ \A u \in Updaters :
       /\ updater[u].pc = "replace" => candidate[u] \in Guarded
       /\ updater[u].pc # "idle" => updater[u].backup \in Guarded

\* Where the menu is, and what it holds there.
Shells == [pc : {"prompt", "freeze", "host", "leave", "health", "restore",
                 "intend", "steps", "purge"},
           ok : BOOLEAN, kept : Modes \union {None, "empty"},
           left : SUBSET Steps, bad : SUBSET Steps]

\* A note that Leave will read, and the mode that Restore will apply, are of this
\* run: an order comes only between runs, and every run writes its note anew.
Lowered == {ordered, Observe, None, "empty"}

ModeInv ==
  /\ shell \in Shells
  /\ installed \in BOOLEAN /\ ordered \in Modes
  /\ prior \in Modes \union {None, "empty"}
  /\ mode \in {ordered, Observe}
  /\ ~installed => prior = None
  /\ shell.pc \in {"freeze", "host", "leave"} => prior \in Lowered
  /\ shell.pc \in {"health", "restore"} => shell.kept \in Lowered

\* A run that is still good has no failure behind it; the purge comes after the
\* last step and under the marker.
UninstallInv ==
  /\ shell \in Shells /\ faults \in Nat
  /\ shell.pc \in {"intend", "steps"} /\ shell.ok => shell.bad = {}
  /\ shell.pc = "purge" => shell.bad = {} /\ shell.left = {} /\ intent = "committed"
  /\ shell.pc = "prompt" => shell.bad = {}

-----------------------------------------------------------------------------
(* Self-update *)

\* The script is the original, and nothing else is there.
LEMMA ScriptInit == Init => ScriptInv
BY DEF Init, ScriptInv, Guarded, Idle

\* A download of one updater touches no file of another (install.sh.rxa-candidate.$$).
LEMMA DownloadKeeps ==
  ASSUME ScriptInv, NEW u \in Updaters, Download(u)
  PROVE  ScriptInv'
<1>1. CASE UNCHANGED <<script, candidate, updater>>
  BY <1>1 DEF ScriptInv
<1>2. CASE \E r \in Releases, m \in BOOLEAN :
             /\ candidate' = [candidate EXCEPT ![u] = r]
             /\ updater' = [updater EXCEPT ![u] = [pc |-> "guard", backup |-> script, main |-> m]]
             /\ script' = script
  BY <1>2 DEF ScriptInv
<1> QED
  BY <1>1, <1>2 DEF Download, Name

\* What passes is guarded; what is refused goes, and the script is what it was or
\* the backup (rxa_candidate_guard).
LEMMA GuardKeeps ==
  ASSUME ScriptInv, NEW u \in Updaters, Guard(u)
  PROVE  ScriptInv'
<1>1. CASE /\ GuardPasses(candidate[u]) /\ updater' = [updater EXCEPT ![u].pc = "replace"]
           /\ UNCHANGED <<script, candidate>>
  BY <1>1 DEF Guard, GuardPasses, ScriptInv, Guarded
<1>2. CASE /\ updater' = [updater EXCEPT ![u] = Idle]
           /\ candidate' = [candidate EXCEPT ![u] = None]
           /\ script' = Restored(u)
  <2>1. script' \in Guarded
    BY <1>2 DEF Guard, ScriptInv, Restored
  <2> QED
    BY <1>2, <2>1 DEF ScriptInv, Idle
<1> QED
  BY <1>1, <1>2 DEF Guard, Name, UpdaterTo, Finish

\* What is moved has passed the guard under its own name.
LEMMA ReplaceKeeps ==
  ASSUME ScriptInv, NEW u \in Updaters, Replace(u)
  PROVE  ScriptInv'
<1>1. script' \in Guarded
  BY DEF Replace, Name, ScriptInv
<1>2. /\ candidate' = [candidate EXCEPT ![u] = None]
      /\ updater' = [updater EXCEPT ![u].pc = "recheck"]
      /\ updater[u].pc = "replace"
  BY DEF Replace, Name, UpdaterTo
<1> QED
  BY <1>1, <1>2 DEF ScriptInv

\* After the move the file is checked once more, and the backup may come back.
LEMMA RecheckKeeps ==
  ASSUME ScriptInv, NEW u \in Updaters, Recheck(u)
  PROVE  ScriptInv'
<1>1. script' \in Guarded
  BY DEF Recheck, Restored, ScriptInv
<1>2. candidate' = candidate /\ updater' = [updater EXCEPT ![u] = Idle]
  BY DEF Recheck, Finish
<1> QED
  BY <1>1, <1>2 DEF ScriptInv, Idle

\* No step of an updater, of the menu or of a killer replaces the script by one
\* that has not passed.
LEMMA ScriptStep == ScriptInv /\ [Next]_vars => ScriptInv'
<1> SUFFICES ASSUME ScriptInv, [Next]_vars PROVE ScriptInv'
  OBVIOUS
<1>1. CASE \E u \in Updaters : Download(u) \/ Guard(u) \/ Replace(u) \/ Recheck(u)
  BY <1>1, DownloadKeeps, GuardKeeps, ReplaceKeeps, RecheckKeeps
<1>2. CASE Kill
  <2>1. CASE UNCHANGED updater
    BY <1>2, <2>1 DEF Kill, ScriptInv
  <2>2. CASE \E u \in Updaters : updater' = [updater EXCEPT ![u] = Idle]
    BY <1>2, <2>2 DEF Kill, ScriptInv, Idle
  <2> QED
    BY <1>2, <2>1, <2>2 DEF Kill, Finish
<1>3. CASE UNCHANGED update
  BY <1>3 DEF update, ScriptInv
<1>4. CASE UNCHANGED vars \/ Rest
  BY <1>4 DEF vars, Rest, ScriptInv
<1>5. ASSUME Enter \/ Freeze \/ Reconfigure \/ Leave \/ Health \/ Restore
             \/ Prepare \/ Intend \/ Commit \/ Purge \/ Abort
             \/ (\E s \in Steps : Step(s)) \/ (\E m \in Modes : Order(m))
      PROVE  UNCHANGED update
  BY <1>5 DEF Enter, Freeze, Reconfigure, Leave, Health, Restore,
              Prepare, Intend, Commit, Purge, Abort, Step, Order
<1> QED
  BY <1>1, <1>2, <1>3, <1>4, <1>5 DEF Next

\* "Downloaded to a candidate, validated, and only then": whoever updates at the
\* same time and is killed wherever, the script has passed the guard, or is the
\* original (tools/apply_to_repo.py, the self-update block).
THEOREM UpdatesAreGuarded == Spec => []ScriptIsGuarded
<1>1. ScriptInv => ScriptIsGuarded
  BY DEF ScriptInv, Guarded, ScriptIsGuarded
<1> QED
  BY <1>1, ScriptInit, ScriptStep, PTL DEF Spec

-----------------------------------------------------------------------------
(* Reconfiguration *)

\* The mode is the ordered one, and there is no note.
LEMMA ModeInit == Init => ModeInv
BY ConstantsOK DEF Init, ModeInv, Shells, AtPrompt

\* The shell goes on with what it holds.
LEMMA ShellMoves ==
  ASSUME NEW p, shell \in Shells, p \in {"prompt", "freeze", "host", "leave", "health", "restore",
                                         "intend", "steps", "purge"}, ShellTo(p)
  PROVE  /\ shell' \in Shells /\ shell'.pc = p /\ shell'.ok = shell.ok
         /\ shell'.kept = shell.kept /\ shell'.left = shell.left /\ shell'.bad = shell.bad
BY DEF Shells, ShellTo

\* At the prompt nothing is held.
LEMMA PromptIsShell ==
  /\ AtPrompt \in Shells /\ AtPrompt.pc = "prompt" /\ AtPrompt.ok
  /\ AtPrompt.bad = {} /\ AtPrompt.left = {}
BY DEF AtPrompt, Shells

\* A mode that is applied is one of Lowered, or the mode stays.
LEMMA ApplyLowers ==
  ASSUME ModeInv, NEW m \in Lowered, Apply(m)
  PROVE  mode' \in {ordered, Observe}
BY ConstantsOK DEF Apply, ModeInv, Lowered

\* Enter writes the note of this run; Freeze and the host follow it.
LEMMA EnterKeeps ==
  ASSUME ModeInv, Enter \/ Freeze \/ Reconfigure
  PROVE  ModeInv'
<1>1. CASE Enter
  <2>1. CASE ~installed
    <3>1. ShellTo("host") /\ prior' = prior /\ prior = None
      BY <1>1, <2>1 DEF Enter, ModeInv
    <3> QED
      BY <1>1, <2>1, <3>1, ShellMoves DEF Enter, ModeInv, Lowered
  <2>2. CASE installed
    <3>1. ShellTo("freeze") /\ prior' \in {mode, "empty"}
      BY <1>1, <2>2 DEF Enter
    <3>2. prior' \in Modes \union {None, "empty"} /\ prior' \in Lowered
      BY <3>1, ConstantsOK DEF ModeInv, Lowered
    <3> QED
      BY <1>1, <2>2, <3>1, <3>2, ShellMoves DEF Enter, ModeInv, Lowered
  <2> QED
    BY <2>1, <2>2
<1>2. CASE Freeze
  <2>1. mode' \in {ordered, Observe}
    BY <1>2, ApplyLowers DEF Freeze, Lowered
  <2> QED
    BY <1>2, <2>1, ShellMoves DEF Freeze, ModeInv, Lowered
<1>3. CASE Reconfigure
  <2>1. shell' \in Shells /\ shell'.pc = "leave" /\ shell'.kept = shell.kept
    BY <1>3 DEF Reconfigure, ModeInv, Shells
  <2> QED
    BY <1>3, <2>1 DEF Reconfigure, ModeInv, agent, Lowered
<1> QED
  BY <1>1, <1>2, <1>3

\* Leave takes the note of this run, and Restore applies it at the most.
LEMMA LeaveKeeps ==
  ASSUME ModeInv, Leave \/ Health \/ Restore
  PROVE  ModeInv'
<1>1. CASE Leave
  <2>1. CASE shell' = AtPrompt
    BY <1>1, <2>1, PromptIsShell DEF Leave, ModeInv, Lowered
  <2>2. CASE shell' = [shell EXCEPT !.pc = "health", !.kept = IF prior = None THEN Observe ELSE prior]
    <3>1. /\ shell' \in Shells /\ shell'.pc = "health"
          /\ shell'.kept = IF prior = None THEN Observe ELSE prior
      BY <2>2, ConstantsOK DEF ModeInv, Shells
    <3>2. prior \in Lowered
      BY <1>1 DEF Leave, ModeInv
    <3> QED
      BY <1>1, <3>1, <3>2 DEF Leave, ModeInv, Lowered
  <2> QED
    BY <1>1, <2>1, <2>2 DEF Leave
<1>2. CASE Health
  <2>1. \/ shell' = AtPrompt
        \/ shell' \in Shells /\ shell'.pc = "restore" /\ shell'.kept = shell.kept
    BY <1>2 DEF Health, ModeInv, Shells
  <2> QED
    BY <1>2, <2>1, PromptIsShell DEF Health, ModeInv, agent, Lowered
<1>3. CASE Restore
  <2>1. mode' \in {ordered, Observe}
    BY <1>3, ApplyLowers DEF Restore, ModeInv
  <2> QED
    BY <1>3, <2>1, PromptIsShell DEF Restore, ModeInv, Lowered
<1> QED
  BY <1>1, <1>2, <1>3

\* An uninstallation lowers the mode, and takes the note with the agent.
LEMMA UninstallKeepsMode ==
  ASSUME ModeInv, Prepare \/ Intend \/ (\E s \in Steps : Step(s)) \/ Commit \/ Purge \/ Abort
  PROVE  ModeInv'
<1>1. CASE Prepare
  <2>1. mode' \in {ordered, Observe}
    BY <1>1, ApplyLowers DEF Prepare, ModeInv, Lowered
  <2>2. shell' \in Shells /\ shell'.pc \in {"intend", "steps"}
    BY <1>1 DEF Prepare, ModeInv, Shells
  <2> QED
    BY <1>1, <2>1, <2>2 DEF Prepare, ModeInv
<1>2. CASE Intend
  BY <1>2, ShellMoves DEF Intend, ModeInv
<1>3. CASE \E s \in Steps : Step(s)
  <2>1. PICK s \in Steps : Step(s)
    BY <1>3
  <2>2. shell' \in Shells /\ shell'.pc = "steps"
    <3>1. CASE shell' = [shell EXCEPT !.left = @ \ {s}]
      BY <2>1, <3>1 DEF Step, ModeInv, Shells
    <3>2. CASE shell' = [shell EXCEPT !.left = @ \ {s}, !.bad = @ \union {s}, !.ok = FALSE]
      BY <2>1, <3>2 DEF Step, ModeInv, Shells
    <3> QED
      BY <2>1, <3>1, <3>2 DEF Step
  <2>3. UNCHANGED <<installed, mode, prior, ordered>>
    BY <2>1 DEF Step, agent
  <2> QED
    BY <2>2, <2>3 DEF ModeInv
<1>4. CASE Commit
  <2>1. shell' \in Shells /\ shell'.pc \in {"purge", "prompt"}
    BY <1>4, PromptIsShell DEF Commit, ModeInv, Shells
  <2> QED
    BY <1>4, <2>1 DEF Commit, ModeInv
<1>5. CASE Purge
  <2>1. installed' \in BOOLEAN /\ (~installed' => prior' = None)
    BY <1>5 DEF Purge, ModeInv
  <2>2. prior' \in {prior, None}
    BY <1>5, <2>1 DEF Purge
  <2>3. shell' = AtPrompt /\ UNCHANGED <<mode, ordered>>
    BY <1>5 DEF Purge
  <2> QED
    BY <2>1, <2>2, <2>3, PromptIsShell DEF ModeInv
<1>6. CASE Abort
  BY <1>6, PromptIsShell DEF Abort, ModeInv
<1> QED
  BY <1>1, <1>2, <1>3, <1>4, <1>5, <1>6

\* No step applies a mode that is not of this run.
LEMMA ModeStep == ModeInv /\ [Next]_vars => ModeInv'
<1> SUFFICES ASSUME ModeInv, [Next]_vars PROVE ModeInv'
  OBVIOUS
<1>1. CASE Enter \/ Freeze \/ Reconfigure \/ Leave \/ Health \/ Restore
  BY <1>1, EnterKeeps, LeaveKeeps
<1>2. CASE Prepare \/ Intend \/ (\E s \in Steps : Step(s)) \/ Commit \/ Purge \/ Abort
  BY <1>2, UninstallKeepsMode
<1>3. CASE \E m \in Modes : Order(m)
  BY <1>3 DEF Order, ModeInv
<1>4. CASE Kill
  BY <1>4, PromptIsShell DEF Kill, ModeInv, agent, Lowered
<1>5. CASE \E u \in Updaters : Download(u) \/ Guard(u) \/ Replace(u) \/ Recheck(u)
  BY <1>5 DEF Download, Guard, Replace, Recheck, ModeInv, agent, Lowered
<1>6. CASE UNCHANGED vars \/ Rest
  BY <1>6 DEF vars, Rest, ModeInv, Lowered
<1> QED
  BY <1>1, <1>2, <1>3, <1>4, <1>5, <1>6 DEF Next

\* The hooks never put the agent into a mode other than the one last ordered, or
\* observe-only, whichever run was killed and left its note behind
\* (rxa_reconfigure_enter and rxa_reconfigure_leave).
THEOREM HooksLower == Spec => []HooksOnlyLower
<1>1. ModeInv => HooksOnlyLower
  BY DEF ModeInv, HooksOnlyLower
<1> QED
  BY <1>1, ModeInit, ModeStep, PTL DEF Spec

-----------------------------------------------------------------------------
(* Uninstallation *)

\* Nothing has failed yet.
LEMMA UninstallInit == Init => UninstallInv
BY DEF Init, UninstallInv, Shells, AtPrompt

\* A reconfiguration purges nothing and leaves no failure behind.
LEMMA ReconfigureKeeps ==
  ASSUME UninstallInv, ModeInv, Enter \/ Freeze \/ Reconfigure \/ Leave \/ Health \/ Restore
  PROVE  UninstallInv'
<1>1. faults' \in Nat
  <2>1. CASE Enter \/ Freeze \/ Restore
    BY <2>1 DEF Enter, Freeze, Restore, Apply, Fine, Fault, UninstallInv
  <2>2. CASE Reconfigure \/ Leave \/ Health
    BY <2>2 DEF Reconfigure, Leave, Health, UninstallInv
  <2> QED
    BY <2>1, <2>2
<1>2. shell' = AtPrompt \/ shell'.pc \in {"freeze", "host", "leave", "health", "restore"}
  <2>1. CASE Enter \/ Freeze
    BY <2>1, ShellMoves DEF Enter, Freeze, UninstallInv
  <2>2. CASE Reconfigure \/ Leave \/ Health \/ Restore
    BY <2>2 DEF Reconfigure, Leave, Health, Restore, UninstallInv, Shells
  <2> QED
    BY <2>1, <2>2
<1>3. shell' \in Shells
  BY EnterKeeps, LeaveKeeps DEF ModeInv
<1> QED
  BY <1>1, <1>2, <1>3, PromptIsShell DEF UninstallInv

\* The marker is written when the last step is done and none has failed; a write
\* that fails ends the run (rxa_uninstall_finish).
LEMMA CommitKeeps ==
  ASSUME UninstallInv, Commit
  PROVE  UninstallInv'
<1>1. CASE faults' = faults
  <2>1. intent' = "committed"
    BY <1>1 DEF Commit, WriteIntent, Fault, UninstallInv
  <2>2. /\ shell' \in Shells /\ shell'.pc = "purge"
        /\ shell'.bad = shell.bad /\ shell'.left = shell.left
    BY <1>1 DEF Commit, UninstallInv, Shells
  <2> QED
    BY <1>1, <2>1, <2>2 DEF Commit, UninstallInv
<1>2. CASE faults' # faults
  <2>1. shell' = AtPrompt /\ faults' \in Nat
    BY <1>2 DEF Commit, WriteIntent, Fine, Fault, UninstallInv
  <2> QED
    BY <2>1, PromptIsShell DEF UninstallInv
<1> QED
  BY <1>1, <1>2

\* A step that fails is counted, whatever the others do.
LEMMA StepKeeps ==
  ASSUME UninstallInv, NEW s \in Steps, Step(s)
  PROVE  UninstallInv'
<1>1. CASE Fine /\ shell' = [shell EXCEPT !.left = @ \ {s}]
  <2>1. /\ shell' \in Shells /\ shell'.pc = "steps"
        /\ shell'.bad = shell.bad /\ shell'.ok = shell.ok
    BY <1>1 DEF Step, UninstallInv, Shells
  <2> QED
    BY <1>1, <2>1 DEF Step, UninstallInv, Fine
<1>2. CASE Fault /\ shell' = [shell EXCEPT !.left = @ \ {s}, !.bad = @ \union {s}, !.ok = FALSE]
  <2>1. shell' \in Shells /\ shell'.pc = "steps" /\ ~shell'.ok
    BY <1>2 DEF Step, UninstallInv, Shells
  <2> QED
    BY <1>2, <2>1 DEF UninstallInv, Fault
<1> QED
  BY <1>1, <1>2 DEF Step

\* The other steps of an uninstallation.
LEMMA UninstallKeeps ==
  ASSUME UninstallInv, Prepare \/ Intend \/ Purge \/ Abort
  PROVE  UninstallInv'
<1>1. faults' \in Nat
  <2>1. CASE Prepare
    BY <2>1 DEF Prepare, Apply, Fine, Fault, UninstallInv
  <2>2. CASE Intend \/ Abort
    BY <2>2 DEF Intend, Abort, WriteIntent, Fine, Fault, UninstallInv
  <2>3. CASE Purge
    <3>1. Fine \/ Fault
      BY <2>3 DEF Purge
    <3> QED
      BY <3>1 DEF Fine, Fault, UninstallInv
  <2> QED
    BY <2>1, <2>2, <2>3
<1>2. CASE Prepare
  <2>1. shell' \in Shells /\ shell'.pc \in {"intend", "steps"} /\ shell'.bad = shell.bad
    BY <1>2 DEF Prepare, UninstallInv, Shells
  <2> QED
    BY <1>1, <1>2, <2>1 DEF Prepare, UninstallInv
<1>3. CASE Intend
  BY <1>1, <1>3, ShellMoves DEF Intend, UninstallInv
<1>4. CASE Purge \/ Abort
  BY <1>1, <1>4, PromptIsShell DEF Purge, Abort, UninstallInv
<1> QED
  BY <1>2, <1>3, <1>4

\* No step leaves a failure uncounted or reaches the purge past one.
LEMMA UninstallStep == UninstallInv /\ ModeInv /\ [Next]_vars => UninstallInv'
<1> SUFFICES ASSUME UninstallInv, ModeInv, [Next]_vars PROVE UninstallInv'
  OBVIOUS
<1>1. CASE Enter \/ Freeze \/ Reconfigure \/ Leave \/ Health \/ Restore
  BY <1>1, ReconfigureKeeps
<1>2. CASE Prepare \/ Intend \/ (\E s \in Steps : Step(s)) \/ Commit \/ Purge \/ Abort
  BY <1>2, UninstallKeeps, StepKeeps, CommitKeeps
<1>3. CASE \E m \in Modes : Order(m)
  BY <1>3 DEF Order, UninstallInv
<1>4. CASE Kill
  BY <1>4, PromptIsShell DEF Kill, Fault, UninstallInv, agent
<1>5. CASE \E u \in Updaters : Download(u) \/ Guard(u) \/ Replace(u) \/ Recheck(u)
  BY <1>5 DEF Download, Guard, GuardPasses, GuardRefuses, Replace, Recheck, Fine, Fault,
              UninstallInv, agent
<1>6. CASE UNCHANGED vars \/ Rest
  BY <1>6 DEF vars, Rest, UninstallInv
<1> QED
  BY <1>1, <1>2, <1>3, <1>4, <1>5, <1>6 DEF Next

\* Only the purge takes the agent away.
LEMMA OnlyPurgeRemoves ==
  ASSUME ModeInv, [Next]_vars, installed, ~installed'
  PROVE  Purge
BY DEF Next, vars, agent, Enter, Freeze, Reconfigure, Leave, Health, Restore, Prepare, Intend,
       Commit, Abort, Kill, Rest, Step, Order, Download, Guard, Replace, Recheck

\* The agent goes, with its diagnostics, only after every critical step of this
\* run has reported success, and under a durable marker (uninstall_all,
\* rxa_uninstall_finish, rxa_uninstall_commit).
THEOREM PurgeAfterSuccess == Spec => PurgeIsEarned
<1>1. Init => ModeInv /\ UninstallInv
  BY ModeInit, UninstallInit
<1>2. (ModeInv /\ UninstallInv) /\ [Next]_vars => (ModeInv /\ UninstallInv)'
  BY ModeStep, UninstallStep
<1>3. (ModeInv /\ UninstallInv) /\ [Next]_vars =>
        [installed /\ ~installed' =>
           shell.bad = {} /\ shell.left = {} /\ intent = "committed"]_vars
  BY OnlyPurgeRemoves DEF UninstallInv, Purge
<1> QED
  BY <1>1, <1>2, <1>3, PTL DEF Spec, PurgeIsEarned

=============================================================================
