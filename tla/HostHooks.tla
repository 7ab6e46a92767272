----------------------------- MODULE HostHooks -----------------------------
(***************************************************************************)
(* What the integration adds to the host's own script install.sh           *)
(* (tools/apply_to_repo.py): a guard around every self-update, hooks       *)
(* around a reconfiguration of the host, which keep the agent in           *)
(* observe-only meanwhile, and a two-phase uninstallation, which removes   *)
(* the agent after the host.  The rest of the host's script is external.   *)
(* rxa_apply_mode and the purge are Lifecycle's; here they work or fail.   *)
(***************************************************************************)
EXTENDS FiniteSets, Naturals

CONSTANTS
  Updaters,   \* processes that update the script: menus, and the timer
  Releases,   \* what an update may download
  Original,   \* the script as the integration was applied to it
  Sound,      \* releases that meet the guard: syntax, schema floor, every
              \* required capability, and a block that passes its probes
  Modes, Observe, \* modes of the agent; observe-only is one of them
  Steps,      \* critical steps of uninstall_all
  Removals,   \* those that run only while there is something to remove
  Hosts,      \* states the host may be in: [nginx, good]
  None,
  MaxOrders, MaxFaults, MaxRuns \* bounds: orders; faults; runs of any kind

Parts == {"tools", "config", "xray", "nginx", "marks"}

ASSUME ConstantsOK ==
  /\ Sound \subseteq Releases /\ Original \notin Releases
  /\ Observe \in Modes /\ None \notin Modes /\ "empty" \notin Modes
  /\ Removals \subseteq Steps
  /\ Hosts \subseteq [nginx : BOOLEAN, good : SUBSET Parts]
  /\ {MaxOrders, MaxFaults, MaxRuns} \subseteq Nat

VARIABLES
  script,     \* install.sh
  candidate,  \* the files install.sh.rxa-candidate.<pid>
  updater,    \* each updater: where it is, and its backup
  installed,  \* the agent's files are there
  mode,       \* the agent's mode
  prior,      \* config.json.prior-mode
  intent,     \* last phase in uninstall.intent.json
  removed,    \* removals that have left nothing to remove
  host,       \* the host's state
  shell,      \* the menu that reconfigures or uninstalls
  ordered,    \* history: the mode the operator last ordered
  orders, faults, runs

update == <<script, candidate, updater>>
agent  == <<installed, mode, prior, intent>>
vars   == <<script, candidate, updater, installed, mode, prior, intent, removed, host,
            shell, ordered, orders, faults, runs>>

Idle     == [pc |-> "idle", backup |-> None, main |-> FALSE]
AtPrompt == [pc |-> "prompt", ok |-> TRUE, kept |-> None, left |-> {}, bad |-> {}]

Init ==
  /\ script = Original /\ candidate = [u \in Updaters |-> None]
  /\ updater = [u \in Updaters |-> Idle]
  /\ installed = TRUE /\ mode \in Modes /\ ordered = mode
  /\ prior = None /\ intent = None /\ removed = {} /\ host \in Hosts
  /\ shell = AtPrompt /\ orders = 0 /\ faults = 0 /\ runs = 0

\* A command that fails, a write that is not durable, a guard without its
\* temporary directory.
Fault == faults < MaxFaults /\ faults' = faults + 1
Fine == UNCHANGED faults

Starts == runs < MaxRuns /\ runs' = runs + 1

-----------------------------------------------------------------------------
(* Self-update *)

\* Mutant: one name for all.
SharedName(u) == CHOOSE x \in Updaters : TRUE

\* install.sh.rxa-candidate.$$
Name(u) == u

UpdaterTo(u, pc) == updater' = [updater EXCEPT ![u].pc = pc]
Finish(u) == updater' = [updater EXCEPT ![u] = Idle]

\* rxa_candidate_guard: only what it proves sound passes.
GuardPasses(s) == s \in Sound \union {Original} /\ Fine
GuardRefuses(s) == Fault \/ (s \notin Sound \union {Original} /\ Fine)

\* update_sh keeps a backup, the other paths do not.
Restored(u) == IF updater[u].main THEN updater[u].backup ELSE script

\* The download, over whatever has the name; or it fails.
Download(u) ==
  /\ updater[u].pc = "idle" /\ Starts
  /\ \/ /\ \E r \in Releases : candidate' = [candidate EXCEPT ![Name(u)] = r]
        /\ \E m \in BOOLEAN :
             updater' = [updater EXCEPT ![u] = [pc |-> "guard", backup |-> script, main |-> m]]
        /\ Fine
     \/ Fault /\ UNCHANGED <<candidate, updater>>
  /\ UNCHANGED <<script, agent, removed, host, shell, ordered, orders>>

\* On a refusal the candidate goes and the backup comes back.
Guard(u) ==
  /\ updater[u].pc = "guard"
  /\ \/ /\ GuardPasses(candidate[Name(u)]) /\ UpdaterTo(u, "replace")
        /\ UNCHANGED <<script, candidate>>
     \/ /\ GuardRefuses(candidate[Name(u)]) /\ Finish(u)
        /\ candidate' = [candidate EXCEPT ![Name(u)] = None]
        /\ script' = Restored(u)
  /\ UNCHANGED <<agent, removed, host, shell, ordered, orders, runs>>

\* mv, if the candidate is still there.
Replace(u) ==
  /\ updater[u].pc = "replace" /\ UpdaterTo(u, "recheck") /\ Fine
  /\ script' = IF candidate[Name(u)] = None THEN script ELSE candidate[Name(u)]
  /\ candidate' = [candidate EXCEPT ![Name(u)] = None]
  /\ UNCHANGED <<agent, removed, host, shell, ordered, orders, runs>>

\* rxa_postreplace_selfcheck, of the file that is installed by now.
Recheck(u) ==
  /\ updater[u].pc = "recheck" /\ Finish(u)
  /\ \/ GuardPasses(script) /\ UNCHANGED script
     \/ GuardRefuses(script) /\ script' = Restored(u)
  /\ UNCHANGED <<candidate, agent, removed, host, shell, ordered, orders, runs>>

-----------------------------------------------------------------------------
(* Reconfiguration of the host *)

ShellTo(pc) == shell' = [shell EXCEPT !.pc = pc]

\* Mutant: a prior mode that is there is kept.
EnterOnce ==
  /\ shell.pc = "prompt" /\ Starts
  /\ IF ~installed THEN ShellTo("host") /\ Fine /\ UNCHANGED prior
     ELSE /\ ShellTo("freeze")
          /\ Fine /\ prior' = IF prior = None THEN mode ELSE prior
  /\ UNCHANGED <<update, installed, mode, intent, removed, host, ordered, orders>>

\* rxa_reconfigure_enter: the mode is noted (a full disk leaves an empty file) ...
Enter ==
  /\ shell.pc = "prompt" /\ Starts
  /\ IF ~installed THEN ShellTo("host") /\ Fine /\ UNCHANGED prior
     ELSE /\ ShellTo("freeze")
          /\ \/ Fine /\ prior' = mode
             \/ Fault /\ prior' = "empty"
  /\ UNCHANGED <<update, installed, mode, intent, removed, host, ordered, orders>>

\* rxa_apply_mode, whose failure leaves the mode as it is.
Apply(m) == \/ m \in Modes /\ Fine /\ mode' = m
            \/ Fault /\ UNCHANGED mode
            \/ m \notin Modes /\ Fine /\ UNCHANGED mode

\* ... and observe-only applied; neither may fail the host.
Freeze == /\ shell.pc = "freeze" /\ ShellTo("host") /\ Apply(Observe)
          /\ UNCHANGED <<update, installed, prior, intent, removed, host, ordered, orders, runs>>

Reconfigure == /\ shell.pc = "host" /\ host' \in Hosts
               /\ \E ok \in BOOLEAN : shell' = [shell EXCEPT !.pc = "leave", !.ok = ok]
               /\ UNCHANGED <<update, agent, removed, ordered, orders, faults, runs>>

\* rxa_reconfigure_leave: the note is read and removed first.
Leave == /\ shell.pc = "leave" /\ prior' = None
         /\ shell' = IF ~shell.ok THEN AtPrompt
                     ELSE [shell EXCEPT !.pc = "health",
                                        !.kept = IF prior = None THEN Observe ELSE prior]
         /\ UNCHANGED <<update, installed, mode, intent, removed, host, ordered, orders, faults, runs>>

\* rxa_host_healthy: what is required follows from the configuration, and what
\* cannot be told is not healthy.
Required(h) == {"tools", "config", "xray", "marks"}
                 \union (IF h.nginx THEN {"nginx"} ELSE {})
HostHealthy(h) == Required(h) \subseteq h.good

Health == /\ shell.pc = "health"
          /\ shell' = IF HostHealthy(host) THEN [shell EXCEPT !.pc = "restore"] ELSE AtPrompt
          /\ UNCHANGED <<update, agent, removed, host, ordered, orders, faults, runs>>

Restore == /\ shell.pc = "restore" /\ Apply(shell.kept) /\ shell' = AtPrompt
           /\ UNCHANGED <<update, installed, prior, intent, removed, host, ordered, orders, runs>>

-----------------------------------------------------------------------------
(* Uninstallation of the host: uninstall_all *)

\* rxa_uninstall_prepare: observe-only, then a durable intent.  uninstall_all
\* does not look at what it returns.
Prepare ==
  /\ shell.pc = "prompt" /\ Starts
  /\ IF ~installed THEN Fine /\ UNCHANGED mode ELSE Apply(Observe)
  /\ shell' = [shell EXCEPT !.left = Steps,
                            !.pc = IF installed /\ mode' = Observe THEN "intend" ELSE "steps"]
  /\ UNCHANGED <<update, installed, prior, intent, removed, host, ordered, orders>>

\* rxa_write_uninstall_intent_atomic; when only the last fsync fails, the intent
\* is written and the call fails nevertheless.
WriteIntent(phase) == \/ Fine /\ intent' = phase
                      \/ Fault /\ intent' \in {intent, phase}

Intend == /\ shell.pc = "intend" /\ ShellTo("steps") /\ WriteIntent("prepared")
          /\ UNCHANGED <<update, installed, mode, prior, removed, host, ordered, orders, runs>>

\* Mutant: return codes of removals are lost.
StepUnchecked(s) ==
  /\ shell.pc = "steps" /\ s \in shell.left
  /\ \/ /\ Fine /\ shell' = [shell EXCEPT !.left = @ \ {s}]
        /\ removed' = removed \union ({s} \intersect Removals)
     \/ /\ Fault /\ s \notin removed
        /\ shell' = [shell EXCEPT !.left = @ \ {s}, !.bad = @ \union {s},
                                  !.ok = IF s \in Removals THEN @ ELSE FALSE]
        /\ removed' \in {removed, removed \union ({s} \intersect Removals)}
  /\ UNCHANGED <<update, agent, host, ordered, orders, runs>>

\* Every failure counts, and does not keep the next step from running.  A removal
\* may fail after it has removed; with nothing to remove it is skipped.
Step(s) ==
  /\ shell.pc = "steps" /\ s \in shell.left
  /\ \/ /\ Fine /\ shell' = [shell EXCEPT !.left = @ \ {s}]
        /\ removed' = removed \union ({s} \intersect Removals)
     \/ /\ Fault /\ s \notin removed
        /\ shell' = [shell EXCEPT !.left = @ \ {s}, !.bad = @ \union {s}, !.ok = FALSE]
        /\ removed' \in {removed, removed \union ({s} \intersect Removals)}
  /\ UNCHANGED <<update, agent, host, ordered, orders, runs>>

\* rxa_uninstall_finish and rxa_uninstall_commit: the marker first.
Commit == /\ shell.pc = "steps" /\ shell.left = {} /\ shell.ok
          /\ WriteIntent("committed")
          /\ shell' = IF faults' = faults THEN [shell EXCEPT !.pc = "purge"] ELSE AtPrompt
          /\ UNCHANGED <<update, installed, mode, prior, removed, host, ordered, orders, runs>>

\* The purge takes the agent's directories with it; it may fail half-way.
Purge == /\ shell.pc = "purge" /\ shell' = AtPrompt
         /\ \/ Fine /\ installed' = FALSE
            \/ Fault /\ installed' \in {installed, FALSE}
         /\ IF installed' THEN UNCHANGED <<prior, intent>> ELSE prior' = None /\ intent' = None
         /\ UNCHANGED <<update, mode, removed, host, ordered, orders, runs>>

\* rxa_uninstall_abort: everything of the agent stays.
Abort == /\ shell.pc = "steps" /\ shell.left = {} /\ ~shell.ok
         /\ WriteIntent("aborted") /\ shell' = AtPrompt
         /\ UNCHANGED <<update, installed, mode, prior, removed, host, ordered, orders, runs>>

-----------------------------------------------------------------------------
(* The environment *)

\* An order of the operator, between two runs of the menu.
Order(m) == /\ shell.pc = "prompt" /\ installed /\ orders < MaxOrders
            /\ orders' = orders + 1 /\ mode' = m /\ ordered' = m
            /\ UNCHANGED <<update, installed, prior, intent, removed, host, shell, faults, runs>>

\* A closed terminal or a reboot ends a process; what was in memory is lost.
Kill == /\ Fault
        /\ \/ shell.pc # "prompt" /\ shell' = AtPrompt /\ UNCHANGED updater
           \/ \E u \in Updaters : updater[u].pc # "idle" /\ Finish(u) /\ UNCHANGED shell
        /\ UNCHANGED <<script, candidate, agent, removed, host, ordered, orders, runs>>

Rest == shell.pc = "prompt" /\ UNCHANGED vars

Next == \/ Enter \/ Freeze \/ Reconfigure \/ Leave \/ Health \/ Restore
        \/ Prepare \/ Intend \/ Commit \/ Purge \/ Abort \/ Kill \/ Rest
        \/ \E s \in Steps : Step(s)
        \/ \E m \in Modes : Order(m)
        \/ \E u \in Updaters : Download(u) \/ Guard(u) \/ Replace(u) \/ Recheck(u)

Spec == Init /\ [][Next]_vars

-----------------------------------------------------------------------------
(* Properties *)

\* "Downloaded to a candidate, validated, and only then": whoever updates at the
\* same time and is killed wherever, the script that the next start runs has
\* passed the guard, or is the original.
ScriptIsGuarded == script \in Sound \union {Original}

\* The hooks never put the agent into a mode other than the one last ordered, or
\* observe-only: no note of a run that was killed brings back a mode the operator
\* has replaced since.
HooksOnlyLower == mode \in {ordered, Observe}

\* The agent goes, with its diagnostics, only after every critical step of this
\* run has reported success, and under a durable marker.
PurgeIsEarned ==
  [][installed /\ ~installed' =>
       shell.bad = {} /\ shell.left = {} /\ intent = "committed"]_vars

=============================================================================
