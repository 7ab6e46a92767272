--------------------------- MODULE RillMLArtifact ---------------------------
(***************************************************************************)
(* RillMLRuntimeManager (rillml_artifact.py): install, upgrade, reinstall  *)
(* and rollback of the prebuilt runtime under root/: staging/, current/,   *)
(* rollback/, state.json, and a transaction directory .txn-* holding       *)
(* snapshots of the last three and a journal.  One action per file         *)
(* operation, so a crash or an exception falls between any two of them.    *)
(* Every operation holds the lifecycle lock, so at most one runs; status   *)
(* takes it shared.                                                        *)
(*                                                                         *)
(* A binary is identified by its version, Bad is one that no longer        *)
(* matches the size, mode and digest recorded for it.                      *)
(***************************************************************************)
EXTENDS Naturals, FiniteSets

CONSTANTS
  Versions,  \* released versions, ordered
  Absent,    \* no such file
  Bad,       \* a file that fails verification
  None,
  MaxFaults, \* bound: crashes and failing file operations, together
  MaxOps     \* bound: operations started

ASSUME ConstantsOK ==
  /\ Versions \subseteq Nat
  /\ Absent # Bad /\ Absent # None /\ Bad # None
  /\ {Absent, Bad, None} \intersect Versions = {}
  /\ None \notin {"prepared", "committed"}
  /\ MaxFaults \in Nat /\ MaxOps \in Nat

VARIABLES
  staged, current, rollback,  \* the binaries
  stCur, stRb,          \* state.json: currentRecord and rollbackRecord
  dir, journal, snap, present,  \* .txn-*: its journal and its snapshots
  lockFile,             \* .lifecycle.lock has been created
  pc, phase, op, allow, ver,  \* the operation: lost in a crash
  reader,               \* a status call
  ops, faults

files   == <<staged, current, rollback, stCur, stRb>>
txn     == <<dir, journal, snap, present>>
process == <<pc, phase, op, allow, ver>>
outside == <<lockFile, reader, ops>>
vars    == <<staged, current, rollback, stCur, stRb, dir, journal, snap,
             present, lockFile, pc, phase, op, allow, ver, reader, ops, faults>>

Ops == {"install", "upgrade", "reinstall", "rollback"}
NoSnap == [current |-> Absent, rollback |-> Absent, stCur |-> None, stRb |-> None]

\* The snapshots a journal names.
Named(s) == (IF s.current # Absent THEN {"current"} ELSE {})
              \union (IF s.rollback # Absent THEN {"rollback"} ELSE {})
              \union (IF s.stCur # None THEN {"state"} ELSE {})

\* status: a pending transaction hides everything.
Available == ~dir /\ stCur # None /\ current = stCur

Init ==
  /\ staged = Absent /\ current = Absent /\ rollback = Absent
  /\ stCur = None /\ stRb = None
  /\ dir = FALSE /\ journal = None /\ snap = NoSnap /\ present = {}
  /\ lockFile = FALSE
  /\ pc = "idle" /\ phase = None /\ op = None /\ allow = FALSE /\ ver = None
  /\ reader = [pc |-> "idle", locked |-> FALSE, st |-> None, pending |-> FALSE,
               report |-> None]
  /\ ops = 0 /\ faults = 0

Goto(to) == pc' = to /\ UNCHANGED <<phase, op, allow, ver>>
Return == /\ pc' = "idle" /\ phase' = None /\ op' = None
          /\ allow' = FALSE /\ ver' = None

-----------------------------------------------------------------------------
(* The lock and recovery, at the head of every operation *)

Start(o, a) ==
  /\ pc = "idle" /\ ops < MaxOps
  /\ reader.pc = "idle" \/ ~reader.locked
  /\ pc' = "recover" /\ phase' = "recover" /\ op' = o /\ allow' = a /\ ver' = None
  /\ lockFile' = TRUE /\ ops' = ops + 1
  /\ UNCHANGED <<files, txn, reader, faults>>

\* Recovery undoes whatever has a journal, committed or not.
RecoverUndoesAll ==
  /\ pc = "recover"
  /\ Goto(CASE ~dir -> "body"
            [] dir /\ journal = None -> "purge"
            [] dir /\ journal # None -> "restoreCurrent")
  /\ UNCHANGED <<files, txn, outside, faults>>

\* A directory without a journal is deleted, as is a committed one; any
\* other is restored first.
Recover ==
  /\ pc = "recover"
  /\ Goto(CASE ~dir -> "body"
            [] dir /\ journal \in {None, "committed"} -> "purge"
            [] dir /\ journal = "prepared" -> "restoreCurrent")
  /\ UNCHANGED <<files, txn, outside, faults>>

Run(to) == pc' = to /\ phase' = "run" /\ UNCHANGED <<op, allow, ver>>

BeginInstall ==
  /\ pc = "body" /\ op \in {"install", "upgrade"} /\ Run("resolve")
  /\ UNCHANGED <<files, txn, outside, faults>>

\* A rollback needs a previous good runtime that verifies.
BeginRollback ==
  /\ pc = "body" /\ op = "rollback"
  /\ IF stRb # None /\ rollback = stRb THEN Run("mktxn") ELSE Return
  /\ UNCHANGED <<files, txn, outside, faults>>

\* A reinstall reuses a runtime that is there.
BeginReinstall ==
  /\ pc = "body" /\ op = "reinstall"
  /\ IF Available THEN Return ELSE Run("resolve")
  /\ UNCHANGED <<files, txn, outside, faults>>

-----------------------------------------------------------------------------
(* From the index to a probed candidate *)

\* The C libraries of prebuilt runtimes, and those the host may be taken to have:
\* what ldd says, or else which loaders are installed.  A host that neither
\* tells has no platform, and nothing is resolved.
Libcs == {"gnu", "musl"}
DetectPlatform == Libcs \union {None}

\* What parse_release_index lets through: signed, for this channel, each entry
\* well formed.  An entry fits if OS, architecture and API match.
Index == SUBSET [version : Versions, libc : Libcs, fits : BOOLEAN]

\* select_runtime_artifact: the single match, never a guess.
Matches(index, libc) == {a \in index : a.fits /\ a.libc = libc}

\* resolve: host and index are looked at anew on each call.
Resolved == LET found == {Matches(i, l) : i \in Index, l \in DetectPlatform \ {None}}
            IN {a.version : a \in UNION {m \in found : Cardinality(m) = 1}}

\* install trusts the version upgrade compared.
InstallTrusting ==
  /\ pc = "resolve" /\ op # "upgrade"
  /\ \/ Return
     \/ \E v \in Resolved :
          IF Available /\ v < current /\ ~allow /\ ver = None
            THEN Return
            ELSE pc' = "download" /\ ver' = v /\ UNCHANGED <<phase, op, allow>>
  /\ UNCHANGED <<files, txn, outside, faults>>

\* _install_locked, also for a reinstall with nothing to reuse.
Install ==
  /\ pc = "resolve" /\ op # "upgrade"
  /\ \/ Return
     \/ \E v \in Resolved :
          IF Available /\ v < current /\ ~allow
            THEN Return
            ELSE pc' = "download" /\ ver' = v /\ UNCHANGED <<phase, op, allow>>
  /\ UNCHANGED <<files, txn, outside, faults>>

\* _upgrade_locked compares the versions and then calls install, which
\* resolves again and may be offered another one.
Upgrade ==
  /\ pc = "resolve" /\ op = "upgrade"
  /\ \/ Return
     \/ \E v \in Resolved :
          IF Available /\ (v = current \/ (v < current /\ ~allow))
            THEN Return
            ELSE op' = "install" /\ ver' = v /\ UNCHANGED <<pc, phase, allow>>
  /\ UNCHANGED <<files, txn, outside, faults>>

\* download_artifact: the file is replaced only by one that was verified.
Download ==
  /\ pc = "download"
  /\ \/ Return /\ UNCHANGED staged
     \/ staged' = ver /\ (Goto("packs") \/ Goto("probe"))
  /\ UNCHANGED <<current, rollback, stCur, stRb, txn, outside, faults>>

\* select_compatible_model_and_handler, for a probe by handshake: the index has
\* one of each that works with this runtime, or the install ends.
SelectPacks ==
  /\ pc = "packs"
  /\ Return \/ Goto("handshake")
  /\ UNCHANGED <<files, txn, outside, faults>>

\* _ipc_call: an answer in time, on one line and as expected, to the handshake
\* and then to the health request.
IpcCall ==
  /\ pc \in {"handshake", "health"}
  /\ Return \/ Goto(IF pc = "handshake" THEN "health" ELSE "mktxn")
  /\ UNCHANGED <<files, txn, outside, faults>>

\* The candidate is only asked for its help text.
Probe ==
  /\ pc = "probe"
  /\ Return \/ Goto("mktxn")
  /\ UNCHANGED <<files, txn, outside, faults>>

-----------------------------------------------------------------------------
(* _state_transaction: snapshots, journal, the change, commit *)

MakeTxn ==
  /\ pc = "mktxn" /\ Goto("prepare")
  /\ dir' = TRUE /\ journal' = None
  /\ snap' = [current |-> current, rollback |-> rollback,
              stCur |-> stCur, stRb |-> stRb]
  /\ present' = Named(snap')
  /\ UNCHANGED <<files, outside, faults>>

Prepare ==
  /\ pc = "prepare" /\ journal' = "prepared"
  /\ Goto(IF op = "rollback" THEN "dropCurrent" ELSE "dropRollback")
  /\ UNCHANGED <<files, dir, snap, present, outside, faults>>

PreviousGood == stCur # None /\ current = stCur

\* _activate_untransactional: a current runtime that verifies becomes the
\* previous good one.
DropRollback ==
  /\ pc = "dropRollback" /\ Goto(IF PreviousGood THEN "keep" ELSE "place")
  /\ rollback' = IF PreviousGood THEN Absent ELSE rollback
  /\ UNCHANGED <<staged, current, stCur, stRb, txn, outside, faults>>

Keep ==
  /\ pc = "keep" /\ Goto("place")
  /\ rollback' = current /\ current' = Absent
  /\ UNCHANGED <<staged, stCur, stRb, txn, outside, faults>>

Place ==
  /\ pc = "place" /\ Goto("writeState")
  /\ current' = staged /\ staged' = Absent
  /\ UNCHANGED <<rollback, stCur, stRb, txn, outside, faults>>

\* previous_good was computed before the moves: the snapshot still tells.
WriteState ==
  /\ pc = "writeState" /\ Goto("commit")
  /\ stRb' = IF stCur # None /\ snap.current = stCur THEN stCur ELSE stRb
  /\ stCur' = ver
  /\ UNCHANGED <<staged, current, rollback, txn, outside, faults>>

\* _rollback_locked: the records are swapped, so rollbackRecord afterwards
\* names a file that is gone.
DropCurrent ==
  /\ pc = "dropCurrent" /\ Goto("promote")
  /\ current' = Absent
  /\ UNCHANGED <<staged, rollback, stCur, stRb, txn, outside, faults>>

Promote ==
  /\ pc = "promote" /\ Goto("swapState")
  /\ current' = rollback /\ rollback' = Absent
  /\ UNCHANGED <<staged, stCur, stRb, txn, outside, faults>>

SwapState ==
  /\ pc = "swapState" /\ Goto("commit")
  /\ stCur' = stRb /\ stRb' = stCur
  /\ UNCHANGED <<staged, current, rollback, txn, outside, faults>>

Commit ==
  /\ pc = "commit" /\ Goto("purge")
  /\ journal' = "committed"
  /\ UNCHANGED <<files, dir, snap, present, outside, faults>>

\* shutil.rmtree removes the entries in any order, then the directory.
\* Recovery goes on to the operation, a finished or failed one returns.
Purge ==
  /\ pc = "purge"
  /\ \/ \E f \in present : present' = present \ {f}
                           /\ UNCHANGED <<dir, journal, snap>> /\ Goto("purge")
     \/ /\ journal # None /\ journal' = None
        /\ UNCHANGED <<dir, snap, present>> /\ Goto("purge")
     \/ /\ present = {} /\ journal = None /\ dir' = FALSE /\ snap' = NoSnap
        /\ UNCHANGED <<journal, present>>
        /\ IF phase = "recover" THEN Goto("body") ELSE Return
  /\ UNCHANGED <<files, outside, faults>>

-----------------------------------------------------------------------------
(* _restore_transaction: the snapshots replace what is there *)

\* A snapshot the journal names and the directory lacks ends the recovery.
Restorable(f) == f \in Named(snap) => f \in present

RestoreCurrent ==
  /\ pc = "restoreCurrent"
  /\ IF Restorable("current")
       THEN current' = snap.current /\ Goto("restoreRollback")
       ELSE UNCHANGED current /\ Return
  /\ UNCHANGED <<staged, rollback, stCur, stRb, txn, outside, faults>>

RestoreRollback ==
  /\ pc = "restoreRollback"
  /\ IF Restorable("rollback")
       THEN rollback' = snap.rollback /\ Goto("restoreState")
       ELSE UNCHANGED rollback /\ Return
  /\ UNCHANGED <<staged, current, stCur, stRb, txn, outside, faults>>

RestoreState ==
  /\ pc = "restoreState"
  /\ IF Restorable("state")
       THEN stCur' = snap.stCur /\ stRb' = snap.stRb /\ Goto("purge")
       ELSE UNCHANGED <<stCur, stRb>> /\ Return
  /\ UNCHANGED <<staged, current, rollback, txn, outside, faults>>

-----------------------------------------------------------------------------
(* Faults *)

Touching == {"prepare", "dropRollback", "keep", "place", "writeState",
             "dropCurrent", "promote", "swapState", "commit"}
Restoring == {"restoreCurrent", "restoreRollback", "restoreState"}

\* An exception: during the change it is undone, during recovery or while
\* undoing it ends the operation with the directory still there.
Fail ==
  /\ faults < MaxFaults /\ faults' = faults + 1
  /\ pc \in Touching \union Restoring \union {"purge"}
  /\ IF phase = "run"
       THEN /\ pc' = IF journal = "prepared" THEN "restoreCurrent" ELSE "purge"
            /\ phase' = "undo" /\ UNCHANGED <<op, allow, ver>>
       ELSE Return
  /\ UNCHANGED <<files, txn, outside>>

\* The process is killed: the kernel drops its lock.
Crash ==
  /\ pc # "idle" /\ Return
  /\ faults < MaxFaults /\ faults' = faults + 1
  /\ UNCHANGED <<files, txn, outside>>

\* A settled binary is damaged behind the manager's back.
Damage ==
  /\ pc = "idle" /\ ~dir /\ faults < MaxFaults /\ faults' = faults + 1
  /\ \/ current # Absent /\ current' = Bad /\ UNCHANGED rollback
     \/ rollback # Absent /\ rollback' = Bad /\ UNCHANGED current
  /\ UNCHANGED <<staged, stCur, stRb, txn, process, outside>>

-----------------------------------------------------------------------------
(* status, under the shared lock once the lock file exists *)

StatusStart ==
  /\ reader.pc = "idle" /\ (lockFile => pc = "idle")
  /\ reader' = [pc |-> "state", locked |-> lockFile, st |-> None,
                pending |-> FALSE, report |-> None]
  /\ UNCHANGED <<files, txn, lockFile, process, ops, faults>>

StatusState ==
  /\ reader.pc = "state"
  /\ reader' = [reader EXCEPT !.pc = "pending", !.st = stCur]
  /\ UNCHANGED <<files, txn, lockFile, process, ops, faults>>

StatusPending ==
  /\ reader.pc = "pending"
  /\ reader' = [reader EXCEPT !.pc = "verify", !.pending = dir]
  /\ UNCHANGED <<files, txn, lockFile, process, ops, faults>>

\* A pending transaction is not looked at.
StatusVerifyPending ==
  /\ reader.pc = "verify"
  /\ reader' = [reader EXCEPT !.pc = "idle",
                  !.report = IF reader.st # None /\ current = reader.st
                               THEN reader.st ELSE None]
  /\ UNCHANGED <<files, txn, lockFile, process, ops, faults>>

StatusVerify ==
  /\ reader.pc = "verify"
  /\ reader' = [reader EXCEPT !.pc = "idle",
                  !.report = IF /\ ~reader.pending /\ reader.st # None
                                /\ current = reader.st THEN reader.st ELSE None]
  /\ UNCHANGED <<files, txn, lockFile, process, ops, faults>>

Status == StatusStart \/ StatusState \/ StatusPending \/ StatusVerify

Lifecycle ==
  \/ \E o \in Ops, a \in BOOLEAN : (a => o \in {"install", "upgrade"}) /\ Start(o, a)
  \/ Recover \/ BeginInstall \/ BeginRollback \/ BeginReinstall
  \/ Install \/ Upgrade \/ Download \/ SelectPacks \/ IpcCall \/ Probe
  \/ MakeTxn \/ Prepare \/ DropRollback \/ Keep \/ Place \/ WriteState
  \/ DropCurrent \/ Promote \/ SwapState \/ Commit \/ Purge
  \/ RestoreCurrent \/ RestoreRollback \/ RestoreState

Next == Lifecycle \/ Status \/ Fail \/ Crash \/ Damage

Spec == Init /\ [][Next]_vars

-----------------------------------------------------------------------------
(* Properties *)

\* What recovery would leave: the snapshots of an intact prepared
\* transaction, else the files themselves.
Undoes == dir /\ journal = "prepared" /\ Named(snap) \subseteq present

Slot(file, record) == IF record # None /\ file = record THEN record ELSE None

Cur  == IF Undoes THEN Slot(snap.current, snap.stCur) ELSE Slot(current, stCur)
Prev == IF Undoes THEN Slot(snap.rollback, snap.stRb) ELSE Slot(rollback, stRb)

Slots == INSTANCE RuntimeSlots WITH cur <- Cur, prev <- Prev, busy <- pc # "idle"

\* "All mutations are atomic; a failed probe or verification never touches
\* current": wherever a crash or an exception strikes, what can be recovered
\* changes only as whole activations and rollbacks, and the previous good
\* runtime is lost to neither.
ImplementsSlots == Slots!Spec

\* status, whose three reads are separate steps, reports a runtime as
\* available only when it is the active one of the slots: never one whose
\* activation is still being written or is about to be undone.  (A call made
\* before the lock file exists reads without the lock and can be overtaken.)
StatusIsTrue == [][reader.pc = "verify" /\ reader.locked /\ reader'.report # None
                     => reader'.report = Cur]_reader

\* A verified runtime is replaced by an older one only by a rollback or with
\* allow_downgrade, although upgrade resolves the index twice.
NeverOlder == [][Cur # None /\ Cur' # None /\ Cur' < Cur
                   => op = "rollback" \/ allow]_<<Cur, op, allow>>
=============================================================================
