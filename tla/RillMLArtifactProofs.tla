------------------------ MODULE RillMLArtifactProofs ------------------------
(***************************************************************************)
(* Proofs about the lifecycle of the native runtime, for any set of        *)
(* releases and any number of operations, crashes and failing file         *)
(* operations: seen through recovery it is the two slots of RuntimeSlots,  *)
(* no verified runtime gives way to an older one, and status under the     *)
(* lock never reports a runtime that is not the active one.                *)
(*                                                                         *)
(* The argument follows the transaction directory: while its journal says  *)
(* prepared, either all its snapshots are there and are what recovery      *)
(* leaves, or the files are what they show.                                *)
(***************************************************************************)
EXTENDS RillMLArtifact, TLAPS

-----------------------------------------------------------------------------
(* The inductive invariant *)

Files   == Versions \union {Absent, Bad}
Records == Versions \union {None}

TypeOK ==
  /\ staged \in Files /\ current \in Files /\ rollback \in Files
  /\ stCur \in Records /\ stRb \in Records
  /\ dir \in BOOLEAN /\ journal \in {None, "prepared", "committed"}
  /\ snap \in [current : Files, rollback : Files, stCur : Records, stRb : Records]
  /\ ver \in Records /\ lockFile \in BOOLEAN
  /\ reader \in [pc : {"idle", "state", "pending", "verify"}, locked : BOOLEAN,
                 st : Records, pending : BOOLEAN, report : Records]

\* The transaction's change, between its journal and the commit.
Changing == Touching \ {"prepare"}

\* From the choice of a release to the commit of its installation.
Selecting == {"download", "packs", "handshake", "health", "probe"}
Placing   == {"dropRollback", "keep", "place", "writeState"}
Installing == Selecting \union Placing
                \union {p \in {"mktxn", "prepare", "commit"} : op # "rollback"}

\* The steps a rollback shares with an installation, and its own.
RollingBack == {"dropCurrent", "promote", "swapState"}
                 \union {p \in {"prepare", "commit"} : op = "rollback"}

SnapRecords == stCur = snap.stCur /\ stRb = snap.stRb
Unchanged == current = snap.current /\ rollback = snap.rollback /\ SnapRecords

\* The runtime that an installation keeps as the previous good one.
KeptGood == snap.stCur # None /\ snap.current = snap.stCur

\* The transaction directory and the place in the operation.
DirInv ==
  /\ ~dir => journal = None
  /\ dir /\ journal = "prepared" /\ ~(Named(snap) \subseteq present) => Unchanged
  /\ pc \in Selecting \union {"body", "resolve", "mktxn"} => ~dir
  /\ pc = "prepare" => dir /\ journal = None /\ Named(snap) \subseteq present /\ Unchanged
  /\ pc \in Changing => dir /\ journal = "prepared" /\ Named(snap) \subseteq present
  /\ pc = "purge" => dir /\ (journal = "prepared" => Unchanged)
  /\ pc \in Restoring => dir /\ journal = "prepared"
  /\ pc \in {"restoreRollback", "restoreState"} => current = snap.current
  /\ pc = "restoreState" => rollback = snap.rollback

\* An installation: which file and which record is where, step by step, and
\* that the chosen release may replace what recovery would leave.
InstallInv ==
  /\ pc \in {"resolve"} \union Selecting \union Placing => op # "rollback"
  /\ pc \in Installing => ver \in Versions /\ (Cur # None /\ ver < Cur => allow)
  /\ pc \in (Installing \ {"download", "writeState", "commit"}) => staged = ver
  /\ pc = "dropRollback" => Unchanged
  /\ pc = "keep" => current = snap.current /\ KeptGood
  /\ pc \in {"keep", "place", "writeState"} => SnapRecords
  /\ pc \in {"place", "writeState", "commit"} /\ op # "rollback" =>
       rollback = IF KeptGood THEN snap.current ELSE snap.rollback
  /\ pc \in {"writeState", "commit"} /\ op # "rollback" => current = ver
  /\ pc = "commit" /\ op # "rollback" =>
       /\ stCur = ver
       /\ stRb = IF KeptGood THEN snap.stCur ELSE snap.stRb

\* A rollback: it starts from a previous good runtime.
RollbackInv ==
  /\ pc = "mktxn" /\ op = "rollback" => stRb # None /\ rollback = stRb
  /\ pc \in RollingBack => /\ op = "rollback"
                           /\ snap.stRb # None /\ snap.rollback = snap.stRb
  /\ pc = "dropCurrent" => Unchanged
  /\ pc \in {"promote", "swapState"} => SnapRecords
  /\ pc = "promote" => rollback = snap.rollback
  /\ pc = "swapState" \/ (pc = "commit" /\ op = "rollback") =>
       current = snap.rollback /\ rollback = Absent
  /\ pc = "commit" /\ op = "rollback" => stCur = snap.stRb /\ stRb = snap.stCur

\* A status call that holds the lock: no operation runs, and what it has read
\* stays true.
ReaderInv ==
  reader.pc # "idle" /\ reader.locked =>
    /\ pc = "idle"
    /\ reader.pc # "state" => reader.st = stCur
    /\ reader.pc = "verify" => reader.pending = dir

IInv == TypeOK /\ DirInv /\ InstallInv /\ RollbackInv /\ ReaderInv

-----------------------------------------------------------------------------
(* What recovery leaves *)

\* It is the snapshots' as long as they are all there and the journal is prepared.
LEMMA SlotsOfSnapshots ==
  ASSUME Undoes, UNCHANGED txn
  PROVE  Cur' = Cur /\ Prev' = Prev
BY DEF Undoes, Cur, Prev, Slot, Named, txn

\* Otherwise it is the files'.
LEMMA SlotsOfFiles ==
  ASSUME ~Undoes, ~Undoes', UNCHANGED files
  PROVE  Cur' = Cur /\ Prev' = Prev
BY DEF Cur, Prev, Slot, files

\* Files as the snapshots show them: whether recovery restores makes no difference.
LEMMA SlotsOfBoth ==
  ASSUME Unchanged, Unchanged', snap' = snap
  PROVE  Cur' = Cur /\ Prev' = Prev
BY DEF Cur, Prev, Slot, Unchanged, SnapRecords

LEMMA SlotsUnchanged ==
  ASSUME UNCHANGED <<files, txn>>
  PROVE  Cur' = Cur /\ Prev' = Prev
BY DEF Cur, Prev, Slot, Undoes, Named, files, txn

\* Only a commit and a damage change what recovery leaves.
LEMMA SlotsStep ==
  ASSUME IInv, [Next]_vars, ~Commit, ~Damage
  PROVE  Cur' = Cur /\ Prev' = Prev
<1>0. TypeOK /\ DirInv
  BY DEF IInv
<1>1. CASE \/ \E o \in Ops, a \in BOOLEAN : Start(o, a)
           \/ Recover \/ BeginInstall \/ BeginRollback \/ BeginReinstall
           \/ Install \/ Upgrade \/ SelectPacks \/ IpcCall \/ Probe
           \/ Status \/ Fail \/ Crash \/ UNCHANGED vars
  <2>1. UNCHANGED <<files, txn>>
    BY <1>1 DEF Start, Recover, BeginInstall, BeginRollback, BeginReinstall, Install,
                Upgrade, SelectPacks, IpcCall, Probe, Status, StatusStart, StatusState,
                StatusPending, StatusVerify, Fail, Crash, vars, files, txn
  <2> QED
    BY <2>1, SlotsUnchanged
<1>2. CASE Download
  <2>1. UNCHANGED <<current, rollback, stCur, stRb, txn>>
    BY <1>2 DEF Download
  <2> QED
    BY <2>1 DEF Cur, Prev, Slot, Undoes, Named, txn
<1>3. CASE MakeTxn
  <2>1. ~Undoes /\ ~Undoes' /\ UNCHANGED files
    BY <1>0, <1>3, ConstantsOK DEF MakeTxn, Undoes, DirInv
  <2> QED
    BY <2>1, SlotsOfFiles
<1>4. CASE Prepare
  <2>1. Unchanged /\ Unchanged' /\ snap' = snap
    BY <1>0, <1>4 DEF Prepare, DirInv, Unchanged, SnapRecords, files
  <2> QED
    BY <2>1, SlotsOfBoth
<1>5. CASE \/ DropRollback \/ Keep \/ Place \/ WriteState \/ DropCurrent \/ Promote
           \/ SwapState
  <2>1. pc \in Changing /\ UNCHANGED txn
    BY <1>5 DEF DropRollback, Keep, Place, WriteState, DropCurrent, Promote, SwapState,
                Changing, Touching
  <2>2. Undoes
    BY <1>0, <2>1 DEF DirInv, Undoes
  <2> QED
    BY <2>1, <2>2, SlotsOfSnapshots
<1>6. CASE Purge
  <2>1. CASE journal = "prepared"
    <3>1. Unchanged /\ dir
      BY <1>0, <1>6, <2>1 DEF Purge, DirInv
    <3>2. snap' = snap /\ Unchanged'
      BY <1>6, <2>1, <3>1, ConstantsOK DEF Purge, Unchanged, SnapRecords, files
    <3> QED
      BY <3>1, <3>2, SlotsOfBoth
  <2>2. CASE journal # "prepared"
    <3>1. ~Undoes /\ ~Undoes' /\ UNCHANGED files
      BY <1>6, <2>2, ConstantsOK DEF Purge, Undoes
    <3> QED
      BY <3>1, SlotsOfFiles
  <2> QED
    BY <2>1, <2>2
<1>7. CASE RestoreCurrent \/ RestoreRollback \/ RestoreState
  <2>1. UNCHANGED txn /\ dir /\ journal = "prepared"
    BY <1>0, <1>7 DEF RestoreCurrent, RestoreRollback, RestoreState, DirInv, Restoring
  <2>2. CASE Undoes
    BY <2>1, <2>2, SlotsOfSnapshots
  <2>3. CASE ~Undoes
    <3>1. Unchanged
      BY <1>0, <2>1, <2>3 DEF DirInv, Undoes
    <3>2. Unchanged' /\ snap' = snap
      BY <1>7, <2>1, <3>1
         DEF RestoreCurrent, RestoreRollback, RestoreState, Unchanged, SnapRecords, txn
    <3> QED
      BY <3>1, <3>2, SlotsOfBoth
  <2> QED
    BY <2>2, <2>3
<1> QED
  BY <1>1, <1>2, <1>3, <1>4, <1>5, <1>6, <1>7 DEF Next, Lifecycle

\* A commit: the slots that the committed change leaves.
LEMMA SlotsCommitted ==
  ASSUME IInv, Commit
  PROVE  /\ op # "rollback" => /\ ver \in Versions /\ Cur' = ver
                               /\ Prev' = IF Cur # None THEN Cur ELSE Prev
         /\ op = "rollback" => Prev # None /\ Cur' = Prev /\ Prev' = None
<1>1. /\ TypeOK /\ pc = "commit" /\ UNCHANGED files /\ journal' = "committed"
      /\ snap \in [current : Files, rollback : Files, stCur : Records, stRb : Records]
  BY DEF IInv, TypeOK, Commit
<1>2. dir /\ journal = "prepared" /\ Named(snap) \subseteq present
  BY <1>1 DEF IInv, DirInv, Changing, Touching
<1>3. /\ Cur = Slot(snap.current, snap.stCur) /\ Prev = Slot(snap.rollback, snap.stRb)
      /\ Cur' = Slot(current, stCur) /\ Prev' = Slot(rollback, stRb)
  BY <1>1, <1>2 DEF Undoes, Cur, Prev, Slot, files
<1>4. CASE op # "rollback"
  <2>1. /\ ver \in Versions /\ current = ver /\ stCur = ver
        /\ rollback = IF KeptGood THEN snap.current ELSE snap.rollback
        /\ stRb = IF KeptGood THEN snap.stCur ELSE snap.stRb
    BY <1>1, <1>4 DEF IInv, InstallInv, Installing
  <2> QED
    BY <1>3, <1>4, <2>1, ConstantsOK DEF Slot, KeptGood
<1>5. CASE op = "rollback"
  <2>1. /\ snap.stRb # None /\ snap.rollback = snap.stRb
        /\ current = snap.rollback /\ rollback = Absent
        /\ stCur = snap.stRb /\ stRb = snap.stCur
    BY <1>1, <1>5 DEF IInv, RollbackInv, RollingBack
  <2>2. snap.stCur # Absent
    BY <1>1, ConstantsOK DEF Records
  <2> QED
    BY <1>3, <1>5, <2>1, <2>2 DEF Slot
<1> QED
  BY <1>4, <1>5

\* A damaged file is no runtime.
LEMMA SlotsDamaged ==
  ASSUME IInv, Damage
  PROVE  (Cur' = None /\ Prev' = Prev) \/ (Cur' = Cur /\ Prev' = None)
<1>1. ~Undoes /\ ~Undoes' /\ UNCHANGED <<stCur, stRb>>
  BY DEF Damage, Undoes, txn
<1>2. stCur # Bad /\ stRb # Bad
  BY ConstantsOK DEF IInv, TypeOK, Records
<1> QED
  BY <1>1, <1>2 DEF Damage, Cur, Prev, Slot

-----------------------------------------------------------------------------
(* The invariant is inductive *)

LEMMA TypeStep == ASSUME IInv, [Next]_vars PROVE TypeOK'
<1> USE DEF files, txn, outside, process, Goto, Return, Run
<1>0. TypeOK
  BY DEF IInv
<1>1. CASE \E o \in Ops, a \in BOOLEAN : Start(o, a)
  BY <1>0, <1>1 DEF Start, TypeOK, Records
<1>2. CASE Recover \/ BeginInstall \/ BeginRollback \/ BeginReinstall
  BY <1>0, <1>2 DEF Recover, BeginInstall, BeginRollback, BeginReinstall, TypeOK, Records
<1>3. CASE Install \/ Upgrade
  <2>1. Resolved \subseteq Versions
    BY DEF Resolved, Matches, Index
  <2> QED
    BY <1>0, <1>3, <2>1 DEF Install, Upgrade, TypeOK, Records
<1>4. CASE Download
  <2>1. ver \in Versions
    BY <1>4 DEF Download, IInv, InstallInv, Installing, Selecting
  <2> QED
    BY <1>0, <1>4, <2>1 DEF Download, TypeOK, Records, Files
<1>5. CASE SelectPacks \/ IpcCall \/ Probe
  BY <1>0, <1>5 DEF SelectPacks, IpcCall, Probe, TypeOK, Records
<1>6. CASE MakeTxn
  BY <1>0, <1>6 DEF MakeTxn, TypeOK
<1>7. CASE Prepare \/ DropRollback \/ Keep \/ Place \/ DropCurrent \/ Promote \/ SwapState \/ Commit
  BY <1>0, <1>7
     DEF Prepare, DropRollback, Keep, Place, DropCurrent, Promote, SwapState, Commit,
         TypeOK, Files
<1>8. CASE WriteState
  BY <1>0, <1>8 DEF WriteState, TypeOK, Records
<1>9. CASE Purge
  <2>1. NoSnap \in [current : Files, rollback : Files, stCur : Records, stRb : Records]
    BY DEF NoSnap, Files, Records
  <2>2. /\ snap' \in {snap, NoSnap} /\ journal' \in {journal, None} /\ dir' \in {dir, FALSE}
        /\ ver' \in {ver, None}
    BY <1>9 DEF Purge
  <2>3. UNCHANGED <<files, reader, lockFile>>
    BY <1>9 DEF Purge
  <2>4. ver' \in Records
    BY <1>0, <2>2 DEF TypeOK, Records
  <2> QED
    BY <1>0, <2>1, <2>2, <2>3, <2>4 DEF TypeOK
<1>10. CASE RestoreCurrent \/ RestoreRollback \/ RestoreState
  BY <1>0, <1>10 DEF RestoreCurrent, RestoreRollback, RestoreState, TypeOK, Records
<1>11. CASE Status
  <2>1. UNCHANGED <<files, txn, lockFile, process>>
    BY <1>11 DEF Status, StatusStart, StatusState, StatusPending, StatusVerify
  <2>2. reader' \in [pc : {"idle", "state", "pending", "verify"}, locked : BOOLEAN,
                     st : Records, pending : BOOLEAN, report : Records]
    <3>1. CASE StatusStart
      <4>1. lockFile \in BOOLEAN
        BY <1>0 DEF TypeOK
      <4> QED
        BY <3>1, <4>1 DEF StatusStart, Records
    <3>2. CASE StatusState \/ StatusPending
      BY <1>0, <3>2 DEF StatusState, StatusPending, TypeOK
    <3>3. CASE StatusVerify
      BY <1>0, <3>3 DEF StatusVerify, TypeOK, Records
    <3> QED
      BY <1>11, <3>1, <3>2, <3>3 DEF Status
  <2> QED
    BY <1>0, <2>1, <2>2 DEF TypeOK
<1>12. CASE Fail \/ Crash
  BY <1>0, <1>12 DEF Fail, Crash, TypeOK, Records
<1>13. CASE Damage
  BY <1>0, <1>13 DEF Damage, TypeOK, Files
<1>14. CASE UNCHANGED vars
  BY <1>0, <1>14 DEF vars, TypeOK
<1> QED
  BY <1>1, <1>2, <1>3, <1>4, <1>5, <1>6, <1>7, <1>8, <1>9, <1>10, <1>11, <1>12, <1>13, <1>14
     DEF Next, Lifecycle

LEMMA DirStep == ASSUME IInv, [Next]_vars PROVE DirInv'
<1> USE DEF Changing, Touching, Selecting, Restoring, Unchanged, SnapRecords
<1>0. DirInv /\ TypeOK
  BY DEF IInv
<1>1. CASE \/ \E o \in Ops, a \in BOOLEAN : Start(o, a)
           \/ Recover \/ BeginInstall \/ BeginRollback \/ BeginReinstall
           \/ Install \/ Upgrade \/ SelectPacks \/ IpcCall \/ Probe \/ Fail \/ Crash
  <2>1. UNCHANGED <<files, txn>>
    BY <1>1 DEF Start, Recover, BeginInstall, BeginRollback, BeginReinstall, Install,
                Upgrade, SelectPacks, IpcCall, Probe, Fail, Crash
  <2>2. /\ Unchanged' = Unchanged /\ Named(snap)' = Named(snap)
        /\ dir' = dir /\ journal' = journal /\ present' = present
    BY <2>1 DEF files, txn, Named
  <2>3. CASE Recover
    BY <1>0, <2>2, <2>3, ConstantsOK DEF Recover, Goto, DirInv, TypeOK
  <2>4. CASE Fail
    BY <1>0, <2>2, <2>4 DEF Fail, Return, DirInv
  <2>5. CASE \/ \E o \in Ops, a \in BOOLEAN : Start(o, a)
             \/ BeginInstall \/ BeginRollback \/ BeginReinstall
             \/ Install \/ Upgrade \/ SelectPacks \/ IpcCall \/ Probe \/ Crash
    BY <1>0, <2>2, <2>5
       DEF Start, BeginInstall, BeginRollback, BeginReinstall, Install, Upgrade,
           SelectPacks, IpcCall, Probe, Crash, Goto, Return, Run, DirInv
  <2> QED
    BY <1>1, <2>3, <2>4, <2>5
<1>2. CASE Download
  BY <1>0, <1>2 DEF Download, Goto, Return, DirInv, txn, Named
<1>3. CASE MakeTxn
  BY <1>0, <1>3, ConstantsOK DEF MakeTxn, Goto, DirInv, TypeOK, files
<1>4. CASE Prepare
  BY <1>0, <1>4, ConstantsOK DEF Prepare, Goto, DirInv, files, Named
<1>5. CASE DropRollback \/ Keep \/ Place \/ WriteState \/ DropCurrent \/ Promote \/ SwapState
  <2>1. pc \in Changing /\ UNCHANGED txn /\ pc' \in Changing
    BY <1>5 DEF DropRollback, Keep, Place, WriteState, DropCurrent, Promote, SwapState, Goto
  <2> QED
    BY <1>0, <2>1 DEF DirInv, txn, Named
<1>6. CASE Commit
  BY <1>0, <1>6, ConstantsOK DEF Commit, Goto, DirInv, files
<1>7. CASE Purge
  BY <1>0, <1>7, ConstantsOK DEF Purge, Goto, Return, DirInv, files
<1>8. CASE RestoreCurrent
  BY <1>0, <1>8, ConstantsOK DEF RestoreCurrent, Goto, Return, DirInv, txn, Named
<1>9. CASE RestoreRollback
  BY <1>0, <1>9, ConstantsOK DEF RestoreRollback, Goto, Return, DirInv, txn, Named
<1>10. CASE RestoreState
  BY <1>0, <1>10, ConstantsOK DEF RestoreState, Goto, Return, DirInv, txn, Named
<1>11. CASE Status \/ UNCHANGED vars
  <2>1. UNCHANGED <<files, txn, process>>
    BY <1>11 DEF Status, StatusStart, StatusState, StatusPending, StatusVerify, vars,
                 files, txn, process
  <2> QED
    BY <1>0, <2>1 DEF DirInv, files, txn, process, Named
<1>12. CASE Damage
  BY <1>0, <1>12 DEF Damage, DirInv, txn, process
<1> QED
  BY <1>1, <1>2, <1>3, <1>4, <1>5, <1>6, <1>7, <1>8, <1>9, <1>10, <1>11, <1>12
     DEF Next, Lifecycle

\* Recovery knows what to do with any journal.
LEMMA RecoverGoes ==
  ASSUME TypeOK, Recover
  PROVE  pc' \in {"body", "purge", "restoreCurrent"}
<1>1. journal \in {None, "prepared", "committed"} /\ dir \in BOOLEAN
  BY DEF TypeOK
<1>2. CASE ~dir
  BY <1>2 DEF Recover, Goto
<1>3. CASE dir /\ journal \in {None, "committed"}
  BY <1>3, ConstantsOK DEF Recover, Goto
<1>4. CASE dir /\ journal = "prepared"
  BY <1>4, ConstantsOK DEF Recover, Goto
<1> QED
  BY <1>1, <1>2, <1>3, <1>4

\* What the places share: an installation goes from one to the next.
LEMMA InstallStep == ASSUME IInv, [Next]_vars PROVE InstallInv'
<1> USE DEF Installing, Selecting, Placing, Unchanged, SnapRecords
<1>0. InstallInv /\ DirInv /\ TypeOK
  BY DEF IInv
<1>1. CASE \/ \E o \in Ops, a \in BOOLEAN : Start(o, a)
           \/ Recover \/ Fail \/ Crash \/ Damage \/ Commit
           \/ RestoreCurrent \/ RestoreRollback \/ RestoreState
           \/ DropCurrent \/ Promote
  <2>1. pc' \in {"recover", "body", "purge", "idle", "promote", "swapState"} \union Restoring
    BY <1>0, <1>1, RecoverGoes
       DEF Start, Fail, Crash, Damage, Commit, RestoreCurrent, Return, Goto,
           RestoreRollback, RestoreState, DropCurrent, Promote, Restoring, process
  <2> QED
    BY <2>1 DEF InstallInv, Restoring
<1>2. CASE Purge
  <2>1. pc' \in {"purge", "body", "idle"}
    BY <1>2 DEF Purge, Goto, Return
  <2> QED
    BY <2>1 DEF InstallInv
<1>3. CASE BeginInstall \/ BeginReinstall
  BY <1>3 DEF BeginInstall, BeginReinstall, Run, Return, InstallInv
<1>4. CASE BeginRollback
  BY <1>4 DEF BeginRollback, Run, Return, InstallInv
<1>5. CASE SwapState
  <2>1. op' = "rollback" /\ pc' = "commit"
    BY <1>5 DEF SwapState, Goto, IInv, RollbackInv, RollingBack
  <2> QED
    BY <2>1 DEF InstallInv
<1>6. CASE Install
  <2>1. Cur' = Cur
    BY <1>6, SlotsStep DEF Install, Commit, Damage
  <2>2. Cur # None => Available /\ Cur = current
    BY <1>0, <1>6 DEF Install, InstallInv, DirInv, Undoes, Cur, Slot, Available
  <2>3. CASE pc' = "download"
    <3>1. /\ op' = op /\ op # "rollback" /\ ver' \in Versions /\ allow' = allow
          /\ ~(Available /\ ver' < current /\ ~allow)
      <4>1. Resolved \subseteq Versions
        BY DEF Resolved, Matches, Index
      <4> QED
        BY <1>0, <1>6, <2>3, <4>1 DEF Install, Return, InstallInv
    <3>2. Cur' # None /\ ver' < Cur' => allow'
      BY <2>1, <2>2, <3>1
    <3> QED
      BY <2>3, <3>1, <3>2 DEF InstallInv
  <2>4. CASE pc' = "idle"
    BY <2>4 DEF InstallInv
  <2> QED
    BY <1>6, <2>3, <2>4 DEF Install, Return
<1>7. CASE Upgrade
  BY <1>0, <1>7 DEF Upgrade, Return, InstallInv
<1>8. CASE Download \/ SelectPacks \/ IpcCall \/ Probe
  <2>1. Cur' = Cur
    BY <1>8, SlotsStep DEF Download, SelectPacks, IpcCall, Probe, Commit, Damage
  <2>2. CASE pc' = "idle"
    BY <2>2 DEF InstallInv
  <2>3. CASE pc' # "idle"
    <3>1. /\ op' = op /\ ver' = ver /\ allow' = allow /\ op # "rollback"
          /\ ver \in Versions /\ (Cur # None /\ ver < Cur => allow)
          /\ pc' \in {"packs", "probe", "handshake", "health", "mktxn"}
      BY <1>0, <1>8, <2>3
         DEF Download, SelectPacks, IpcCall, Probe, Goto, Return, InstallInv
    <3>2. staged' = ver
      BY <1>0, <1>8, <2>3, <3>1
         DEF Download, SelectPacks, IpcCall, Probe, Goto, Return, InstallInv, files
    <3> QED
      BY <2>1, <3>1, <3>2 DEF InstallInv
  <2> QED
    BY <2>2, <2>3
<1>9. CASE MakeTxn \/ Prepare \/ DropRollback \/ Keep \/ Place \/ WriteState
  <2>1. Cur' = Cur
    BY <1>9, SlotsStep
       DEF MakeTxn, Prepare, DropRollback, Keep, Place, WriteState, Commit, Damage
  <2>2. op' = op /\ ver' = ver /\ allow' = allow
    BY <1>9 DEF MakeTxn, Prepare, DropRollback, Keep, Place, WriteState, Goto
  <2>3. CASE op = "rollback"
    <3>1. pc' \in {"prepare", "dropCurrent"}
      BY <1>0, <1>9, <2>3
         DEF MakeTxn, Prepare, DropRollback, Keep, Place, WriteState, Goto, InstallInv
    <3> QED
      BY <2>2, <2>3, <3>1 DEF InstallInv
  <2>4. CASE op # "rollback"
    <3>1. ver \in Versions /\ (Cur # None /\ ver < Cur => allow)
      BY <1>0, <1>9, <2>4
         DEF MakeTxn, Prepare, DropRollback, Keep, Place, WriteState, InstallInv
    <3>2. CASE MakeTxn
      BY <1>0, <2>1, <2>2, <2>4, <3>1, <3>2 DEF MakeTxn, Goto, InstallInv, files
    <3>3. CASE Prepare
      BY <1>0, <2>1, <2>2, <2>4, <3>1, <3>3 DEF Prepare, Goto, InstallInv, DirInv, files
    <3>4. CASE DropRollback
      BY <1>0, <2>1, <2>2, <2>4, <3>1, <3>4
         DEF DropRollback, Goto, InstallInv, PreviousGood, KeptGood, txn
    <3>5. CASE Keep
      BY <1>0, <2>1, <2>2, <2>4, <3>1, <3>5 DEF Keep, Goto, InstallInv, KeptGood, txn
    <3>6. CASE Place
      BY <1>0, <2>1, <2>2, <2>4, <3>1, <3>6 DEF Place, Goto, InstallInv, KeptGood, txn
    <3>7. CASE WriteState
      BY <1>0, <2>1, <2>2, <2>4, <3>1, <3>7 DEF WriteState, Goto, InstallInv, KeptGood, txn
    <3> QED
      BY <1>9, <3>2, <3>3, <3>4, <3>5, <3>6, <3>7
  <2> QED
    BY <2>3, <2>4
<1>10. CASE Status \/ UNCHANGED vars
  <2>1. UNCHANGED <<files, txn, process>>
    BY <1>10 DEF Status, StatusStart, StatusState, StatusPending, StatusVerify, vars,
                 files, txn, process
  <2>2. Cur' = Cur /\ KeptGood' = KeptGood
    BY <2>1, SlotsUnchanged DEF txn, KeptGood
  <2> QED
    BY <1>0, <2>1, <2>2 DEF InstallInv, files, txn, process
<1> QED
  BY <1>1, <1>2, <1>3, <1>4, <1>5, <1>6, <1>7, <1>8, <1>9, <1>10 DEF Next, Lifecycle

LEMMA RollbackStep == ASSUME IInv, [Next]_vars PROVE RollbackInv'
<1> USE DEF RollingBack, Unchanged, SnapRecords
<1>0. RollbackInv /\ DirInv /\ InstallInv /\ TypeOK
  BY DEF IInv
<1>1. CASE \/ \E o \in Ops, a \in BOOLEAN : Start(o, a)
           \/ Recover \/ Fail \/ Crash \/ Damage \/ Commit \/ Purge
           \/ RestoreCurrent \/ RestoreRollback \/ RestoreState
           \/ BeginInstall \/ BeginReinstall \/ Install \/ Upgrade
           \/ DropRollback \/ Keep \/ Place
  <2>1. pc' \in {"recover", "body", "purge", "idle", "resolve", "download", "keep", "place",
                 "writeState"} \union Restoring
    BY <1>0, <1>1, RecoverGoes
       DEF Start, Fail, Crash, Damage, Commit, Purge, RestoreCurrent, RestoreRollback,
           RestoreState, BeginInstall, BeginReinstall, Install, Upgrade, DropRollback,
           Keep, Place, Return, Goto, Run, Restoring, process
  <2> QED
    BY <2>1 DEF RollbackInv, Restoring
<1>2. CASE Download \/ SelectPacks \/ IpcCall \/ Probe \/ WriteState
  <2>1. \/ pc' \in {"idle", "packs", "probe", "handshake", "health"}
        \/ pc' \in {"mktxn", "commit"} /\ op' # "rollback"
    BY <1>0, <1>2 DEF Download, SelectPacks, IpcCall, Probe, WriteState, Goto, Return,
                      InstallInv, Selecting, Placing
  <2> QED
    BY <2>1 DEF RollbackInv
<1>3. CASE BeginRollback
  BY <1>3 DEF BeginRollback, Run, Return, RollbackInv, files
<1>4. CASE MakeTxn
  BY <1>0, <1>4 DEF MakeTxn, Goto, RollbackInv
<1>5. CASE Prepare
  BY <1>0, <1>5 DEF Prepare, Goto, RollbackInv, DirInv, files
<1>6. CASE DropCurrent
  BY <1>0, <1>6 DEF DropCurrent, Goto, RollbackInv, txn
<1>7. CASE Promote
  BY <1>0, <1>7 DEF Promote, Goto, RollbackInv, txn
<1>8. CASE SwapState
  BY <1>0, <1>8 DEF SwapState, Goto, RollbackInv, txn
<1>9. CASE Status \/ UNCHANGED vars
  <2>1. UNCHANGED <<files, txn, process>>
    BY <1>9 DEF Status, StatusStart, StatusState, StatusPending, StatusVerify, vars,
                files, txn, process
  <2> QED
    BY <1>0, <2>1 DEF RollbackInv, files, txn, process
<1> QED
  BY <1>1, <1>2, <1>3, <1>4, <1>5, <1>6, <1>7, <1>8, <1>9 DEF Next, Lifecycle

LEMMA ReaderStep == ASSUME IInv, [Next]_vars PROVE ReaderInv'
<1>0. ReaderInv /\ TypeOK
  BY DEF IInv
<1>1. CASE Status
  <2>1. UNCHANGED <<files, txn, process>>
    BY <1>1 DEF Status, StatusStart, StatusState, StatusPending, StatusVerify
  <2>2. CASE StatusStart
    BY <2>1, <2>2 DEF StatusStart, ReaderInv, process
  <2>3. CASE StatusState
    BY <1>0, <2>1, <2>3 DEF StatusState, ReaderInv, TypeOK, process, files
  <2>4. CASE StatusPending
    BY <1>0, <2>1, <2>4 DEF StatusPending, ReaderInv, TypeOK, process, files, txn
  <2>5. CASE StatusVerify
    BY <1>0, <2>5 DEF StatusVerify, ReaderInv, TypeOK
  <2> QED
    BY <1>1, <2>2, <2>3, <2>4, <2>5 DEF Status
<1>2. CASE \E o \in Ops, a \in BOOLEAN : Start(o, a)
  BY <1>0, <1>2 DEF Start, ReaderInv
<1>3. CASE Damage \/ UNCHANGED vars
  BY <1>0, <1>3 DEF Damage, vars, ReaderInv, txn, process, outside
<1>4. ASSUME pc # "idle", reader' = reader
      PROVE  ReaderInv'
  BY <1>0, <1>4 DEF ReaderInv
<1>5. CASE \/ Recover \/ BeginInstall \/ BeginRollback \/ BeginReinstall
           \/ Install \/ Upgrade \/ Download \/ SelectPacks \/ IpcCall \/ Probe
           \/ MakeTxn \/ Prepare \/ DropRollback \/ Keep \/ Place \/ WriteState
           \/ DropCurrent \/ Promote \/ SwapState \/ Commit \/ Purge
           \/ RestoreCurrent \/ RestoreRollback \/ RestoreState \/ Fail \/ Crash
  <2>1. pc # "idle" /\ reader' = reader
    BY <1>5
       DEF Recover, BeginInstall, BeginRollback, BeginReinstall, Install, Upgrade,
           Download, SelectPacks, IpcCall, Probe, MakeTxn, Prepare, DropRollback, Keep,
           Place, WriteState, DropCurrent, Promote, SwapState, Commit, Purge,
           RestoreCurrent, RestoreRollback, RestoreState, Fail, Crash, outside,
           Touching, Restoring
  <2> QED
    BY <1>4, <2>1
<1> QED
  BY <1>1, <1>2, <1>3, <1>5 DEF Next, Lifecycle

LEMMA Initially == Init => IInv
<1> SUFFICES ASSUME Init
             PROVE  IInv
  OBVIOUS
<1>1. TypeOK
  <2>1. NoSnap \in [current : Files, rollback : Files, stCur : Records, stRb : Records]
    BY DEF NoSnap, Files, Records
  <2> QED
    BY <2>1 DEF Init, TypeOK, Files, Records
<1>2. DirInv /\ InstallInv /\ RollbackInv /\ ReaderInv
  BY DEF Init, DirInv, InstallInv, RollbackInv, ReaderInv, Selecting, Placing, Installing,
         RollingBack, Changing, Touching, Restoring
<1> QED
  BY <1>1, <1>2 DEF IInv

\* The invariant holds of every behavior.
LEMMA Invariance == Spec => []IInv
<1>1. IInv /\ [Next]_vars => IInv'
  BY TypeStep, DirStep, InstallStep, RollbackStep, ReaderStep DEF IInv
<1> QED
  BY Initially, <1>1, PTL DEF Spec

-----------------------------------------------------------------------------
(* The properties *)

\* Whether an operation runs changes as the slots have it.
LEMMA Busy ==
  ASSUME [Next]_vars, ~Commit, ~Damage, Cur' = Cur, Prev' = Prev
  PROVE  [Slots!Next]_(Slots!vars)
BY DEF Slots!Next, Slots!Begin, Slots!End, Slots!vars

LEMMA StepRefines ==
  ASSUME IInv, [Next]_vars
  PROVE  [Slots!Next]_(Slots!vars)
<1>1. CASE Commit
  <2>1. pc # "idle" /\ pc' # "idle"
    BY <1>1 DEF Commit, Goto
  <2> QED
    BY <1>1, <2>1, SlotsCommitted DEF Slots!Next, Slots!Activate, Slots!RollBack
<1>2. CASE Damage
  <2>1. pc = "idle" /\ pc' = "idle"
    BY <1>2 DEF Damage, process
  <2> QED
    BY <1>2, <2>1, SlotsDamaged DEF Slots!Next, Slots!Damage
<1>3. CASE ~Commit /\ ~Damage
  BY <1>3, SlotsStep, Busy
<1> QED
  BY <1>1, <1>2, <1>3

\* "All mutations are atomic": whatever crashes and failing file operations an
\* operation of the runtime manager meets, what recovery leaves are two slots that
\* change only by whole activations and rollbacks, and by damage from outside.
THEOREM LifecycleIsAtomic == Spec => ImplementsSlots
<1>1. Init => Slots!Init
  BY DEF Init, Slots!Init, Cur, Prev, Slot, Undoes
<1> QED
  BY <1>1, Invariance, StepRefines, PTL DEF Spec, ImplementsSlots, Slots!Spec

\* A status call under the lifecycle lock reports a runtime as available only when
\* it is the active one, though its three reads are separate.
THEOREM StatusTellsTheTruth == Spec => StatusIsTrue
<1>1. ASSUME IInv, [Next]_vars, reader' # reader, reader.pc = "verify", reader.locked,
             reader'.report # None
      PROVE  reader'.report = Cur
  <2>1. StatusVerify
    BY <1>1 DEF Next, Lifecycle, Status, StatusStart, StatusState, StatusPending, vars,
         Start, Recover, BeginInstall, BeginRollback, BeginReinstall, Install, Upgrade,
         Download, SelectPacks, IpcCall, Probe, MakeTxn, Prepare, DropRollback, Keep,
         Place, WriteState, DropCurrent, Promote, SwapState, Commit, Purge,
         RestoreCurrent, RestoreRollback, RestoreState, Fail, Crash, Damage, outside
  <2>2. reader.st = stCur /\ reader.pending = dir
    BY <1>1 DEF IInv, ReaderInv
  <2>3. reader'.report = stCur /\ ~dir /\ stCur # None /\ current = stCur
    BY <1>1, <2>1, <2>2 DEF StatusVerify, IInv, TypeOK
  <2> QED
    BY <2>3 DEF Cur, Undoes, Slot
<1>2. IInv /\ [Next]_vars
        => [reader.pc = "verify" /\ reader.locked /\ reader'.report # None
              => reader'.report = Cur]_reader
  BY <1>1
<1> QED
  BY <1>2, Invariance, PTL DEF Spec, StatusIsTrue

\* No verified runtime gives way to an older one but by a rollback or with
\* allow_downgrade, though upgrade and install each look at the index.
THEOREM RuntimeNeverOlder == Spec => NeverOlder
<1>1. ASSUME IInv, [Next]_vars, Cur # None, Cur' # None, Cur' < Cur
      PROVE  op = "rollback" \/ allow
  <2>1. Cur \in Nat
    BY <1>1, ConstantsOK DEF IInv, TypeOK, Records, Cur, Slot
  <2>2. CASE Commit
    <3> SUFFICES ASSUME op # "rollback"
                 PROVE  allow
      OBVIOUS
    <3>1. Cur' = ver
      BY <1>1, <2>2, SlotsCommitted
    <3>2. Cur # None /\ ver < Cur => allow
      BY <1>1, <2>2 DEF IInv, InstallInv, Installing, Commit
    <3> QED
      BY <1>1, <3>1, <3>2
  <2>3. CASE Damage
    BY <1>1, <2>1, <2>3, SlotsDamaged
  <2>4. CASE ~Commit /\ ~Damage
    BY <1>1, <2>1, <2>4, SlotsStep
  <2> QED
    BY <2>2, <2>3, <2>4
<1>2. IInv /\ [Next]_vars
        => [Cur # None /\ Cur' # None /\ Cur' < Cur
              => op = "rollback" \/ allow]_<<Cur, op, allow>>
  BY <1>1
<1> QED
  BY <1>2, Invariance, PTL DEF Spec, NeverOlder
=============================================================================
