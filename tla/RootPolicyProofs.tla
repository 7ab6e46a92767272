-------------------------- MODULE RootPolicyProofs --------------------------
(***************************************************************************)
(* RootPolicy for any number of requests, orders, crashes and ticks.  How  *)
(* far the Runtime is wider than the root side, and that orders revoke     *)
(* what is queued, hold whoever writes when; the fuse and the limits as    *)
(* long as no acknowledgement of the fuse is given while the executor      *)
(* runs.                                                                   *)
(***************************************************************************)
EXTENDS RootPolicy, TLAPS, FiniteSetTheorems

\* A ledger as AutoPolicy writes it: with the limit reached, the fuse is open.
Sound(l) == /\ l \in Ledgers /\ IsFiniteSet(l.times)
            /\ l.rollbacks >= FuseLimit => l.open

\* q is a projection computed at time t.
ProjectedAt(q, t) ==
  /\ q.open = q.of.open
  /\ q.recent = Cardinality({a \in q.of.times : t - a.at < Hour})
  /\ q.cooldown = 0 => q.of.last = 0 \/ t - q.of.last >= Cooldown

\* Every copy of the ledger is sound, and the projection was true once.
FilesInv ==
  /\ TypeOK
  /\ Sound(ledger)
  /\ run # None => Sound(run.ledger)
  /\ helper # Off => Sound(helper.ledger)
  /\ Sound(projection.of) /\ \E t \in 0..now : ProjectedAt(projection, t)

\* What a copy of the ledger has as applied has had its run.
Decided(l) == \A i \in Ids : l.by[i] # 0 => outcome[i] # None

AppliedInv ==
  /\ Decided(ledger)
  /\ run # None => Decided(run.ledger)
  /\ helper # Off => Decided(helper.ledger)
  /\ pc \in {"txn", "commit"} => outcome[claim.id] # None

\* The helper's command may run beside the executor, and an acknowledgement is
\* the one that writes the ledger.
HelperInv ==
  /\ helper # Off /\ pc # "down" => helper.command \in Racing
  /\ "ledger" \in helper.left => /\ helper.command = [do |-> "acknowledge"]
                                 /\ helper.ledger = Acknowledge(ledger)
  /\ pc # "down" => run.ledger = ledger

\* Where a request without an outcome is worked on or left over.
OpenAt == {"txn", "commit", "down", "recover"}
FailAt == {"rollback", "bump", "rolledBack", "down", "recover"}

OutcomeInv ==
  /\ \A i \in Ids : outcome[i] = "open" => claim # None /\ claim.id = i /\ pc \in OpenAt
  /\ \A i \in Ids : outcome[i] = "failing" => claim # None /\ claim.id = i /\ pc \in FailAt
  /\ pc \in {"txn", "commit"} => outcome[claim.id] = "open"
  /\ pc \in {"rollback", "rolledBack"} => outcome[claim.id] = "failing"
  /\ pc = "recover" /\ run.gated => outcome[claim.id] \notin {"open", "failing"}
  /\ pc = "start" => run.gated
  /\ \A i \in ledger.applied : i \in Autos /\ outcome[i] # None
  /\ \A i \in Autos : outcome[i] = "committed" => i \in ledger.applied
  /\ pc = "commit" /\ claim.id \in Autos => claim.id \in ledger.applied
  /\ pc = "txn" => claim.id \notin ledger.applied
  /\ \A i \in ledger.rolledBack : i \in Autos /\ outcome[i] \in {"failing", "unverified", "rolledBack"}

\* The policy has been asked, and the change is not live yet.
Asked == /\ pc \in {"recover", "reconcile", "bump", "start"} /\ run.gated
         /\ pc = "bump" => outcome[claim.id] # "failing"

\* The ledger has the change, at a time when it was live, as long as the window
\* can need it.
Recorded(i) ==
  /\ started[i] <= ledger.last
  /\ \/ \E a \in ledger.times : a.id = i /\ started[i] <= a.at
     \/ started[i] + Hour <= now

Live == {i \in Autos : outcome[i] \in {"committed", "open"}}

\* A change that starts now keeps its distance from all that is live, and fills no
\* window.
MayStart(i) ==
  /\ \A j \in Live : started[j] + Cooldown <= now
  /\ \A S \in SUBSET Live : Cardinality(S \union {i}) > MaxPerHour =>
       \E j \in S : started[j] + Hour <= now

\* The automatic changes that are or may become committed keep the limits.
RateInv ==
  /\ started \in [Ids -> Nat]
  /\ \A i \in Autos : started[i] <= now /\ (outcome[i] # None => started[i] > 0)
  /\ \A i \in Autos : outcome[i] = "committed" => Recorded(i)
  /\ pc = "commit" /\ claim.id \in Autos => Recorded(claim.id)
  /\ Asked /\ claim.id \in Autos /\ outcome[claim.id] = None => MayStart(claim.id)
  /\ \A i, j \in Live : i = j \/ started[i] + Cooldown <= started[j]
                              \/ started[j] + Cooldown <= started[i]
  /\ \A S \in SUBSET Live : Cardinality(S) > MaxPerHour =>
       \E i, j \in S : started[i] + Hour <= started[j]

\* Where a failure is that the ledger has still to count: the claim that is worked
\* on or left over, a rollback that is not verified, or what recovery has settled.
ToCount(i) ==
  \/ outcome[i] = "failing" /\ claim # None /\ claim.id = i /\ pc \in {"rollback", "down", "recover"}
  \/ outcome[i] = "unverified"
  \/ /\ outcome[i] = "rolledBack" /\ claim # None /\ pc \in {"reconcile", "bump", "down", "recover"}
     /\ pc = "bump" => outcome[claim.id] # "failing"

\* The row of failures: what the ledger has counted of it, and the others.
CountInv ==
  /\ failed \subseteq Autos /\ IsFiniteSet(failed)
  /\ Cardinality(failed \intersect ledger.rolledBack) <= ledger.rollbacks
  /\ \A i \in failed \ ledger.rolledBack : ToCount(i)

\* Without what was unsettled when the policy was asked, the row was below the limit.
FuseInv ==
  /\ CountInv
  /\ Asked /\ claim.id \in Autos => Cardinality(failed \ run.met) < FuseLimit

\* A policy the helper is about to write follows the one it has loaded.
OrderInv == "policy" \in helper.left => helper.policy.epoch = helper.from + 1

\* Unless a policy has been written over a later one: what is stale is of an earlier
\* epoch than the copy of the run that may take it, and is not let through.
EpochInv ==
  /\ pc \in {"start", "txn", "rollback"} => run.gated
  /\ pc \in {"claim", "gate"} => ~run.gated
  /\ \/ lost
     \/ /\ run # None => run.policy.epoch <= policy.epoch
        /\ spool # None => spool.epoch <= policy.epoch
        /\ spool # None /\ "spool" \in stale =>
             /\ spool.epoch < policy.epoch
             /\ TakesSpool => spool.epoch < run.policy.epoch
        /\ pc = "gate" /\ "claim" \in stale => claim.epoch < run.policy.epoch
        /\ run # None /\ run.gated /\ pc # "settle" => "claim" \notin stale

-----------------------------------------------------------------------------
(* Types and copies *)

\* Older entries are dropped from the ledger, and none is added but the new one.
LEMMA RecordApplySound ==
  ASSUME NEW l, Sound(l), NEW i \in Ids, now \in Nat
  PROVE  Sound(RecordApply(l, i))
<1>1. CASE i \in l.applied
  BY <1>1 DEF RecordApply
<1>2. CASE i \notin l.applied
  <2> DEFINE r == RecordApply(l, i)
             k == IF l.open THEN l.rollbacks ELSE 0
             s == Recent(l.times) \union {[id |-> i, at |-> now]}
  <2> DEFINE by == [l.by EXCEPT ![i] = now]
  <2>1. r = [last |-> now, by |-> by, times |-> s, rollbacks |-> k, open |-> l.open,
             acked |-> l.acked, applied |-> l.applied \union {i}, rolledBack |-> l.rolledBack]
    BY <1>2 DEF RecordApply, Sound, Ledgers
  <2>2. s \in SUBSET [id : Ids, at : Nat]
    BY DEF Recent, Sound, Ledgers
  <2>3. IsFiniteSet(s)
    <3>1. IsFiniteSet(Recent(l.times))
      BY FS_Subset DEF Recent, Sound
    <3> QED
      BY <3>1, FS_AddElement
  <2>4. k \in Nat /\ (k >= FuseLimit => l.open)
    BY ConstantsOK DEF Sound, Ledgers
  <2> HIDE DEF k, s
  <2>5. r \in Ledgers
    <3>1. l \in Ledgers /\ now \in Nat /\ l.applied \union {i} \in SUBSET Ids
      BY DEF Sound, Ledgers
    <3>2. k \in Nat
      BY <2>4
    <3>3. by \in [Ids -> Nat]
      BY <3>1 DEF Ledgers
    <3> HIDE DEF by
    <3> QED
      BY <2>1, <2>2, <3>1, <3>2, <3>3 DEF Ledgers
  <2>6. r.times = s /\ r.rollbacks = k /\ r.open = l.open
    BY <2>1
  <2> QED
    BY <2>3, <2>4, <2>5, <2>6 DEF Sound
<1> QED
  BY <1>1, <1>2

\* At the limit the fuse opens.
LEMMA RecordRollbackSound ==
  ASSUME NEW l, Sound(l), NEW i \in Ids
  PROVE  Sound(RecordRollback(l, i))
<1>1. CASE i \in l.rolledBack
  BY <1>1 DEF RecordRollback
<1>2. CASE i \notin l.rolledBack
  <2> DEFINE r == RecordRollback(l, i)
             open == l.open \/ l.rollbacks + 1 >= FuseLimit
             acked == l.acked /\ l.rollbacks + 1 < FuseLimit
  <2>1. r = [l EXCEPT !.rollbacks = l.rollbacks + 1, !.open = open, !.acked = acked,
                      !.rolledBack = l.rolledBack \union {i}]
    BY <1>2 DEF RecordRollback, Sound, Ledgers
  <2>2. open \in BOOLEAN /\ acked \in BOOLEAN /\ l.rollbacks \in Nat /\ l \in Ledgers
    BY DEF Sound, Ledgers
  <2>3. l.rollbacks + 1 >= FuseLimit => open
    OBVIOUS
  <2> HIDE DEF open, acked
  <2>4. r \in Ledgers
    <3>1. r = [last |-> l.last, by |-> l.by, times |-> l.times, rollbacks |-> l.rollbacks + 1, open |-> open,
               acked |-> acked, applied |-> l.applied, rolledBack |-> l.rolledBack \union {i}]
      BY <2>1, <2>2 DEF Ledgers
    <3> QED
      BY <3>1, <2>2 DEF Ledgers
  <2>5. r.times = l.times /\ r.rollbacks = l.rollbacks + 1 /\ r.open = open
    BY <2>1, <2>2 DEF Ledgers
  <2> QED
    BY <2>3, <2>4, <2>5 DEF Sound
<1> QED
  BY <1>1, <1>2

\* An acknowledgement starts a new row.
LEMMA AcknowledgeSound ==
  ASSUME NEW l, Sound(l)
  PROVE  Sound(Acknowledge(l))
BY ConstantsOK DEF Acknowledge, Sound, Ledgers

\* An order is a policy, of the next epoch if it changes anything.
LEMMA OrderedPolicy ==
  ASSUME NEW p \in Policies, NEW c \in Commands
  PROVE  /\ Bumped(p) \in Policies /\ Bumped(p).epoch = p.epoch + 1
         /\ Ordered(p, c) \in Policies
         /\ Ordered(p, c) # p => Ordered(p, c).epoch = p.epoch + 1
<1>1. c \in AllCommands
  BY ConstantsOK
<1>2. Changed(p, c) \in Policies /\ Changed(p, c).epoch = p.epoch
  BY <1>1 DEF Changed, Policies, AllCommands, Modes, Stages
<1> QED
  BY <1>2 DEF Ordered, Bumped, Policies

\* What the helper is about to write.
LEMMA WritesSound ==
  ASSUME TypeOK, Sound(ledger), NEW c \in Commands
  PROVE  /\ Writes(c) \in [command : Commands, from : Nat, policy : Policies, ledger : Ledgers,
                           left : SUBSET {"ledger", "policy", "projection"}]
         /\ "projection" \in Writes(c).left
         /\ Sound(Writes(c).ledger)
         /\ "policy" \in Writes(c).left => Writes(c).policy.epoch = policy.epoch + 1
         /\ Writes(c).command = c /\ Writes(c).from = policy.epoch
         /\ "ledger" \in Writes(c).left => /\ c.do = "acknowledge"
                                           /\ Writes(c).ledger = Acknowledge(ledger)
<1> DEFINE l == IF c.do = "acknowledge" THEN Acknowledge(ledger) ELSE ledger
           p == IF l.acked # ledger.acked THEN Bumped(policy) ELSE Ordered(policy, c)
           left == {"projection"} \union (IF l = ledger THEN {} ELSE {"ledger"})
                                  \union (IF p = policy THEN {} ELSE {"policy"})
<1>1. Writes(c) = [command |-> c, from |-> policy.epoch, policy |-> p, ledger |-> l, left |-> left]
  BY DEF Writes
<1>2. Sound(l) /\ (l # ledger => c.do = "acknowledge" /\ l = Acknowledge(ledger))
  BY AcknowledgeSound
<1>3. p \in Policies /\ (p # policy => p.epoch = policy.epoch + 1) /\ policy.epoch \in Nat
  BY OrderedPolicy DEF TypeOK, Policies
<1>4. /\ left \in SUBSET {"ledger", "policy", "projection"} /\ "projection" \in left
      /\ "ledger" \in left => l # ledger
      /\ "policy" \in left => p # policy
  OBVIOUS
<1> HIDE DEF l, p, left
<1> QED
  BY <1>1, <1>2, <1>3, <1>4 DEF Sound

\* A projection is true when it is written.
LEMMA SnapshotProjects ==
  ASSUME NEW p \in Policies, NEW l, Sound(l), now \in Nat, NEW q, q = Snapshot(p, l)
  PROVE  q.of = l /\ q.policy = p /\ ProjectedAt(q, now)
<1> DEFINE c == IF l.last = 0 \/ now - l.last >= Cooldown THEN 0 ELSE Cooldown - (now - l.last)
<1>1. q = [policy |-> p, of |-> l, open |-> l.open,
           recent |-> Cardinality({a \in l.times : now - a.at < Hour}), cooldown |-> c]
  BY DEF Snapshot, Recent
<1>2. c = 0 => l.last = 0 \/ now - l.last >= Cooldown
  BY ConstantsOK DEF Sound, Ledgers
<1> HIDE DEF c
<1> QED
  BY <1>1, <1>2 DEF ProjectedAt

\* The files and the copies of a new installation.
LEMMA FilesInitially == Init => FilesInv
<1> SUFFICES ASSUME Init PROVE FilesInv
  OBVIOUS
<1>1. policy \in Policies /\ ledger \in Ledgers /\ now \in Nat /\ now = 1
  BY DEF Init, Policies, Ledgers, Modes, Stages
<1>2. Sound(ledger)
  BY <1>1, ConstantsOK, FS_EmptySet DEF Init, Sound
<1>3. projection.of = ledger /\ projection.policy = policy /\ ProjectedAt(projection, now)
  BY <1>1, <1>2, SnapshotProjects DEF Init
<1>4. /\ spool = None /\ claim = None /\ pc = "down" /\ run = None /\ helper = Off
      /\ stale = {} /\ lost = FALSE /\ now \in 1..MaxTime /\ faults \in 0..MaxFaults
  BY ConstantsOK DEF Init
<1>5. outcome \in [Ids -> Outcomes \union {None}]
  BY DEF Init
<1>6. TypeOK
  BY <1>1, <1>3, <1>4, <1>5 DEF TypeOK
<1> QED
  BY <1>1, <1>2, <1>3, <1>4, <1>6 DEF FilesInv

\* A ledger written by the executor is sound, and is the copy it goes on with.
LEMMA WriteSound ==
  ASSUME FilesInv, run # None, NEW l, Sound(l), Write(l), pc' # "down"
  PROVE  /\ Sound(ledger') /\ Sound(run'.ledger) /\ run' # None /\ run' \in Loaded
         /\ run'.policy = run.policy /\ run'.ledger = l /\ run'.gated = run.gated
         /\ run'.met = run.met
<1>1. run \in Loaded
  BY DEF FilesInv, TypeOK
<1>2. run' = [policy |-> run.policy, ledger |-> l, gated |-> run.gated, met |-> run.met]
  BY <1>1 DEF Write, Loaded
<1>3. run' \in Loaded
  BY <1>1, <1>2 DEF Loaded, Sound
<1> QED
  BY <1>2, <1>3, ConstantsOK DEF Write

\* Requests and outcomes keep their types.
LEMMA RequestTypes ==
  ASSUME TypeOK, [Next]_vars
  PROVE  /\ {spool', claim'} \subseteq Requests \union {None}
         /\ outcome' \in [Ids -> Outcomes \union {None}]
         /\ stale' \subseteq {"spool", "claim"} /\ lost' \in BOOLEAN
         /\ now' \in 1..MaxTime /\ faults' \in 0..MaxFaults
         /\ now \in Nat /\ now' \in Nat /\ now <= now'
         /\ pc' \in {"down", "claim", "settle"} \/ claim' # None
<1>0. /\ {spool, claim} \subseteq Requests \union {None}
      /\ outcome \in [Ids -> Outcomes \union {None}]
      /\ stale \subseteq {"spool", "claim"} /\ lost \in BOOLEAN
      /\ now \in 1..MaxTime /\ faults \in 0..MaxFaults
      /\ pc \in {"down", "claim", "settle"} \/ claim # None
      /\ policy.epoch \in Nat /\ {MaxTime, MaxFaults} \subseteq Nat
  BY ConstantsOK DEF TypeOK, Policies
<1> DEFINE Same == UNCHANGED <<spool, claim, stale, lost, now, faults>>
<1>1. ASSUME NEW i \in Ids, Approve(i)
      PROVE  /\ spool' \in Requests /\ stale' \subseteq {"spool", "claim"}
             /\ UNCHANGED <<claim, outcome, now, faults, pc, lost>>
  BY <1>0, <1>1 DEF Approve, Requests
<1>2. ASSUME NEW o \in Outcomes \union {None}, Outcome(claim.id, o)
      PROVE  outcome' \in [Ids -> Outcomes \union {None}]
  BY <1>0, <1>2 DEF Outcome
<1>3. CASE Start
  BY <1>0, <1>3, ConstantsOK DEF Start, Overlaps, files, history
<1>4. CASE Claim
  <2>1. UNCHANGED <<outcome, lost, now, faults>> /\ claim' = spool /\ spool' = None
    BY <1>4 DEF Claim
  <2>2. stale' \subseteq {"spool", "claim"} /\ (pc' = "settle" \/ claim' # None)
    BY <1>4 DEF Claim
  <2> QED
    BY <1>0, <2>1, <2>2
<1>5. CASE Settle \/ Project
  <2>1. /\ UNCHANGED <<spool, outcome, lost, now, faults>> /\ claim' \in {claim, None}
        /\ pc' \in {"down", "settle"} /\ stale' \subseteq stale
    BY <1>5 DEF Settle, Project, files, history
  <2> QED
    BY <1>0, <2>1
<1>6. CASE Recover
  <2>1. Same /\ claim # None
    BY <1>0, <1>6 DEF Recover, files
  <2>2. outcome' \in [Ids -> Outcomes \union {None}]
    BY <1>0, <1>6 DEF Recover, Outcomes
  <2> QED
    BY <1>0, <2>1, <2>2
<1>7. CASE Reconcile
  BY <1>0, <1>7 DEF Reconcile, Write, WriteRollback, history
<1>8. CASE Gate \/ CommitHook \/ RollbackHook
  <2>1. Same /\ outcome' = outcome /\ claim # None
    BY <1>0, <1>8 DEF Gate, CommitHook, RollbackHook, files, history
  <2> QED
    BY <1>0, <2>1
<1>9. CASE Begin \/ Commit \/ Fails \/ RolledBack \/ Unverified
  <2>1. Same /\ claim # None
    BY <1>0, <1>9 DEF Begin, Commit, Fails, RolledBack, Unverified, files, history
  <2>2. outcome' = outcome \/ \E o \in Outcomes : Outcome(claim.id, o)
    BY <1>9 DEF Begin, Commit, Fails, RolledBack, Unverified, Outcomes
  <2> QED
    BY <1>0, <1>2, <2>1, <2>2
<1>10. CASE Bump
  <2>1. /\ UNCHANGED <<spool, claim, outcome, now, faults>> /\ claim # None
        /\ stale' \subseteq {"spool", "claim"} /\ lost' \in BOOLEAN
    BY <1>0, <1>10 DEF Bump
  <2> QED
    BY <1>0, <2>1
<1>11. CASE HelperWrites
  <2>1. /\ UNCHANGED <<spool, claim, outcome, now, faults, pc>>
        /\ stale' \subseteq {"spool", "claim"} /\ lost' \in BOOLEAN
    BY <1>0, <1>11 DEF HelperWrites
  <2> QED
    BY <1>0, <2>1
<1>12. CASE Tick \/ Crash \/ Rest
  <2>1. UNCHANGED <<spool, claim, outcome, stale, lost>> /\ pc' \in {pc, "down"}
    BY <1>12 DEF Tick, Crash, Rest, vars, files, history
  <2>2. now' \in 1..MaxTime /\ now <= now' /\ faults' \in 0..MaxFaults
    BY <1>0, <1>12 DEF Tick, Crash, Rest, vars, files, history
  <2> QED
    BY <1>0, <2>1, <2>2
<1>13. ASSUME NEW c \in Commands, Command(c)
       PROVE  /\ UNCHANGED <<spool, claim, outcome, stale, lost, now, pc>>
              /\ faults' \in 0..MaxFaults
  BY <1>0, <1>13, ConstantsOK DEF Command, Overlaps, history
<1>14. CASE UNCHANGED vars
  BY <1>0, <1>14 DEF vars
<1>15. CASE \E i \in Ids : Approve(i)
  BY <1>0, <1>1, <1>15
<1>16. CASE \E c \in Commands : Command(c)
  <2>1. UNCHANGED <<spool, claim, outcome, stale, lost, now, pc>> /\ faults' \in 0..MaxFaults
    BY <1>13, <1>16, Zenon
  <2> QED
    BY <1>0, <2>1
<1>17. CASE Next
  BY <1>3, <1>4, <1>6, <1>7, <1>8, <1>9, <1>10, <1>11, <1>12, <1>5, <1>15, <1>16, <1>17, Zenon DEF Next
<1> QED
  BY <1>14, <1>17

\* Every copy of the two files keeps its type, and the projection stays one of the
\* past or is written anew.
LEMMA FilesStep == FilesInv /\ [Next]_vars => FilesInv'
<1> SUFFICES ASSUME FilesInv, [Next]_vars PROVE FilesInv'
  OBVIOUS
<1> DEFINE Helper == [command : Commands, from : Nat, policy : Policies, ledger : Ledgers,
                      left : SUBSET {"ledger", "policy", "projection"}]
           HelperOK(h) == \/ h = Off
                          \/ h \in Helper /\ "projection" \in h.left /\ Sound(h.ledger)
           RunOK(r) == r = None \/ (r \in Loaded /\ Sound(r.ledger))
           CopyOK(q) == /\ q.policy \in Policies /\ Sound(q.of)
                        /\ \E t \in 0..now' : ProjectedAt(q, t)
<1>0. /\ TypeOK /\ policy \in Policies /\ Sound(ledger) /\ now \in Nat /\ now' \in Nat
      /\ now <= now' /\ RunOK(run) /\ (run = None <=> pc = "down") /\ HelperOK(helper)
      /\ CopyOK(projection)
  BY RequestTypes DEF FilesInv, TypeOK
<1>1. SUFFICES /\ policy' \in Policies /\ Sound(ledger') /\ RunOK(run')
               /\ run' = None <=> pc' = "down"
               /\ HelperOK(helper') /\ CopyOK(projection')
               /\ pc' \in {"down", "claim", "settle"} \/ claim' # None
  <2>1. Sound(ledger') => ledger' \in Ledgers
    BY DEF Sound
  <2>2. helper' = Off \/ (helper' \in Helper /\ "projection" \in helper'.left)
    BY <1>1
  <2>3. helper' # Off => Sound(helper'.ledger)
    BY <1>1
  <2>4. TypeOK'
    BY <1>0, <1>1, <2>1, <2>2, RequestTypes DEF TypeOK
  <2>5. \E t \in 0..now' : ProjectedAt(projection', t)
    BY <1>1
  <2>6. (\E t \in 0..now : ProjectedAt(projection, t))'
    BY <2>5 DEF ProjectedAt
  <2> QED
    BY <1>1, <2>3, <2>4, <2>6 DEF FilesInv, Sound
<1>2. pc' \in {"down", "claim", "settle"} \/ claim' # None
  BY <1>0, RequestTypes
<1> HIDE DEF Helper, HelperOK, RunOK, CopyOK
<1> USE <1>2 DEF files, history
<1>3. ASSUME UNCHANGED <<policy, ledger, run, helper, projection>>, pc' = "down" <=> pc = "down"
      PROVE  /\ policy' \in Policies /\ Sound(ledger') /\ RunOK(run')
             /\ run' = None <=> pc' = "down"
             /\ HelperOK(helper') /\ CopyOK(projection')
  <2>1. Sound(ledger') /\ RunOK(run') /\ HelperOK(helper') /\ CopyOK(projection')
    BY <1>0, <1>3
  <2> QED
    BY <1>0, <1>3, <2>1
<1>4. CASE (\E i \in Ids : Approve(i)) \/ Recover \/ Claim \/ Begin \/ Commit \/ Fails \/ RolledBack
           \/ Unverified \/ Tick \/ Rest
  BY <1>3, <1>4 DEF Approve, Recover, Claim, Begin, Commit, Fails, RolledBack, Unverified, Tick, Rest, vars
<1>5. CASE Gate
  <2>1. run \in Loaded /\ Sound(run.ledger) /\ pc # "down" /\ pc' # "down"
    BY <1>0, <1>5 DEF Gate, RunOK
  <2>2. run' = [policy |-> run.policy, ledger |-> run.ledger, gated |-> TRUE, met |-> Unsettled]
    BY <1>5, <2>1 DEF Gate, Loaded
  <2>3. run' \in Loaded /\ run'.ledger = run.ledger
    BY <2>1, <2>2 DEF Loaded, Unsettled
  <2>4. UNCHANGED <<policy, ledger, helper, projection>> /\ run' # None /\ RunOK(run')
    BY <1>5, <2>1, <2>3, ConstantsOK DEF Gate, RunOK
  <2>5. Sound(ledger') /\ HelperOK(helper') /\ CopyOK(projection')
    BY <1>0, <2>4
  <2> QED
    BY <1>0, <2>1, <2>4, <2>5
<1>6. CASE Start
  <2>1. run' = [policy |-> policy, ledger |-> ledger, gated |-> FALSE, met |-> {}] /\ pc = "down" /\ pc' # "down"
    BY <1>6 DEF Start
  <2>2. run' \in Loaded /\ run'.ledger = ledger
    BY <1>0, <2>1 DEF Loaded, Sound
  <2>3. RunOK(run') /\ run' # None
    BY <1>0, <2>2, ConstantsOK DEF RunOK
  <2>4. UNCHANGED <<policy, ledger, projection, helper>>
    BY <1>6 DEF Start
  <2>5. Sound(ledger') /\ HelperOK(helper') /\ CopyOK(projection')
    BY <1>0, <2>4
  <2> QED
    BY <1>0, <2>1, <2>3, <2>4, <2>5
<1>7. CASE Settle
  <2>1. UNCHANGED <<policy, ledger, projection, helper>> /\ run' = None /\ pc' = "down"
    BY <1>7 DEF Settle
  <2>2. Sound(ledger') /\ HelperOK(helper') /\ CopyOK(projection') /\ RunOK(run')
    BY <1>0, <2>1 DEF RunOK
  <2> QED
    BY <1>0, <2>1, <2>2
<1>8. CASE Crash
  <2>1. /\ UNCHANGED <<policy, ledger, projection>>
        /\ (UNCHANGED <<run, pc>> \/ (run' = None /\ pc' = "down"))
        /\ helper' \in {helper, Off}
    BY <1>8 DEF Crash
  <2>2. Sound(ledger') /\ HelperOK(helper') /\ CopyOK(projection') /\ RunOK(run')
    BY <1>0, <2>1 DEF RunOK, HelperOK
  <2> QED
    BY <1>0, <2>1, <2>2
<1>9. ASSUME NEW l, Sound(l), Write(l), pc # "down", pc' # "down",
             UNCHANGED <<policy, projection, helper>>
      PROVE  /\ policy' \in Policies /\ Sound(ledger') /\ RunOK(run')
             /\ run' = None <=> pc' = "down"
             /\ HelperOK(helper') /\ CopyOK(projection')
  <2>1. Sound(ledger') /\ Sound(run'.ledger) /\ run' # None /\ run' \in Loaded
    BY <1>0, <1>9, WriteSound
  <2>2. HelperOK(helper') /\ CopyOK(projection') /\ RunOK(run')
    BY <1>0, <1>9, <2>1 DEF RunOK
  <2> QED
    BY <1>0, <1>9, <2>1, <2>2
<1>10. ASSUME pc \in {"reconcile", "txn", "rollback", "bump", "project"}
      PROVE  run # None /\ Sound(run.ledger) /\ run.policy \in Policies /\ claim # None
             /\ claim.id \in Ids
  BY <1>0, <1>10 DEF RunOK, Loaded, TypeOK, Requests
<1>11. CASE Reconcile
  <2>1. pc = "reconcile" /\ UNCHANGED <<policy, projection, helper>>
    BY <1>11 DEF Reconcile
  <2>2. CASE Unrecorded = {}
    BY <1>3, <2>1, <2>2, <1>11 DEF Reconcile
  <2>3. ASSUME NEW i \in Unrecorded, outcome[i] = "committed",
               Write(RecordApply(run.ledger, i)), pc' = pc
        PROVE  Sound(RecordApply(run.ledger, i))
    BY <1>0, <1>10, <2>1, RecordApplySound DEF Unrecorded, Autos
  <2>4. ASSUME NEW i \in Unrecorded, WriteRollback(i, "reconcile")
        PROVE  /\ Sound(RecordRollback(run.ledger, i))
               /\ Write(RecordRollback(run.ledger, i)) /\ pc' # "down"
    BY <1>0, <1>10, <2>1, <2>4, RecordRollbackSound DEF Unrecorded, Autos, WriteRollback
  <2>5. CASE Unrecorded # {}
    <3>1. PICK i \in Unrecorded :
            IF outcome[i] = "committed"
              THEN Write(RecordApply(run.ledger, i)) /\ UNCHANGED pc
              ELSE WriteRollback(i, "reconcile")
      BY <2>5, <1>11 DEF Reconcile
    <3>2. CASE outcome[i] = "committed"
      BY <1>9, <2>1, <2>3, <3>1, <3>2
    <3>3. CASE outcome[i] # "committed"
      BY <1>9, <2>1, <2>4, <3>1, <3>3
    <3> QED
      BY <3>2, <3>3
  <2> QED
    BY <2>2, <2>5
<1>12. CASE CommitHook
  <2>1. Sound(RecordApply(run.ledger, claim.id)) /\ Sound(run.ledger)
    BY <1>0, <1>10, <1>12, RecordApplySound DEF CommitHook
  <2> QED
    BY <1>9, <1>12, <2>1 DEF CommitHook
<1>13. CASE RollbackHook
  <2>1. Sound(RecordRollback(run.ledger, claim.id))
    BY <1>10, <1>13, RecordRollbackSound DEF RollbackHook
  <2>2. CASE claim.id \in Manual
    BY <1>3, <1>13, <2>2 DEF RollbackHook
  <2>3. CASE claim.id \notin Manual
    BY <1>9, <1>13, <2>1, <2>3 DEF RollbackHook, WriteRollback
  <2> QED
    BY <2>2, <2>3
<1>14. CASE Bump
  <2>1. policy' = Bumped(run.policy) /\ UNCHANGED <<ledger, projection, helper>> /\ pc' # "down"
        /\ run' = [run EXCEPT !.policy = Bumped(@)]
    BY <1>14 DEF Bump
  <2>2. run \in Loaded /\ Sound(run.ledger) /\ run.policy \in Policies
    BY <1>0, <1>10, <1>14 DEF RunOK, Bump
  <2>3. Bumped(run.policy) \in Policies
    BY <2>2 DEF Bumped, Policies
  <2>4. run' = [policy |-> Bumped(run.policy), ledger |-> run.ledger, gated |-> run.gated,
                met |-> run.met]
    BY <2>1, <2>2 DEF Loaded
  <2>5. RunOK(run') /\ run' # None
    BY <2>2, <2>3, <2>4, ConstantsOK DEF RunOK, Loaded
  <2>6. Sound(ledger') /\ HelperOK(helper') /\ CopyOK(projection')
    BY <1>0, <2>1
  <2> QED
    BY <2>1, <2>3, <2>5, <2>6
<1>15. CASE Project
  <2>1. projection' = Snapshot(run.policy, run.ledger) /\ UNCHANGED <<policy, ledger, run, helper>>
        /\ pc = "project" /\ pc' = "settle" /\ now' = now
    BY <1>15 DEF Project
  <2>2. Sound(run.ledger) /\ run.policy \in Policies
    BY <1>10, <2>1
  <2>3. projection'.of = run.ledger /\ projection'.policy = run.policy /\ ProjectedAt(projection', now)
    BY <1>0, <2>1, <2>2, SnapshotProjects
  <2>4. CopyOK(projection')
    BY <1>0, <2>1, <2>2, <2>3 DEF CopyOK
  <2>5. Sound(ledger') /\ HelperOK(helper') /\ RunOK(run')
    BY <1>0, <2>1
  <2> QED
    BY <1>0, <2>1, <2>4, <2>5
<1>16. ASSUME NEW c \in Commands, Command(c)
       PROVE  /\ policy' \in Policies /\ Sound(ledger') /\ RunOK(run')
              /\ run' = None <=> pc' = "down"
              /\ HelperOK(helper') /\ CopyOK(projection')
  <2>1. UNCHANGED <<policy, ledger, run, projection, pc>> /\ helper' = Writes(c)
    BY <1>16 DEF Command
  <2>2. HelperOK(helper')
    BY <1>0, <2>1, WritesSound DEF HelperOK, Helper
  <2>3. Sound(ledger') /\ RunOK(run') /\ CopyOK(projection')
    BY <1>0, <2>1
  <2> QED
    BY <1>0, <2>1, <2>2, <2>3
<1>17. CASE HelperWrites
  <2>1. helper # Off /\ UNCHANGED <<run, pc, now>>
    BY <1>17 DEF HelperWrites
  <2>2. helper \in Helper /\ "projection" \in helper.left /\ Sound(helper.ledger)
    BY <1>0, <2>1 DEF HelperOK
  <2>3. policy' \in Policies /\ Sound(ledger')
    BY <1>0, <1>17, <2>2 DEF HelperWrites, Helper
  <2>4. CopyOK(projection')
    <3>1. CASE Due # "projection"
      BY <1>0, <1>17, <3>1 DEF HelperWrites
    <3>2. CASE Due = "projection"
      <4>1. projection' = Snapshot(helper.policy, helper.ledger)
        BY <1>17, <3>2 DEF HelperWrites
      <4>2. projection'.of = helper.ledger /\ projection'.policy = helper.policy
            /\ ProjectedAt(projection', now)
        BY <1>0, <2>2, <4>1, SnapshotProjects DEF Helper
      <4> QED
        BY <1>0, <2>2, <4>2 DEF CopyOK, Helper
    <3> QED
      BY <3>1, <3>2
  <2>5. HelperOK(helper')
    <3>1. CASE Due = "projection"
      BY <1>17, <3>1 DEF HelperWrites, HelperOK
    <3>2. CASE Due # "projection"
      <4>1. helper' = [helper EXCEPT !.left = helper.left \ {Due}]
        BY <1>17, <2>2, <3>2 DEF HelperWrites, Helper
      <4>2. helper' = [command |-> helper.command, from |-> helper.from, policy |-> helper.policy,
                       ledger |-> helper.ledger, left |-> helper.left \ {Due}]
        BY <2>2, <4>1 DEF Helper
      <4> QED
        BY <2>2, <3>2, <4>2 DEF Helper, HelperOK
    <3> QED
      BY <3>1, <3>2
  <2>6. RunOK(run')
    BY <1>0, <2>1
  <2> QED
    BY <1>0, <2>1, <2>3, <2>4, <2>5, <2>6
<1>18. CASE UNCHANGED vars
  BY <1>3, <1>18 DEF vars
<1> QED
  BY <1>2, <1>4, <1>6, <1>7, <1>8, <1>11, <1>12, <1>13, <1>14, <1>15, <1>16, <1>17, <1>18, <1>5 DEF Next

\* The files and their copies are sound, and the projection was true once.
LEMMA FilesInvariance == Spec => []FilesInv
<1>1. Init => FilesInv
  BY FilesInitially
<1>2. FilesInv /\ [Next]_vars => FilesInv'
  BY FilesStep
<1> QED
  BY <1>1, <1>2, PTL DEF Spec

\* A record as applied is of its own request only.
LEMMA RecordsBy ==
  ASSUME NEW l \in Ledgers, NEW i \in Ids
  PROVE  /\ \A j \in Ids \ {i} : RecordApply(l, i).by[j] = l.by[j]
         /\ RecordRollback(l, i).by = l.by
         /\ Acknowledge(l).by = l.by
BY DEF RecordApply, RecordRollback, Acknowledge, Ledgers

\* What has had its run keeps an outcome, and the ledgers know of nothing else.
LEMMA AppliedStep ==
  ASSUME FilesInv, AppliedInv, [Next]_vars
  PROVE  AppliedInv'
<1>0. /\ TypeOK /\ ledger \in Ledgers /\ outcome \in [Ids -> Outcomes \union {None}]
      /\ claim # None => claim.id \in Ids
      /\ pc \in {"down", "claim", "settle"} \/ claim # None
      /\ run = None <=> pc = "down"
      /\ run # None => run \in Loaded /\ run.ledger \in Ledgers
      /\ helper # Off => helper.command \in Commands /\ helper.ledger \in Ledgers
      /\ Decided(ledger)
      /\ run # None => Decided(run.ledger)
      /\ helper # Off => Decided(helper.ledger)
      /\ pc \in {"txn", "commit"} => outcome[claim.id] # None
  BY DEF FilesInv, TypeOK, Sound, Requests, AppliedInv
<1> DEFINE Kept == \A i \in Ids : outcome[i] # None => outcome'[i] # None
<1>1. Kept
  <2>1. CASE Recover
    BY <1>0, <2>1, ConstantsOK DEF Recover, Unsettled, Outcomes
  <2>2. CASE Begin \/ Commit \/ Fails \/ RolledBack \/ Unverified
    BY <1>0, <2>2, ConstantsOK DEF Begin, Commit, Fails, RolledBack, Unverified, Outcome, Outcomes
  <2>3. CASE Start \/ Reconcile \/ Claim \/ Gate \/ CommitHook \/ RollbackHook \/ Bump \/ Project
             \/ Settle \/ HelperWrites \/ Tick \/ Crash \/ Rest \/ UNCHANGED vars
    BY <2>3 DEF Start, Reconcile, Claim, Gate, CommitHook, RollbackHook, Bump, Project, Settle,
       HelperWrites, Tick, Crash, Rest, vars, history
  <2>4. CASE (\E k \in Ids : Approve(k)) \/ (\E c \in Commands : Command(c))
    BY <2>4 DEF Approve, Command
  <2> QED
    BY <2>1, <2>2, <2>3, <2>4 DEF Next
<1>2. ASSUME NEW l, Decided(l) PROVE Decided(l)'
  BY <1>1, <1>2 DEF Decided
<1>3. \A l : Decided(l) => (\A i \in Ids : l.by[i] # 0 => outcome'[i] # None)
  BY <1>1 DEF Decided
<1> HIDE DEF Kept
<1>4. ASSUME ledger' \in {ledger} \union (IF run = None THEN {} ELSE {run.ledger})
                            \union (IF helper = Off THEN {} ELSE {helper.ledger}),
             run' # None => run'.ledger = ledger \/ (run # None /\ run'.ledger = run.ledger),
             helper' # Off => \/ helper # Off /\ helper'.ledger = helper.ledger
                              \/ helper'.ledger.by = ledger.by,
             pc' \in {"txn", "commit"} => outcome'[claim'.id] # None
      PROVE  AppliedInv'
  BY <1>0, <1>3, <1>4 DEF AppliedInv, Decided
<1>5. CASE (\E i \in Ids : Approve(i)) \/ Recover \/ Claim \/ Tick \/ Rest \/ Project \/ Settle
           \/ UNCHANGED vars
  <2>1. UNCHANGED <<ledger, helper>> /\ run' \in {run, None} /\ ((pc' = pc /\ claim' = claim)
          \/ pc' \notin {"txn", "commit"})
    BY <1>5 DEF Approve, Recover, Claim, Tick, Rest, Project, Settle, vars, files, history
  <2>2. pc' \in {"txn", "commit"} => outcome'[claim'.id] # None
    BY <1>0, <1>1, <2>1 DEF Kept
  <2> QED
    BY <1>4, <2>1, <2>2
<1>6. CASE Begin \/ Commit \/ Fails \/ RolledBack \/ Unverified
  <2>1. UNCHANGED <<ledger, run, helper, claim>>
    BY <1>6 DEF Begin, Commit, Fails, RolledBack, Unverified, files, history
  <2>2. pc' \in {"txn", "commit"} => outcome'[claim'.id] # None
    BY <1>0, <1>6, <2>1, ConstantsOK
       DEF Begin, Commit, Fails, RolledBack, Unverified, Outcome, Outcomes
  <2> QED
    BY <1>4, <2>1, <2>2
<1>7. CASE Start
  BY <1>4, <1>7 DEF Start, files
<1>8. CASE Gate \/ Bump
  <2>1. UNCHANGED <<ledger, helper>> /\ run'.ledger = run.ledger /\ run # None
        /\ pc' \notin {"txn", "commit"}
    BY <1>0, <1>8 DEF Gate, Bump, Loaded, files
  <2> QED
    BY <1>4, <2>1
<1>9. CASE Crash
  BY <1>0, <1>4, <1>9 DEF Crash, files, history
<1>10. ASSUME NEW l, Write(l), pc # "down", UNCHANGED helper,
              \A j \in Ids : l.by[j] # 0 => run.ledger.by[j] # 0 \/ outcome[j] # None,
              pc' \in {"txn", "commit"} => outcome'[claim'.id] # None
       PROVE  AppliedInv'
  <2>1. ledger' = l /\ run'.ledger = l
    BY <1>0, <1>10 DEF Write, Loaded
  <2>2. \A j \in Ids : l.by[j] # 0 => outcome'[j] # None
    BY <1>0, <1>1, <1>3, <1>10 DEF Kept
  <2>3. helper' # Off => \A j \in Ids : helper'.ledger.by[j] # 0 => outcome'[j] # None
    BY <1>0, <1>3, <1>10
  <2> QED
    BY <1>10, <2>1, <2>2, <2>3 DEF AppliedInv, Decided
<1>11. ASSUME NEW i \in Ids, pc # "down", outcome[i] # None
       PROVE  \A j \in Ids : RecordApply(run.ledger, i).by[j] # 0
                              => run.ledger.by[j] # 0 \/ outcome[j] # None
  BY <1>0, <1>11, RecordsBy
<1>12. ASSUME NEW i \in Ids, pc # "down"
       PROVE  \A j \in Ids : RecordRollback(run.ledger, i).by[j] # 0
                              => run.ledger.by[j] # 0 \/ outcome[j] # None
  BY <1>0, <1>12, RecordsBy
<1>13. CASE CommitHook
  <2>1. /\ Write(IF claim.id \in Manual THEN run.ledger ELSE RecordApply(run.ledger, claim.id))
        /\ pc = "txn" /\ UNCHANGED <<helper, claim, outcome>> /\ claim.id \in Ids
        /\ outcome[claim.id] # None
    BY <1>0, <1>13 DEF CommitHook
  <2> QED
    BY <1>10, <1>11, <2>1
<1>14. CASE RollbackHook
  <2>1. CASE claim.id \in Manual
    <3>1. UNCHANGED <<ledger, run, helper>> /\ pc' \notin {"txn", "commit"}
      BY <1>14, <2>1 DEF RollbackHook
    <3> QED
      BY <1>4, <3>1
  <2>2. CASE claim.id \notin Manual
    <3>1. /\ pc = "rollback" /\ Write(RecordRollback(run.ledger, claim.id)) /\ UNCHANGED helper
          /\ pc' \notin {"txn", "commit"} /\ claim.id \in Ids
      BY <1>0, <1>14, <2>2 DEF RollbackHook, WriteRollback
    <3> QED
      BY <1>10, <1>12, <3>1
  <2> QED
    BY <2>1, <2>2
<1>15. CASE Reconcile
  <2>1. pc = "reconcile" /\ UNCHANGED helper /\ pc' \notin {"txn", "commit"}
    BY <1>15 DEF Reconcile, WriteRollback
  <2>2. CASE Unrecorded = {}
    <3>1. UNCHANGED <<ledger, run>>
      BY <1>15, <2>2 DEF Reconcile
    <3> QED
      BY <1>4, <2>1, <3>1
  <2>3. ASSUME NEW i \in Unrecorded, Write(RecordApply(run.ledger, i)) PROVE AppliedInv'
    <3>1. i \in Ids /\ outcome[i] # None
      BY <2>3, ConstantsOK DEF Unrecorded, Autos, Outcomes
    <3> QED
      BY <1>10, <1>11, <2>1, <2>3, <3>1
  <2>4. ASSUME NEW i \in Unrecorded, WriteRollback(i, "reconcile") PROVE AppliedInv'
    <3>1. i \in Ids /\ Write(RecordRollback(run.ledger, i))
      BY <2>4 DEF Unrecorded, Autos, WriteRollback
    <3> QED
      BY <1>10, <1>12, <2>1, <3>1
  <2> QED
    BY <1>15, <2>2, <2>3, <2>4 DEF Reconcile
<1>16. ASSUME NEW c \in Commands, Command(c) PROVE AppliedInv'
  <2>1. UNCHANGED <<ledger, run, pc, claim, outcome>> /\ helper' = Writes(c)
    BY <1>16 DEF Command, files
  <2>2. Writes(c).ledger.by = ledger.by
    <3>1. Writes(c).ledger = IF c.do = "acknowledge" THEN Acknowledge(ledger) ELSE ledger
      BY DEF Writes
    <3>2. Acknowledge(ledger).by = ledger.by
      BY <1>0 DEF Acknowledge, Ledgers
    <3> QED
      BY <3>1, <3>2
  <2> QED
    BY <1>0, <1>4, <2>1, <2>2
<1>17. CASE HelperWrites
  <2>1. /\ helper # Off /\ UNCHANGED <<run, pc, claim, outcome>>
        /\ ledger' \in {ledger, helper.ledger}
    BY <1>17 DEF HelperWrites
  <2>2. helper' = Off \/ helper'.ledger = helper.ledger
    <3>1. helper \in [command : Commands, from : Nat, policy : Policies, ledger : Ledgers,
                      left : SUBSET {"ledger", "policy", "projection"}]
      BY <2>1 DEF FilesInv, TypeOK
    <3>2. helper' = Off \/ helper' = [helper EXCEPT !.left = @ \ {Due}]
      BY <1>17 DEF HelperWrites
    <3> QED
      BY <3>1, <3>2
  <2>3. pc' \in {"txn", "commit"} => outcome'[claim'.id] # None
    BY <1>0, <2>1
  <2>4. \A i \in Ids : ledger'.by[i] # 0 => outcome'[i] # None
    BY <1>0, <1>3, <2>1
  <2>5. run' # None => \A i \in Ids : run'.ledger.by[i] # 0 => outcome'[i] # None
    BY <1>0, <1>3, <2>1
  <2>6. helper' # Off => \A i \in Ids : helper'.ledger.by[i] # 0 => outcome'[i] # None
    BY <1>0, <1>3, <2>1, <2>2
  <2> QED
    BY <2>3, <2>4, <2>5, <2>6 DEF AppliedInv, Decided
<1> QED
  BY <1>5, <1>6, <1>7, <1>8, <1>9, <1>13, <1>14, <1>15, <1>16, <1>17 DEF Next

\* Nothing has been applied yet.
LEMMA AppliedInvariance == Spec => [](FilesInv /\ AppliedInv)
<1>1. Init => FilesInv /\ AppliedInv
  BY FilesInitially DEF Init, AppliedInv, Decided, Off
<1>2. FilesInv /\ AppliedInv /\ [Next]_vars => (FilesInv /\ AppliedInv)'
  BY FilesStep, AppliedStep
<1> QED
  BY <1>1, <1>2, PTL DEF Spec

\* Whatever operator, executor and Runtime do at the same time, and whenever they
\* crash: what the Runtime's gates let through on a projection of the present files,
\* however old, the gates of root_policy.py and auto_policy.py let through, but for
\* the cooldown of one recommendation, and that has an outcome already.
THEOREM RuntimeNeverWider == Spec => []RuntimeIsNotWider
<1>1. FilesInv /\ AppliedInv => RuntimeIsNotWider
  <2> SUFFICES ASSUME FilesInv, AppliedInv PROVE RuntimeIsNotWider
    OBVIOUS
  <2>1. TypeOK /\ Sound(ledger) /\ now \in Nat
    BY DEF FilesInv, TypeOK
  <2>2. Current /\ RuntimeManual(projection) => RootManual(policy)
    BY DEF Current, RuntimeManual, RootManual
  <2>3. ASSUME Current, RuntimeAuto(projection), NEW i \in Autos
        PROVE  RootAuto(policy, ledger, i) \/ (CoolingSame(ledger, i) /\ outcome[i] # None)
    <3>1. PICK t \in 0..now : ProjectedAt(projection, t)
      BY DEF FilesInv
    <3>2. ~ledger.open /\ ledger.rollbacks < FuseLimit
      BY <2>1, <2>3, <3>1, ConstantsOK DEF Current, RuntimeAuto, ProjectedAt, Sound, Ledgers
    <3>3. ledger.last = 0 \/ now - ledger.last >= Cooldown
      BY <2>1, <2>3, <3>1, ConstantsOK DEF Current, RuntimeAuto, ProjectedAt, Sound, Ledgers
    <3>4. Cardinality(Recent(ledger.times)) < MaxPerHour
      <4> DEFINE young == {a \in ledger.times : t - a.at < Hour}
      <4>1. Recent(ledger.times) \subseteq young
        BY <2>1, <3>1, ConstantsOK DEF Recent, Sound, Ledgers
      <4>2. IsFiniteSet(young)
        BY <2>1, FS_Subset DEF Sound
      <4>3. /\ Cardinality(Recent(ledger.times)) \in Nat /\ Cardinality(young) \in Nat
            /\ Cardinality(Recent(ledger.times)) <= Cardinality(young)
        BY <4>1, <4>2, FS_Subset, FS_CardinalityType
      <4>4. Cardinality(young) < MaxPerHour
        BY <2>3, <3>1 DEF Current, RuntimeAuto, ProjectedAt
      <4> HIDE DEF young
      <4> QED
        BY <4>3, <4>4, ConstantsOK
    <3>5. CoolingSame(ledger, i) => outcome[i] # None
      BY DEF CoolingSame, AppliedInv, Decided, Autos
    <3>6. ~Fused(ledger) /\ ~Cooling(ledger)
      BY <2>1, <3>2, <3>3, ConstantsOK DEF Fused, Cooling, Sound, Ledgers
    <3> QED
      BY <2>3, <3>4, <3>5, <3>6 DEF Current, RuntimeAuto, RootAuto, Eligible
  <2> QED
    BY <2>1, <2>2, <2>3 DEF RuntimeIsNotWider
<1> QED
  BY <1>1, AppliedInvariance, PTL

-----------------------------------------------------------------------------
(* One writer of the ledger at a time *)

\* The operator acknowledges the fuse only when the executor does not run: nothing
\* in root_policy_cli.py makes sure of it.
QuietLedger == [do |-> "acknowledge"] \notin Racing

\* Then the executor's copy of the ledger is the file, and the helper's is made of
\* the file.
LEMMA HelperStep ==
  ASSUME QuietLedger, FilesInv, HelperInv, [Next]_vars
  PROVE  HelperInv'
<1>0. TypeOK /\ (helper = Off \/ (helper # Off /\ helper.command \in Commands))
  BY DEF FilesInv, TypeOK
<1>1. pc # "down" => "ledger" \notin helper.left
  BY <1>0 DEF HelperInv, QuietLedger, Off
<1> USE DEF HelperInv, files, history
<1>2. ASSUME UNCHANGED <<ledger, run, helper>>, pc' = "down" <=> pc = "down"
      PROVE  HelperInv'
  BY <1>2
<1>3. CASE (\E i \in Ids : Approve(i)) \/ Recover \/ Claim \/ Begin \/ Commit \/ Fails \/ RolledBack
           \/ Unverified \/ Tick \/ Rest \/ Project \/ UNCHANGED vars
  BY <1>2, <1>3 DEF Approve, Recover, Claim, Begin, Commit, Fails, RolledBack, Unverified, Tick,
                    Rest, Project, vars
<1>4. CASE Start
  BY <1>4 DEF Start, Overlaps
<1>5. CASE Gate
  <2>1. run'.ledger = run.ledger
    BY <1>0, <1>5 DEF Gate, TypeOK, Loaded
  <2> QED
    BY <1>5, <2>1 DEF Gate
<1>6. CASE Settle
  BY <1>6 DEF Settle
<1>7. CASE Crash
  BY <1>7, <1>1 DEF Crash, Off
<1>8. ASSUME NEW l, Write(l), pc # "down", UNCHANGED helper
      PROVE  HelperInv'
  <2>1. ledger' = l /\ run'.ledger = l
    BY <1>0, <1>8, ConstantsOK DEF Write, TypeOK, Loaded
  <2> QED
    BY <1>1, <1>8, <2>1
<1>9. CASE Reconcile
  BY <1>2, <1>8, <1>9 DEF Reconcile, WriteRollback
<1>10. CASE CommitHook
  <2>1. Write(IF claim.id \in Manual THEN run.ledger ELSE RecordApply(run.ledger, claim.id))
        /\ pc = "txn" /\ UNCHANGED helper
    BY <1>10 DEF CommitHook
  <2> QED
    BY <1>8, <2>1
<1>11. CASE RollbackHook
  <2>1. CASE claim.id \in Manual
    BY <1>2, <1>11, <2>1 DEF RollbackHook
  <2>2. CASE claim.id \notin Manual
    BY <1>8, <1>11, <2>2 DEF RollbackHook, WriteRollback
  <2> QED
    BY <2>1, <2>2
<1>12. CASE Bump
  <2>1. run'.ledger = run.ledger
    BY <1>0, <1>12 DEF Bump, TypeOK, Loaded
  <2> QED
    BY <1>12, <2>1 DEF Bump
<1>13. ASSUME NEW c \in Commands, Command(c) PROVE HelperInv'
  <2>1. /\ Writes(c).command = c
        /\ "ledger" \in Writes(c).left => /\ c.do = "acknowledge"
                                          /\ Writes(c).ledger = Acknowledge(ledger)
    BY <1>0, WritesSound DEF FilesInv
  <2>2. c.do = "acknowledge" => c = [do |-> "acknowledge"]
    BY ConstantsOK DEF AllCommands
  <2> QED
    BY <1>13, <2>1, <2>2 DEF Command, Overlaps
<1>14. CASE HelperWrites
  <2>1. UNCHANGED <<pc, run>> /\ helper # Off
    BY <1>14 DEF HelperWrites
  <2>2. CASE Due = "ledger"
    <3>1. "ledger" \in helper.left
      BY <2>2 DEF Due
    <3>2. "ledger" \notin helper'.left /\ pc' = "down"
      BY <1>0, <1>1, <1>14, <2>1, <2>2, <3>1 DEF HelperWrites, TypeOK
    <3> QED
      BY <2>1, <3>2
  <2>3. CASE Due # "ledger"
    <3>1. "ledger" \notin helper.left /\ ledger' = ledger
      BY <1>14, <2>3 DEF HelperWrites, Due
    <3>2. CASE helper' = Off
      BY <2>1, <3>1, <3>2 DEF Off
    <3>3. CASE helper' = [helper EXCEPT !.left = @ \ {Due}]
      BY <1>0, <2>1, <3>1, <3>3 DEF TypeOK
    <3> QED
      BY <1>14, <3>2, <3>3 DEF HelperWrites
  <2> QED
    BY <2>2, <2>3
<1> QED
  BY <1>3, <1>4, <1>6, <1>7, <1>9, <1>10, <1>11, <1>12, <1>13, <1>14, <1>5 DEF Next

-----------------------------------------------------------------------------
(* Outcomes *)

\* What a record changes of the ledger.
LEMMA RecordFields ==
  ASSUME NEW l \in Ledgers, NEW i \in Ids
  PROVE  /\ RecordApply(l, i).applied = l.applied \union {i}
         /\ RecordApply(l, i).rolledBack = l.rolledBack
         /\ RecordRollback(l, i).applied = l.applied
         /\ RecordRollback(l, i).rolledBack = l.rolledBack \union {i}
         /\ RecordRollback(l, i).last = l.last /\ RecordRollback(l, i).times = l.times
         /\ i \notin l.rolledBack => RecordRollback(l, i).rollbacks = l.rollbacks + 1
         /\ i \in l.rolledBack => RecordRollback(l, i).rollbacks = l.rollbacks
         /\ Acknowledge(l).applied = l.applied /\ Acknowledge(l).rolledBack = l.rolledBack
         /\ Acknowledge(l).last = l.last /\ Acknowledge(l).times = l.times
BY DEF RecordApply, RecordRollback, Acknowledge, Ledgers

\* What the helper does to the history of outcomes: nothing.
LEMMA HelperKeepsRecords ==
  ASSUME FilesInv, HelperInv, HelperWrites
  PROVE  /\ ledger'.applied = ledger.applied /\ ledger'.rolledBack = ledger.rolledBack
         /\ ledger'.last = ledger.last /\ ledger'.times = ledger.times
         /\ UNCHANGED <<spool, claim, outcome, pc, run, now, started>>
<1>1. Due = "ledger" => ledger' = Acknowledge(ledger)
  BY DEF HelperWrites, Due, HelperInv
<1>2. ledger \in Ledgers
  BY DEF FilesInv, Sound
<1>3. Due # "ledger" => ledger' = ledger
  BY DEF HelperWrites
<1> HIDE DEF Acknowledge
<1>4. UNCHANGED <<spool, claim, outcome, pc, run, now, started>>
  BY DEF HelperWrites
<1>5. CASE Due = "ledger"
  <2>1. ledger' = Acknowledge(ledger)
    BY <1>1, <1>5
  <2>2. PICK i : i \in Ids \/ Ids = {}
    OBVIOUS
  <2>3. /\ Acknowledge(ledger).applied = ledger.applied
        /\ Acknowledge(ledger).rolledBack = ledger.rolledBack
        /\ Acknowledge(ledger).last = ledger.last /\ Acknowledge(ledger).times = ledger.times
    BY <1>2 DEF Acknowledge, Ledgers
  <2> QED
    BY <1>4, <2>1, <2>3
<1> QED
  BY <1>3, <1>4, <1>5

\* A request has one outcome, and a record one reason.
LEMMA OutcomeStep ==
  ASSUME FilesInv, HelperInv, OutcomeInv, [Next]_vars
  PROVE  OutcomeInv'
<1>0. /\ TypeOK /\ ledger \in Ledgers
      /\ pc # "down" => run.ledger = ledger
      /\ claim # None => claim.id \in Ids
      /\ outcome \in [Ids -> Outcomes \union {None}]
      /\ ledger.applied \subseteq Ids /\ ledger.rolledBack \subseteq Ids /\ Autos \subseteq Ids
      /\ pc \in {"down", "claim", "settle"} \/ claim # None
  BY DEF FilesInv, TypeOK, Sound, Ledgers, Requests, HelperInv, Autos
<1> USE <1>0, ConstantsOK DEF OutcomeInv, files, history, OpenAt, FailAt, Outcomes
<1>1. CASE (\E i \in Ids : Approve(i)) \/ Tick \/ Rest \/ UNCHANGED vars
           \/ (\E c \in Commands : Command(c))
  BY <1>1 DEF Approve, Tick, Rest, Command, vars
<1>2. CASE Start
  BY <1>2 DEF Start, Overlaps
<1>3. CASE Recover
  <2>1. PICK S \in SUBSET Unsettled :
          outcome' = [i \in Ids |-> IF i \in S THEN "rolledBack"
                                    ELSE IF i \in Unsettled THEN "unverified" ELSE outcome[i]]
    BY <1>3 DEF Recover
  <2>2. /\ \A i \in Ids : /\ outcome'[i] \notin {"open", "failing"}
                          /\ outcome'[i] = outcome[i]
                               \/ /\ outcome[i] \in {"open", "failing", "unverified"}
                                  /\ outcome'[i] \in {"rolledBack", "unverified"}
        /\ pc' = "reconcile" /\ UNCHANGED <<ledger, claim>>
    BY <1>3, <2>1 DEF Recover, Unsettled
  <2> QED
    BY <2>2
<1>4. CASE Claim
  BY <1>4 DEF Claim
<1>5. CASE Gate
  BY <1>5 DEF Gate
<1>6. CASE Begin
  BY <1>6 DEF Begin, Outcome
<1>7. CASE Unverified
  BY <1>7 DEF Unverified, Outcome
<1>8. CASE Commit
  BY <1>8 DEF Commit, Outcome
<1>9. CASE Fails
  BY <1>9 DEF Fails, Outcome
<1>10. CASE RolledBack
  BY <1>10 DEF RolledBack, Outcome
<1>11. CASE Bump
  BY <1>11 DEF Bump
<1>12. CASE Project \/ Settle
  BY <1>12 DEF Project, Settle
<1>13. CASE Crash
  BY <1>13 DEF Crash
<1>14. CASE HelperWrites
  BY <1>14, HelperKeepsRecords
<1>15. CASE CommitHook
  <2>1. /\ UNCHANGED <<claim, outcome>> /\ pc = "txn" /\ pc' = "commit"
        /\ ledger' = IF claim.id \in Manual THEN ledger ELSE RecordApply(ledger, claim.id)
    BY <1>15 DEF CommitHook, Write
  <2>2. \/ ledger'.applied = ledger.applied /\ claim.id \notin Autos
        \/ ledger'.applied = ledger.applied \union {claim.id} /\ claim.id \in Autos
    BY <2>1, RecordFields DEF Autos
  <2>3. ledger'.rolledBack = ledger.rolledBack
    BY <2>1, RecordFields
  <2> QED
    BY <2>1, <2>2, <2>3, ConstantsOK
<1>16. CASE RollbackHook
  <2>1. /\ UNCHANGED <<claim, outcome>> /\ pc = "rollback" /\ pc' \in {"bump", "rolledBack"}
        /\ ledger' = IF claim.id \in Manual THEN ledger ELSE RecordRollback(ledger, claim.id)
    BY <1>16 DEF RollbackHook, WriteRollback, Write
  <2>2. \/ ledger'.rolledBack = ledger.rolledBack
        \/ ledger'.rolledBack = ledger.rolledBack \union {claim.id} /\ claim.id \in Autos
    BY <2>1, RecordFields DEF Autos
  <2>3. ledger'.applied = ledger.applied
    BY <2>1, RecordFields
  <2> QED
    BY <2>1, <2>2, <2>3
<1>17. CASE Reconcile
  <2>1. pc = "reconcile" /\ UNCHANGED outcome
        /\ pc' \in {"claim", "start", "settle", "reconcile", "bump"}
        /\ (pc' = "claim" \/ UNCHANGED claim)
    BY <1>17 DEF Reconcile, WriteRollback
  <2>2. pc' = "start" => run.gated /\ run' = run
    <3>1. CASE Unrecorded = {}
      BY <1>17, <3>1 DEF Reconcile
    <3>2. CASE Unrecorded # {}
      BY <1>17, <2>1, <3>2 DEF Reconcile, WriteRollback
    <3> QED
      BY <3>1, <3>2
  <2>3. \A i \in Ids : outcome[i] \notin {"open", "failing"}
    BY <2>1
  <2>4. \/ UNCHANGED ledger
        \/ \E i \in Unrecorded :
              \/ outcome[i] = "committed" /\ ledger' = RecordApply(ledger, i)
              \/ /\ outcome[i] \in {"rolledBack", "unverified"}
                 /\ ledger' = RecordRollback(ledger, i)
    BY <1>17, <2>1 DEF Reconcile, Unrecorded, WriteRollback, Write
  <2>5. \/ ledger'.applied = ledger.applied /\ ledger'.rolledBack = ledger.rolledBack
        \/ \E i \in Autos : /\ outcome[i] = "committed"
                            /\ ledger'.applied = ledger.applied \union {i}
                            /\ ledger'.rolledBack = ledger.rolledBack
        \/ \E i \in Autos : /\ outcome[i] \in {"rolledBack", "unverified"}
                            /\ ledger'.applied = ledger.applied
                            /\ ledger'.rolledBack = ledger.rolledBack \union {i}
    BY <2>4, RecordFields DEF Unrecorded, Autos
  <2> QED
    BY <2>1, <2>3, <2>5, <2>2, ConstantsOK
<1> QED
  BY <1>1, <1>2, <1>3, <1>4, <1>5, <1>8, <1>9, <1>10, <1>11, <1>12, <1>13, <1>14, <1>15, <1>16, <1>17,
     <1>6, <1>7 DEF Next

-----------------------------------------------------------------------------
(* The fuse *)

\* A failure that is counted now moves from those to be counted to those counted.
LEMMA CountOne ==
  ASSUME IsFiniteSet(failed), NEW l \in Ledgers, NEW i \in Ids,
         Cardinality(failed \intersect l.rolledBack) <= l.rollbacks
  PROVE  /\ Cardinality(failed \intersect RecordRollback(l, i).rolledBack)
              <= RecordRollback(l, i).rollbacks
         /\ RecordRollback(l, i).rolledBack = l.rolledBack \union {i}
<1>1. /\ RecordRollback(l, i).rolledBack = l.rolledBack \union {i}
      /\ i \notin l.rolledBack => RecordRollback(l, i).rollbacks = l.rollbacks + 1
      /\ i \in l.rolledBack => RecordRollback(l, i).rollbacks = l.rollbacks
      /\ l.rollbacks \in Nat
  BY RecordFields DEF Ledgers
<1> DEFINE old == failed \intersect l.rolledBack
           new == failed \intersect (l.rolledBack \union {i})
<1>2. IsFiniteSet(old) /\ Cardinality(old) \in Nat /\ Cardinality(old) <= l.rollbacks
  BY FS_Subset, FS_CardinalityType
<1>3. CASE i \in l.rolledBack
  <2>1. new = old
    BY <1>3
  <2> QED
    BY <1>1, <1>3, <2>1
<1>4. CASE i \notin l.rolledBack
  <2>1. Cardinality(old \union {i}) = Cardinality(old) + 1
    BY <1>2, <1>4, FS_AddElement
  <2>2. new = old \/ new = old \union {i}
    OBVIOUS
  <2>3. Cardinality(new) = Cardinality(old) \/ Cardinality(new) = Cardinality(old) + 1
    BY <2>1, <2>2
  <2> HIDE DEF old, new
  <2>4. Cardinality(new) <= l.rollbacks + 1
    BY <1>1, <1>2, <2>3
  <2> QED
    BY <1>1, <1>4, <2>4 DEF new
<1> QED
  BY <1>3, <1>4

\* A failure joins the row, uncounted.
LEMMA NewFailure ==
  ASSUME FilesInv, OutcomeInv, CountInv, claim # None, outcome[claim.id] = "open",
         failed' = Failed(claim.id), UNCHANGED ledger
  PROVE  /\ failed' \subseteq Autos /\ IsFiniteSet(failed')
         /\ Cardinality(failed' \intersect ledger'.rolledBack) <= ledger'.rollbacks
         /\ failed' \subseteq failed \union {claim.id}
<1>1. claim.id \in Ids /\ claim.id \notin ledger.rolledBack
  BY DEF FilesInv, TypeOK, Requests, OutcomeInv
<1>2. failed' \intersect ledger'.rolledBack = failed \intersect ledger.rolledBack
  BY <1>1 DEF Failed
<1>3. IsFiniteSet(failed')
  BY FS_AddElement DEF Failed, CountInv
<1> QED
  BY <1>1, <1>2, <1>3 DEF Failed, CountInv, Autos

\* The ledger counts at least the failures of the row that it knows of, and what it
\* does not know of yet comes before the next change.
LEMMA CountStep ==
  ASSUME FilesInv, HelperInv, OutcomeInv, CountInv, [Next]_vars
  PROVE  CountInv'
<1>0. /\ TypeOK /\ ledger \in Ledgers
      /\ pc # "down" => run.ledger = ledger
      /\ claim # None => claim.id \in Ids
      /\ outcome \in [Ids -> Outcomes \union {None}]
      /\ pc \in {"down", "claim", "settle"} \/ claim # None
  BY DEF FilesInv, TypeOK, Sound, Requests, HelperInv
<1>1. /\ failed \subseteq Autos /\ IsFiniteSet(failed)
      /\ Cardinality(failed \intersect ledger.rolledBack) <= ledger.rollbacks
      /\ \A i \in failed \ ledger.rolledBack : ToCount(i)
      /\ Autos \subseteq Ids
  BY DEF CountInv, Autos
<1> USE DEF files, history, Outcomes
<1>2. ASSUME UNCHANGED <<failed, ledger>>, \A i \in failed \ ledger.rolledBack : ToCount(i)'
      PROVE  CountInv'
  BY <1>1, <1>2 DEF CountInv
<1>3. CASE (\E i \in Ids : Approve(i)) \/ Tick \/ Rest \/ UNCHANGED vars
           \/ (\E c \in Commands : Command(c))
  <2>1. UNCHANGED <<failed, ledger, outcome, claim, pc>>
    BY <1>3 DEF Approve, Tick, Rest, Command, vars
  <2> QED
    BY <1>1, <1>2, <2>1 DEF ToCount
<1>4. CASE Start \/ Claim \/ Gate
  BY <1>0, <1>1, <1>2, <1>4 DEF Start, Claim, Gate, ToCount
<1>5. CASE Begin
  BY <1>0, <1>1, <1>2, <1>5, ConstantsOK DEF Begin, Outcome, ToCount
<1>6. CASE Commit
  BY <1>0, <1>1, <1>2, <1>6 DEF Commit, Outcome, ToCount, OutcomeInv
<1>7. CASE RolledBack \/ Unverified
  BY <1>0, <1>1, <1>2, <1>7 DEF RolledBack, Unverified, Outcome, ToCount, OutcomeInv
<1>8. CASE Bump \/ Project \/ Settle
  BY <1>0, <1>1, <1>2, <1>8 DEF Bump, Project, Settle, ToCount
<1>9. CASE Crash
  BY <1>0, <1>1, <1>2, <1>9 DEF Crash, ToCount
<1>10. CASE Fails
  <2>1. claim # None /\ outcome[claim.id] = "open" /\ pc = "txn"
    BY <1>0, <1>10 DEF Fails, OutcomeInv
  <2>2. /\ failed' = Failed(claim.id) /\ UNCHANGED <<ledger, claim>> /\ pc' = "rollback"
        /\ outcome' = [outcome EXCEPT ![claim.id] = "failing"]
    BY <1>0, <1>10, <2>1 DEF Fails, Outcome
  <2>3. \A i \in failed \ ledger.rolledBack : i # claim.id /\ outcome[i] = "unverified"
    BY <1>1, <2>1 DEF ToCount
  <2>4. \A i \in failed' \ ledger.rolledBack : ToCount(i)'
    BY <1>0, <1>1, <2>1, <2>2, <2>3 DEF ToCount, Failed
  <2> QED
    BY <2>1, <2>2, <2>4, NewFailure DEF CountInv
<1>11. CASE Recover
  <2>1. /\ pc = "recover" /\ claim # None /\ UNCHANGED <<ledger, claim>> /\ pc' = "reconcile"
        /\ failed' = failed \union {i \in Autos : outcome[i] = "open"}
    BY <1>0, <1>11 DEF Recover
  <2>2. \A i \in Ids :
          /\ outcome[i] \in {"open", "failing", "unverified"}
               => outcome'[i] \in {"rolledBack", "unverified"}
          /\ outcome[i] = "rolledBack" => outcome'[i] = "rolledBack"
    BY <1>0, <1>11 DEF Recover, Unsettled
  <2>3. \A i \in failed' \ ledger.rolledBack :
          i \in Ids /\ outcome[i] \in {"open", "failing", "unverified", "rolledBack"}
    BY <1>1, <2>1 DEF ToCount
  <2>4. \A i \in failed' \ ledger.rolledBack : ToCount(i)'
    <3>1. claim' # None /\ pc' = "reconcile"
      BY <2>1
    <3>2. ASSUME NEW i \in failed' \ ledger.rolledBack
          PROVE  outcome'[i] \in {"rolledBack", "unverified"}
      <4>1. i \in Ids /\ outcome[i] \in {"open", "failing", "unverified", "rolledBack"}
        BY <2>3
      <4> QED
        BY <2>2, <4>1
    <3> QED
      BY <3>1, <3>2 DEF ToCount
  <2>5. CASE outcome[claim.id] = "open" /\ claim.id \in Autos
    <3>1. failed' = Failed(claim.id)
      BY <1>0, <1>1, <2>1, <2>5 DEF Failed, OutcomeInv, Autos
    <3> QED
      BY <2>1, <2>4, <2>5, <3>1, NewFailure DEF CountInv
  <2>6. CASE ~(outcome[claim.id] = "open" /\ claim.id \in Autos)
    <3>1. failed' = failed
      BY <1>0, <1>1, <2>1, <2>6 DEF OutcomeInv
    <3> QED
      BY <1>2, <2>1, <2>4, <3>1
  <2> QED
    BY <2>5, <2>6
<1>12. CASE CommitHook
  <2>1. /\ UNCHANGED <<claim, outcome>> /\ pc = "txn" /\ pc' = "commit"
        /\ failed' = IF claim.id \in Manual THEN failed ELSE {}
        /\ ledger' = IF claim.id \in Manual THEN ledger ELSE RecordApply(ledger, claim.id)
    BY <1>0, <1>12 DEF CommitHook, Write
  <2>2. \A i \in failed \ ledger.rolledBack : ToCount(i)'
    BY <1>1, <2>1 DEF ToCount
  <2>3. CASE claim.id \in Manual
    BY <1>2, <2>1, <2>2, <2>3
  <2>4. CASE claim.id \notin Manual
    <3>1. ledger' \in Ledgers
      BY <1>0, <2>1, <2>4, RecordApplySound DEF FilesInv, TypeOK, Sound
    <3>2. failed' \intersect ledger'.rolledBack = {} /\ failed' = {}
      BY <2>1, <2>4
    <3>3. ledger'.rollbacks \in Nat
      BY <3>1 DEF Ledgers
    <3> QED
      BY <3>2, <3>3, FS_EmptySet DEF CountInv
  <2> QED
    BY <2>3, <2>4
<1>13. ASSUME NEW i \in Ids, ledger' = RecordRollback(ledger, i), UNCHANGED failed,
              \A j \in failed \ ledger.rolledBack : j = i \/ ToCount(j)'
       PROVE  CountInv'
  <2>1. /\ Cardinality(failed \intersect ledger'.rolledBack) <= ledger'.rollbacks
        /\ ledger'.rolledBack = ledger.rolledBack \union {i}
    BY <1>0, <1>1, <1>13, CountOne
  <2> QED
    BY <1>1, <1>13, <2>1 DEF CountInv
<1>14. CASE RollbackHook
  <2>1. /\ pc = "rollback" /\ UNCHANGED <<failed, claim, outcome>>
        /\ pc' \in {"bump", "rolledBack"} /\ outcome[claim.id] = "failing" /\ claim.id \in Ids
    BY <1>0, <1>14 DEF RollbackHook, WriteRollback, OutcomeInv
  <2>2. \A j \in failed \ ledger.rolledBack : j = claim.id \/ ToCount(j)'
    BY <1>1, <2>1 DEF ToCount
  <2>3. CASE claim.id \in Manual
    <3>1. UNCHANGED ledger /\ claim.id \notin failed
      BY <1>1, <1>14, <2>3 DEF RollbackHook, Autos
    <3> QED
      BY <1>2, <2>1, <2>2, <3>1
  <2>4. CASE claim.id \notin Manual
    <3>1. ledger' = RecordRollback(ledger, claim.id)
      BY <1>0, <1>14, <2>4 DEF RollbackHook, WriteRollback, Write
    <3> QED
      BY <1>13, <2>1, <2>2, <3>1
  <2> QED
    BY <2>3, <2>4
<1>15. CASE Reconcile
  <2>1. /\ pc = "reconcile" /\ UNCHANGED <<outcome, failed>> /\ claim # None /\ claim.id \in Ids
        /\ \A i \in Ids : outcome[i] \notin {"open", "failing"}
    BY <1>0, <1>15 DEF Reconcile, OutcomeInv, OpenAt, FailAt
  <2>2. \A i \in failed \ ledger.rolledBack : i \in Unrecorded
    BY <1>0, <1>1, <2>1 DEF ToCount, Unrecorded
  <2>3. CASE Unrecorded = {}
    BY <1>2, <1>15, <2>1, <2>2, <2>3 DEF Reconcile
  <2>4. CASE Unrecorded # {}
    <3>1. PICK i \in Unrecorded :
            IF outcome[i] = "committed"
              THEN Write(RecordApply(run.ledger, i)) /\ UNCHANGED pc
              ELSE WriteRollback(i, "reconcile")
      BY <1>15, <2>4 DEF Reconcile
    <3>2. i \in Ids /\ UNCHANGED claim
      BY <1>15, <2>4 DEF Reconcile, Unrecorded, Autos
    <3>3. CASE outcome[i] # "committed"
      <4>1. ledger' = RecordRollback(ledger, i) /\ pc' \in {"bump", "reconcile"}
        BY <1>0, <2>1, <3>1, <3>3 DEF WriteRollback, Write
      <4>2. \A j \in failed \ ledger.rolledBack : ToCount(j)'
        BY <1>1, <2>1, <3>2, <4>1 DEF ToCount
      <4> QED
        BY <1>13, <2>1, <3>2, <4>1, <4>2
    <3>4. CASE outcome[i] = "committed"
      BY <1>0, <2>1, <3>1, <3>4 DEF OutcomeInv, Unrecorded
    <3> QED
      BY <3>3, <3>4
  <2> QED
    BY <2>3, <2>4
<1>16. CASE HelperWrites
  <2>1. /\ ledger'.rolledBack = ledger.rolledBack /\ UNCHANGED <<claim, outcome, pc>>
        /\ ledger' \in Ledgers
    BY <1>16, HelperKeepsRecords, FilesStep DEF Next, FilesInv, Sound
  <2>2. CASE Due = "ledger"
    <3>1. failed' = {}
      BY <1>16, <2>2 DEF HelperWrites
    <3>2. failed' \intersect ledger'.rolledBack = {} /\ ledger'.rollbacks \in Nat
      BY <2>1, <3>1 DEF Ledgers
    <3> QED
      BY <3>1, <3>2, FS_EmptySet DEF CountInv
  <2>3. CASE Due # "ledger"
    <3>1. UNCHANGED <<failed, ledger>>
      BY <1>16, <2>3 DEF HelperWrites
    <3> QED
      BY <1>1, <1>2, <2>1, <3>1 DEF ToCount
  <2> QED
    BY <2>2, <2>3
<1> QED
  BY <1>3, <1>4, <1>5, <1>6, <1>7, <1>9, <1>10, <1>11, <1>12, <1>14, <1>15, <1>16, <1>8 DEF Next

\* The executor's records leave what its run has asked.
LEMMA WriteKeepsGate ==
  ASSUME TypeOK, pc # "down", NEW l, Write(l)
  PROVE  run'.gated = run.gated /\ run'.met = run.met /\ run'.ledger = l
BY ConstantsOK DEF Write, TypeOK, Loaded

\* From the gate to the change the row grows by nothing that was not met.
LEMMA FuseStep ==
  ASSUME FilesInv, HelperInv, OutcomeInv, FuseInv, [Next]_vars
  PROVE  FuseInv'
<1>0. /\ TypeOK /\ ledger \in Ledgers /\ CountInv
      /\ pc # "down" => run.ledger = ledger /\ run \in Loaded
      /\ claim # None => claim.id \in Ids
      /\ outcome \in [Ids -> Outcomes \union {None}]
      /\ pc \in {"down", "claim", "settle"} \/ claim # None
      /\ Asked /\ claim.id \in Autos => Cardinality(failed \ run.met) < FuseLimit
  BY DEF FilesInv, TypeOK, Sound, Requests, HelperInv, FuseInv
<1>1. CountInv'
  BY <1>0, CountStep
<1> USE DEF files, history, Outcomes
<1>2. SUFFICES ASSUME Asked', claim'.id \in Autos
               PROVE  Cardinality(failed' \ run'.met) < FuseLimit
  BY <1>1 DEF FuseInv
<1>3. ASSUME Asked, UNCHANGED <<claim, failed>>, run'.met = run.met
      PROVE  Cardinality(failed' \ run'.met) < FuseLimit
  BY <1>0, <1>2, <1>3
<1>4. CASE (\E i \in Ids : Approve(i)) \/ Tick \/ Rest \/ UNCHANGED vars
           \/ (\E c \in Commands : Command(c))
  <2>1. UNCHANGED <<failed, outcome, claim, pc, run>>
    BY <1>4 DEF Approve, Tick, Rest, Command, vars
  <2> QED
    BY <1>2, <1>3, <2>1 DEF Asked
<1>5. CASE Start \/ Claim \/ Begin \/ CommitHook \/ Commit \/ Fails \/ RolledBack \/ Unverified
           \/ Project \/ Settle \/ Crash
  BY <1>0, <1>2, <1>3, <1>5
     DEF Start, Claim, Begin, CommitHook, Commit, Fails, RolledBack, Unverified, Project, Settle,
         Crash, Asked
<1>6. CASE Gate
  <2>1. pc = "gate" /\ Allowed /\ claim.id \notin Manual /\ UNCHANGED failed
    BY <1>2, <1>6 DEF Gate, Asked, Autos
  <2>2. run'.met = Unsettled
    BY <1>0, <1>6, <2>1 DEF Gate, Loaded
  <2>3. ledger.rollbacks < FuseLimit /\ ledger.rollbacks \in Nat
    BY <1>0, <2>1, ConstantsOK DEF Allowed, RootAuto, Eligible, Fused, Ledgers
  <2>4. failed \ Unsettled \subseteq failed \intersect ledger.rolledBack
    BY <1>0, <2>1 DEF CountInv, ToCount, Unsettled, Autos
  <2>5. /\ IsFiniteSet(failed \intersect ledger.rolledBack)
        /\ Cardinality(failed \intersect ledger.rolledBack) <= ledger.rollbacks
    BY <1>0, FS_Subset DEF CountInv
  <2>6. /\ Cardinality(failed \ Unsettled) <= Cardinality(failed \intersect ledger.rolledBack)
        /\ Cardinality(failed \ Unsettled) \in Nat
        /\ Cardinality(failed \intersect ledger.rolledBack) \in Nat
    BY <2>4, <2>5, FS_Subset, FS_CardinalityType
  <2> QED
    BY <2>1, <2>2, <2>3, <2>5, <2>6, ConstantsOK
<1>7. CASE Recover
  <2>1. pc = "recover" /\ run' = run /\ UNCHANGED claim
    BY <1>7 DEF Recover
  <2>2. \A i \in Ids : outcome[i] # "open"
    BY <1>2, <2>1 DEF Asked, OutcomeInv
  <2>3. failed' = failed
    BY <1>7, <2>2 DEF Recover, Autos
  <2> QED
    BY <1>2, <1>3, <2>1, <2>3 DEF Asked
<1>8. CASE Reconcile
  <2>1. pc = "reconcile" /\ UNCHANGED <<failed, outcome>> /\ claim # None
    BY <1>0, <1>8 DEF Reconcile
  <2>2. run'.gated = run.gated /\ run'.met = run.met
    <3>1. UNCHANGED run \/ \E l : Write(l)
      BY <1>8 DEF Reconcile, WriteRollback
    <3> QED
      BY <1>0, <2>1, <3>1, WriteKeepsGate
  <2>3. claim' = claim
    BY <1>2, <1>8, <2>1, <2>2 DEF Reconcile, Asked
  <2> QED
    BY <1>2, <1>3, <2>1, <2>2, <2>3 DEF Asked
<1>9. CASE RollbackHook
  BY <1>2, <1>9 DEF RollbackHook, WriteRollback, Asked, OutcomeInv
<1>10. CASE Bump
  <2>1. pc = "bump" /\ UNCHANGED <<failed, outcome, claim>> /\ outcome[claim.id] # "failing"
    BY <1>2, <1>10 DEF Bump, Asked
  <2>2. run'.gated = run.gated /\ run'.met = run.met
    BY <1>0, <1>10, <2>1 DEF Bump, Loaded
  <2> QED
    BY <1>2, <1>3, <2>1, <2>2 DEF Asked
<1>11. CASE HelperWrites
  <2>1. UNCHANGED <<outcome, claim, pc, run>>
    BY <1>11 DEF HelperWrites
  <2>2. CASE Due = "ledger"
    <3>1. failed' \ run'.met = {}
      BY <1>11, <2>2 DEF HelperWrites
    <3> QED
      BY <3>1, FS_EmptySet, ConstantsOK
  <2>3. CASE Due # "ledger"
    BY <1>2, <1>3, <1>11, <2>1, <2>3 DEF HelperWrites, Asked
  <2> QED
    BY <2>2, <2>3
<1> QED
  BY <1>4, <1>5, <1>6, <1>7, <1>8, <1>9, <1>10, <1>11 DEF Next

-----------------------------------------------------------------------------
(* Cooldown and rate *)

\* A record as applied keeps what the others rest on, and adds its own.
LEMMA RecordsKept ==
  ASSUME ledger \in Ledgers, started \in [Ids -> Nat], now \in Nat, NEW j \in Ids, NEW i \in Ids,
         started[i] <= now, ledger' = RecordApply(ledger, j), UNCHANGED <<started, now>>,
         Recorded(i) \/ (i = j /\ j \notin ledger.applied)
  PROVE  Recorded(i)'
<1>1. CASE j \in ledger.applied
  BY <1>1 DEF RecordApply, Recorded
<1>2. CASE j \notin ledger.applied
  <2> DEFINE new == [id |-> j, at |-> now]
  <2>1. ledger'.last = now /\ ledger'.times = Recent(ledger.times) \union {new}
    BY <1>2 DEF RecordApply, Ledgers
  <2>2. CASE i = j
    <3>1. new \in ledger'.times /\ new.id = i /\ new.at = now
      BY <2>1, <2>2
    <3> QED
      BY <2>1, <3>1 DEF Recorded
  <2>3. CASE Recorded(i)
    <3>1. CASE started[i] + Hour <= now
      BY <2>1, <3>1 DEF Recorded
    <3>2. ASSUME NEW a \in ledger.times, a.id = i, started[i] <= a.at
          PROVE  Recorded(i)'
      <4>1. a.at \in Nat /\ Hour \in Nat /\ started[i] \in Nat
        BY ConstantsOK DEF Ledgers
      <4>2. now - a.at < Hour => a \in ledger'.times
        BY <2>1 DEF Recent
      <4>3. ~(now - a.at < Hour) => started[i] + Hour <= now
        BY <3>2, <4>1
      <4> QED
        BY <2>1, <3>2, <4>2, <4>3 DEF Recorded
    <3> QED
      BY <2>3, <3>1, <3>2 DEF Recorded
  <2> QED
    BY <1>2, <2>2, <2>3
<1> QED
  BY <1>1, <1>2

\* What the gate lets start keeps its distance from all that is committed, and
\* fills no window.
LEMMA StartKeepsLimits ==
  ASSUME ledger \in Ledgers, IsFiniteSet(ledger.times), now \in Nat, now > 0,
         started \in [Ids -> Nat], NEW i \in Ids, Eligible(ledger, i),
         \A j \in Live : Recorded(j) /\ started[j] > 0 /\ j # i
  PROVE  MayStart(i)
<1>0. Live \subseteq Ids
  BY DEF Live, Autos
<1>1. /\ ledger.last \in Nat /\ Cooldown \in Nat /\ Hour \in Nat /\ MaxPerHour \in Nat
      /\ ledger.times \subseteq [id : Ids, at : Nat]
  BY ConstantsOK DEF Ledgers
<1>2. ASSUME NEW j \in Live PROVE started[j] + Cooldown <= now
  <2>1. started[j] \in Nat /\ started[j] > 0 /\ started[j] <= ledger.last
    BY <1>0 DEF Recorded
  <2>2. ledger.last = 0 \/ now - ledger.last >= Cooldown
    BY <1>1 DEF Eligible, Cooling
  <2> QED
    BY <1>1, <2>1, <2>2
<1>3. ASSUME NEW S \in SUBSET Live, Cardinality(S \union {i}) > MaxPerHour,
             \A j \in S : ~(started[j] + Hour <= now)
      PROVE  FALSE
  <2> DEFINE young == Recent(ledger.times)
             ids == {a.id : a \in young}
  <2>1. IsFiniteSet(young) /\ Cardinality(young) < MaxPerHour
    BY FS_Subset DEF Eligible, Recent
  <2>2. S \subseteq ids
    <3>1. ASSUME NEW j \in S PROVE j \in ids
      <4>1. j \in Live /\ started[j] \in Nat
        BY <1>0
      <4>2. PICK a \in ledger.times : a.id = j /\ started[j] <= a.at
        BY <1>3, <4>1 DEF Recorded
      <4>3. now - a.at < Hour
        BY <1>1, <1>3, <4>1, <4>2
      <4> QED
        BY <4>2, <4>3 DEF Recent
    <3> QED
      BY <3>1
  <2>3. IsFiniteSet(ids) /\ Cardinality(ids) <= Cardinality(young)
    <3> DEFINE name == [a \in young |-> a.id]
    <3>1. name \in Surjection(young, ids)
      BY DEF Surjection
    <3> QED
      BY <2>1, <3>1, FS_Surjection
  <2>4. /\ IsFiniteSet(S) /\ Cardinality(S) <= Cardinality(ids)
        /\ Cardinality(S) \in Nat /\ Cardinality(ids) \in Nat /\ Cardinality(young) \in Nat
    BY <2>1, <2>2, <2>3, FS_Subset, FS_CardinalityType
  <2>5. Cardinality(S \union {i}) = Cardinality(S) + 1
    <3>1. i \notin S
      OBVIOUS
    <3> QED
      BY <2>4, <3>1, FS_AddElement
  <2> HIDE DEF young, ids
  <2> QED
    BY <1>1, <1>3, <2>1, <2>3, <2>4, <2>5
<1> QED
  BY <1>2, <1>3 DEF MayStart

\* No record that the limits rest on is lost.
LEMMA RecordedStep ==
  ASSUME FilesInv, HelperInv, OutcomeInv, RateInv, [Next]_vars, NEW i \in Autos, Recorded(i),
         started'[i] = started[i]
  PROVE  Recorded(i)'
<1>0. /\ ledger \in Ledgers /\ now \in Nat /\ now' \in Nat /\ now <= now'
      /\ started \in [Ids -> Nat] /\ started[i] <= now /\ i \in Ids
      /\ pc # "down" => run.ledger = ledger
      /\ pc \in {"txn", "rollback"} => claim.id \in Ids
  BY RequestTypes DEF FilesInv, TypeOK, Sound, Requests, HelperInv, RateInv, Autos
<1>1. ASSUME ledger'.times = ledger.times, ledger'.last = ledger.last PROVE Recorded(i)'
  BY <1>0, <1>1, ConstantsOK DEF Recorded
<1>2. ASSUME NEW j \in Ids, ledger' = RecordApply(ledger, j), UNCHANGED <<started, now>>
      PROVE  Recorded(i)'
  BY <1>0, <1>2, RecordsKept
<1>3. ASSUME NEW j \in Ids, ledger' = RecordRollback(ledger, j) PROVE Recorded(i)'
  BY <1>0, <1>1, <1>3, RecordFields
<1>4. CASE CommitHook
  <2>1. CASE claim.id \in Manual
    BY <1>0, <1>1, <1>4, <2>1 DEF CommitHook, Write
  <2>2. CASE claim.id \notin Manual
    BY <1>0, <1>2, <1>4, <2>2 DEF CommitHook, Write
  <2> QED
    BY <2>1, <2>2
<1>5. CASE RollbackHook
  <2>1. CASE claim.id \in Manual
    BY <1>1, <1>5, <2>1 DEF RollbackHook
  <2>2. CASE claim.id \notin Manual
    BY <1>0, <1>3, <1>5, <2>2 DEF RollbackHook, WriteRollback, Write
  <2> QED
    BY <2>1, <2>2
<1>6. CASE Reconcile
  <2>1. CASE Unrecorded = {}
    BY <1>1, <1>6, <2>1 DEF Reconcile
  <2>2. CASE Unrecorded # {}
    <3>1. PICK j \in Unrecorded :
            IF outcome[j] = "committed"
              THEN Write(RecordApply(run.ledger, j)) /\ UNCHANGED pc
              ELSE WriteRollback(j, "reconcile")
      BY <1>6, <2>2 DEF Reconcile
    <3>2. j \in Ids /\ pc = "reconcile" /\ UNCHANGED <<started, now>>
      BY <1>6 DEF Reconcile, Unrecorded, Autos, history
    <3>3. ledger' = RecordApply(ledger, j) \/ ledger' = RecordRollback(ledger, j)
      BY <1>0, <3>1, <3>2 DEF WriteRollback, Write
    <3> QED
      BY <1>2, <1>3, <3>2, <3>3
  <2> QED
    BY <2>1, <2>2
<1>7. CASE HelperWrites
  BY <1>1, <1>7, HelperKeepsRecords
<1>8. CASE (\E k \in Ids : Approve(k)) \/ Start \/ Recover \/ Claim \/ Gate \/ Commit \/ Fails \/ Bump
           \/ RolledBack \/ Begin \/ Unverified \/ Project \/ Settle \/ Tick \/ Crash \/ Rest
           \/ UNCHANGED vars \/ (\E c \in Commands : Command(c))
  BY <1>1, <1>8 DEF Approve, Start, Recover, Claim, Gate, Begin, Commit, Fails, Bump, RolledBack,
     Unverified, Project, Settle, Tick, Crash, Rest, Command, vars, files, history
<1> QED
  BY <1>4, <1>5, <1>6, <1>7, <1>8 DEF Next

\* Once the gate has let a request through, the recovery gate and the clock only
\* leave it more room.
LEMMA MayStartStep ==
  ASSUME FilesInv, HelperInv, OutcomeInv, RateInv, [Next]_vars,
         Asked', claim'.id \in Autos, outcome'[claim'.id] = None
  PROVE  MayStart(claim.id)'
<1>0. /\ TypeOK /\ ledger \in Ledgers /\ IsFiniteSet(ledger.times)
      /\ now \in Nat /\ now' \in Nat /\ now <= now' /\ now > 0
      /\ pc # "down" => run.ledger = ledger /\ run \in Loaded
      /\ outcome \in [Ids -> Outcomes \union {None}]
      /\ Autos \subseteq Ids
      /\ pc \in {"down", "claim", "settle"} \/ claim # None
      /\ claim # None => claim.id \in Ids
      /\ started \in [Ids -> Nat]
  BY RequestTypes DEF FilesInv, TypeOK, Sound, Requests, HelperInv, Autos, RateInv
<1> USE DEF files, history, Outcomes
<1>1. ASSUME MayStart(claim.id), UNCHANGED <<claim, started>>, Live' \subseteq Live
      PROVE  MayStart(claim.id)'
  <2>1. \A j \in Live : started[j] \in Nat
    BY <1>0 DEF Live
  <2>2. \A j \in Live' : started'[j] + Cooldown <= now'
    BY <1>0, <1>1, <2>1, ConstantsOK DEF MayStart
  <2>3. ASSUME NEW S \in SUBSET Live', Cardinality(S \union {claim'.id}) > MaxPerHour
        PROVE  \E j \in S : started'[j] + Hour <= now'
    <3>1. PICK j \in S : started[j] + Hour <= now
      BY <1>1, <2>3 DEF MayStart
    <3> QED
      BY <1>0, <1>1, <2>1, <3>1, ConstantsOK
  <2> QED
    BY <2>2, <2>3 DEF MayStart
<1>2. ASSUME Asked, UNCHANGED <<claim, started, outcome>> PROVE MayStart(claim.id)'
  BY <1>1, <1>2 DEF RateInv, Live
<1>3. CASE (\E i \in Ids : Approve(i)) \/ Tick \/ Rest \/ UNCHANGED vars \/ HelperWrites
           \/ (\E c \in Commands : Command(c))
  <2>1. UNCHANGED <<started, outcome, claim, pc, run>>
    BY <1>3 DEF Approve, Tick, Rest, HelperWrites, Command, vars
  <2> QED
    BY <1>2, <2>1 DEF Asked
<1>4. CASE Start \/ Claim \/ Begin \/ CommitHook \/ Commit \/ Fails \/ RolledBack \/ Unverified
           \/ Project \/ Settle
  <2>1. pc' \in {"claim", "settle", "gate", "txn", "project", "commit", "rollback", "down"}
        \/ ~run'.gated
    BY <1>4 DEF Start, Claim, Begin, CommitHook, Commit, Fails, RolledBack, Unverified, Project, Settle
  <2> QED
    BY <2>1 DEF Asked
<1>5. CASE RollbackHook
  <2>1. /\ pc = "rollback" /\ pc' \in {"bump", "rolledBack"} /\ UNCHANGED <<outcome, claim>>
        /\ outcome[claim.id] = "failing"
    BY <1>5 DEF RollbackHook, WriteRollback, OutcomeInv
  <2> QED
    BY <2>1 DEF Asked
<1>6. CASE Crash
  <2>1. UNCHANGED <<claim, started, outcome>> /\ (pc' = "down" \/ UNCHANGED <<pc, run>>)
    BY <1>6 DEF Crash
  <2> QED
    BY <1>2, <2>1 DEF Asked
<1>7. CASE Gate
  <2>1. /\ pc = "gate" /\ Allowed /\ claim.id \in Autos /\ outcome[claim.id] = None
        /\ UNCHANGED <<started, outcome, claim, now>>
    BY <1>7 DEF Gate, Asked
  <2>2. Eligible(ledger, claim.id)
    BY <1>0, <2>1 DEF Allowed, RootAuto, Autos
  <2>3. \A j \in Live : Recorded(j) /\ started[j] > 0 /\ j # claim.id
    BY <1>0, <2>1, ConstantsOK DEF Live, RateInv, OutcomeInv, OpenAt
  <2>4. MayStart(claim.id)
    BY <1>0, <2>1, <2>2, <2>3, StartKeepsLimits
  <2> QED
    BY <1>1, <2>1, <2>4 DEF Live
<1>8. CASE Recover
  <2>1. pc = "recover" /\ UNCHANGED <<claim, run, started>>
    BY <1>8 DEF Recover
  <2>2. Asked
    BY <2>1 DEF Asked
  <2>3. \A i \in Ids : outcome[i] # None => outcome'[i] # None
    BY <1>0, <1>8, ConstantsOK DEF Recover, Unsettled
  <2>4. Live' \subseteq Live
    BY <1>0, <1>8 DEF Recover, Unsettled, Live
  <2>5. outcome[claim.id] = None
    BY <1>0, <2>1, <2>3
  <2> QED
    BY <1>1, <2>1, <2>2, <2>4, <2>5 DEF RateInv
<1>9. CASE Reconcile
  <2>1. pc = "reconcile" /\ UNCHANGED <<started, outcome>>
    BY <1>9 DEF Reconcile
  <2>2. run'.gated = run.gated
    <3>1. UNCHANGED run \/ \E l : Write(l)
      BY <1>9 DEF Reconcile, WriteRollback
    <3> QED
      BY <1>0, <2>1, <3>1, WriteKeepsGate
  <2>3. claim' = claim
    BY <1>9, <2>1, <2>2 DEF Reconcile, Asked
  <2> QED
    BY <1>2, <2>1, <2>2, <2>3 DEF Asked
<1>10. CASE Bump
  <2>1. pc = "bump" /\ UNCHANGED <<started, outcome, claim>> /\ outcome[claim.id] # "failing"
    BY <1>10 DEF Bump, Asked
  <2>2. run'.gated = run.gated
    BY <1>0, <1>10, <2>1 DEF Bump, Loaded
  <2> QED
    BY <1>2, <2>1, <2>2 DEF Asked
<1> QED
  BY <1>3, <1>4, <1>7, <1>8, <1>9, <1>10, <1>5, <1>6 DEF Next

\* What is or may become committed keeps cooldown and rate.
LEMMA RateStep ==
  ASSUME FilesInv, HelperInv, OutcomeInv, RateInv, [Next]_vars
  PROVE  RateInv'
<1>0. /\ TypeOK /\ ledger \in Ledgers /\ IsFiniteSet(ledger.times)
      /\ now \in Nat /\ now' \in Nat /\ now <= now' /\ now > 0
      /\ pc # "down" => run.ledger = ledger
      /\ outcome \in [Ids -> Outcomes \union {None}]
      /\ Autos \subseteq Ids
      /\ pc \in {"down", "claim", "settle"} \/ claim # None
      /\ claim # None => claim.id \in Ids
  BY RequestTypes DEF FilesInv, TypeOK, Sound, Requests, HelperInv, Autos
<1>1. /\ started \in [Ids -> Nat]
      /\ \A i \in Autos : started[i] <= now /\ (outcome[i] # None => started[i] > 0)
      /\ \A i \in Autos : outcome[i] = "committed" => Recorded(i)
      /\ pc = "commit" /\ claim.id \in Autos => Recorded(claim.id)
      /\ \A i, j \in Live : i = j \/ started[i] + Cooldown <= started[j]
                                  \/ started[j] + Cooldown <= started[i]
      /\ \A S \in SUBSET Live : Cardinality(S) > MaxPerHour =>
           \E i, j \in S : started[i] + Hour <= started[j]
  BY DEF RateInv
<1>2. (Asked /\ claim.id \in Autos /\ outcome[claim.id] = None => MayStart(claim.id))'
  BY MayStartStep
<1> USE DEF files, history, Outcomes
<1>3. ASSUME UNCHANGED started, Live' \subseteq Live,
             \A i \in Autos : outcome'[i] # None => outcome[i] # None,
             \A i \in Autos : outcome'[i] = "committed" =>
               outcome[i] = "committed" \/ (pc = "commit" /\ claim.id = i),
             pc' = "commit" => (pc = "commit" /\ claim' = claim) \/ (claim'.id \in Autos => Recorded(claim.id)')
      PROVE  RateInv'
  <2>1. \A i \in Autos : outcome'[i] = "committed" => Recorded(i)'
    BY <1>0, <1>1, <1>3, RecordedStep
  <2>2. pc' = "commit" /\ claim'.id \in Autos => Recorded(claim.id)'
    BY <1>0, <1>1, <1>3, RecordedStep
  <2>3. \A i, j \in Live' : i = j \/ started'[i] + Cooldown <= started'[j]
                                  \/ started'[j] + Cooldown <= started'[i]
    BY <1>1, <1>3
  <2>4. \A S \in SUBSET Live' : Cardinality(S) > MaxPerHour =>
          \E i, j \in S : started'[i] + Hour <= started'[j]
    BY <1>1, <1>3
  <2>5. /\ started' \in [Ids -> Nat]
        /\ \A i \in Autos : started'[i] <= now' /\ (outcome'[i] # None => started'[i] > 0)
    BY <1>0, <1>1, <1>3
  <2> QED
    BY <1>2, <2>1, <2>2, <2>3, <2>4, <2>5 DEF RateInv
<1>4. ASSUME UNCHANGED <<started, outcome>>, pc' = "commit" => pc = "commit" /\ claim' = claim
      PROVE  RateInv'
  BY <1>3, <1>4 DEF Live
<1>5. CASE (\E i \in Ids : Approve(i)) \/ Tick \/ Rest \/ UNCHANGED vars \/ Start \/ Claim \/ Bump
           \/ Gate \/ Project \/ Settle \/ Crash \/ (\E c \in Commands : Command(c))
  BY <1>4, <1>5 DEF Approve, Tick, Rest, Command, Start, Claim, Gate, Bump, Project, Settle, Crash,
                    vars
<1>6. CASE HelperWrites \/ RollbackHook \/ Reconcile
  BY <1>4, <1>6, HelperKeepsRecords DEF HelperWrites, RollbackHook, Reconcile, WriteRollback
<1>7. CASE CommitHook
  <2>1. claim.id \in Autos => Recorded(claim.id)'
    <3>1. /\ pc = "txn" /\ UNCHANGED <<claim, started, now>> /\ claim # None
          /\ claim.id \notin ledger.applied
      BY <1>0, <1>7 DEF CommitHook, OutcomeInv
    <3>2. CASE claim.id \in Autos
      <4>1. ledger' = RecordApply(ledger, claim.id)
        BY <1>0, <1>7, <3>1, <3>2 DEF CommitHook, Write, Autos
      <4> QED
        BY <1>0, <1>1, <3>1, <3>2, <4>1, RecordsKept
    <3> QED
      BY <3>2
  <2> QED
    BY <1>3, <1>7, <2>1 DEF CommitHook, Live
<1>8. CASE Commit
  <2>1. pc = "commit" /\ claim # None /\ outcome[claim.id] = "open" /\ pc' # "commit"
        /\ outcome' = [outcome EXCEPT ![claim.id] = "committed"] /\ UNCHANGED started
    BY <1>0, <1>8 DEF Commit, Outcome, OutcomeInv
  <2> QED
    BY <1>0, <1>3, <2>1, ConstantsOK DEF Live
<1>9. CASE Fails \/ RolledBack \/ Unverified
  <2>1. /\ claim # None /\ outcome[claim.id] \in {"open", "failing"} /\ pc' # "commit"
        /\ UNCHANGED started
        /\ \E o \in {"failing", "rolledBack", "unverified"} :
             outcome' = [outcome EXCEPT ![claim.id] = o]
    BY <1>0, <1>9 DEF Fails, RolledBack, Unverified, Outcome, OutcomeInv
  <2> QED
    BY <1>0, <1>3, <2>1, ConstantsOK DEF Live
<1>10. CASE Recover
  <2>1. pc' # "commit" /\ UNCHANGED started
    BY <1>10 DEF Recover
  <2>2. PICK S \in SUBSET Unsettled :
          outcome' = [i \in Ids |-> IF i \in S THEN "rolledBack"
                                    ELSE IF i \in Unsettled THEN "unverified" ELSE outcome[i]]
    BY <1>10 DEF Recover
  <2>3. \A i \in Ids : \/ outcome'[i] = outcome[i]
                       \/ outcome[i] # None /\ outcome'[i] \in {"rolledBack", "unverified"}
    BY <1>0, <2>2, ConstantsOK DEF Unsettled
  <2>4. Live' \subseteq Live
    BY <1>0, <2>3 DEF Live
  <2>5. \A i \in Autos : /\ outcome'[i] # None => outcome[i] # None
                         /\ outcome'[i] = "committed" => outcome[i] = "committed"
    BY <1>0, <2>3
  <2> QED
    BY <1>3, <2>1, <2>4, <2>5
<1>11. CASE Begin
  <2>1. CASE UNCHANGED <<outcome, started>>
    BY <1>4, <1>11, <2>1, <1>0 DEF Begin, Outcome
  <2>2. CASE ~UNCHANGED <<outcome, started>>
    <3> DEFINE i == claim.id
    <3>1. /\ pc = "start" /\ claim # None /\ outcome[i] = None /\ i \in Ids
          /\ outcome' = [outcome EXCEPT ![i] = "open"]
          /\ started' = IF i \in Manual THEN started ELSE [started EXCEPT ![i] = now]
          /\ UNCHANGED <<ledger, now, claim>> /\ pc' = "txn"
      BY <1>0, <1>11, <2>2 DEF Begin, Outcome
    <3>2. \A j \in Live : outcome[j] = "committed" /\ j # i /\ started'[j] = started[j] /\ Recorded(j)
                          /\ started[j] > 0 /\ j \in Ids
      BY <1>0, <1>1, <3>1, ConstantsOK DEF Live, OutcomeInv, OpenAt
    <3>3. /\ started' \in [Ids -> Nat]
          /\ \A j \in Autos : started'[j] <= now' /\ (outcome'[j] # None => started'[j] > 0)
      BY <1>0, <1>1, <3>1 DEF Autos
    <3>4. \A j \in Autos : outcome'[j] = "committed" => Recorded(j)'
      <4>1. ASSUME NEW j \in Autos, outcome'[j] = "committed" PROVE Recorded(j)'
        <5>1. outcome[j] = "committed" /\ j \in Live
          BY <1>0, <3>1, <4>1 DEF Live
        <5> QED
          BY <1>0, <3>2, <5>1, RecordedStep
      <4> QED
        BY <4>1
    <3>5. CASE i \in Manual
      <4>1. Live' = Live
        BY <1>0, <3>1, <3>5 DEF Live, Autos
      <4>2. \A S \in SUBSET Live' : Cardinality(S) > MaxPerHour =>
              \E k, j \in S : started'[k] + Hour <= started'[j]
        BY <1>1, <3>2, <4>1
      <4>3. \A k, j \in Live' : k = j \/ started'[k] + Cooldown <= started'[j]
                                      \/ started'[j] + Cooldown <= started'[k]
        BY <1>1, <3>2, <4>1
      <4> QED
        BY <1>2, <3>1, <3>3, <3>4, <4>2, <4>3 DEF RateInv
    <3>6. CASE i \notin Manual
      <4>1. Live' = Live \union {i} /\ started'[i] = now /\ i \in Autos
        BY <1>0, <1>1, <3>1, <3>6 DEF Live, Autos
      <4>2. Asked
        BY <3>1, <1>11 DEF Asked, OutcomeInv
      <4>3. /\ \A j \in Live : started[j] + Cooldown <= now
            /\ \A S \in SUBSET Live : Cardinality(S \union {i}) > MaxPerHour =>
                 \E j \in S : started[j] + Hour <= now
        BY <3>1, <4>1, <4>2 DEF RateInv, MayStart
      <4>4. \A k, j \in Live' : k = j \/ started'[k] + Cooldown <= started'[j]
                                      \/ started'[j] + Cooldown <= started'[k]
        BY <1>1, <3>2, <3>3, <4>1, <4>3
      <4>5. ASSUME NEW S \in SUBSET Live', Cardinality(S) > MaxPerHour
            PROVE  \E k, j \in S : started'[k] + Hour <= started'[j]
        <5>1. CASE i \notin S
          <6>1. S \in SUBSET Live
            BY <4>1, <5>1
          <6>2. PICK k \in S, j \in S : started[k] + Hour <= started[j]
            BY <1>1, <4>5, <6>1
          <6> QED
            BY <3>2, <6>1, <6>2
        <5>2. CASE i \in S
          <6>1. S \ {i} \in SUBSET Live /\ (S \ {i}) \union {i} = S
            BY <4>1, <5>2
          <6>2. PICK j \in S \ {i} : started[j] + Hour <= now
            BY <4>3, <4>5, <6>1
          <6> QED
            BY <3>2, <4>1, <5>2, <6>1, <6>2
        <5> QED
          BY <5>1, <5>2
      <4> QED
        BY <1>2, <3>1, <3>3, <3>4, <4>4, <4>5 DEF RateInv
    <3> QED
      BY <3>5, <3>6
  <2> QED
    BY <2>1, <2>2
<1> QED
  BY <1>5, <1>6, <1>7, <1>8, <1>9, <1>10, <1>11 DEF Next

LimitsInv == FilesInv /\ HelperInv /\ OutcomeInv /\ FuseInv /\ RateInv

\* No request has an outcome and no change is live yet.
LEMMA LimitsInitially == Init => LimitsInv
<1> SUFFICES ASSUME Init PROVE LimitsInv
  OBVIOUS
<1>1. FilesInv
  BY FilesInitially
<1>2. /\ \A i \in Ids : outcome[i] = None /\ started[i] = 0
      /\ started \in [Ids -> Nat] /\ pc = "down" /\ helper = Off /\ now = 1
      /\ ledger.applied = {} /\ ledger.rolledBack = {} /\ ledger.rollbacks = 0 /\ failed = {}
  BY DEF Init
<1>3. HelperInv
  BY <1>2 DEF HelperInv, Off
<1>4. OutcomeInv
  BY <1>2, ConstantsOK DEF OutcomeInv, Outcomes, Autos
<1>5. FuseInv
  <2>1. failed \intersect ledger.rolledBack = {} /\ failed \ ledger.rolledBack = {}
    BY <1>2
  <2>2. Cardinality({}) = 0 /\ IsFiniteSet({})
    BY FS_EmptySet
  <2>3. Cardinality(failed \intersect ledger.rolledBack) <= ledger.rollbacks
    BY <1>2, <2>1, <2>2
  <2> QED
    BY <1>2, <2>1, <2>2, <2>3 DEF FuseInv, CountInv, Asked
<1>6. RateInv
  <2>1. Live = {}
    BY <1>2, ConstantsOK DEF Live, Outcomes, Autos
  <2>2. \A S \in SUBSET Live : ~(Cardinality(S) > MaxPerHour)
    BY <2>1, FS_EmptySet, ConstantsOK
  <2>3. \A i \in Autos : outcome[i] # "committed"
    BY <1>2, ConstantsOK DEF Outcomes, Autos
  <2>4. \A i \in Ids : started[i] <= now /\ ~(outcome[i] # None)
    BY <1>2
  <2> QED
    BY <1>2, <2>1, <2>2, <2>3, <2>4 DEF RateInv, Asked, Autos
<1> QED
  BY <1>1, <1>3, <1>4, <1>5, <1>6 DEF LimitsInv

\* Helper, outcomes, rate and fuse, if nothing overlaps that writes the ledger.
LEMMA LimitsInvariance ==
  ASSUME QuietLedger
  PROVE  Spec => []LimitsInv
<1>1. Init => LimitsInv
  BY LimitsInitially
<1>2. LimitsInv /\ [Next]_vars => LimitsInv'
  BY FilesStep, HelperStep, OutcomeStep, FuseStep, RateStep DEF LimitsInv
<1> QED
  BY <1>1, <1>2, PTL DEF Spec

\* As long as no acknowledgement overlaps a run: what is put live keeps cooldown
\* and rate, through every crash between a change and its record.
THEOREM RateHolds ==
  ASSUME QuietLedger
  PROVE  Spec => []RateIsBounded
<1>1. LimitsInv => RateIsBounded
  <2> SUFFICES ASSUME LimitsInv PROVE RateIsBounded
    OBVIOUS
  <2>1. {i \in Autos : outcome[i] = "committed"} \subseteq Live
    BY DEF Live
  <2> QED
    BY <2>1 DEF LimitsInv, RateInv, RateIsBounded
<1> QED
  BY <1>1, LimitsInvariance, PTL

\* Which steps put a change live, and whose.
LEMMA OnlyBegin ==
  ASSUME TypeOK, Next, NEW i \in Ids, Starts(i)
  PROVE  Begin /\ pc = "start" /\ claim.id = i
<1>0. /\ outcome \in [Ids -> Outcomes \union {None}]
      /\ outcome[i] = None /\ outcome'[i] = "open"
  BY DEF TypeOK, Starts
<1>1. CASE Begin
  BY <1>0, <1>1, ConstantsOK DEF Begin, Outcome, Outcomes
<1>2. CASE UNCHANGED outcome
  BY <1>0, <1>2, ConstantsOK DEF Outcomes
<1>3. CASE Commit \/ Fails \/ RolledBack \/ Unverified
  BY <1>0, <1>3, ConstantsOK DEF Commit, Fails, RolledBack, Unverified, Outcome, Outcomes
<1>4. CASE Recover
  BY <1>0, <1>4, ConstantsOK DEF Recover, Unsettled, Outcomes
<1>5. CASE Start \/ Reconcile \/ Claim \/ Gate \/ CommitHook \/ RollbackHook \/ Bump \/ Project
           \/ Settle \/ HelperWrites \/ Tick \/ Crash \/ Rest
  BY <1>2, <1>5 DEF Start, Reconcile, Claim, Gate, CommitHook, RollbackHook, Bump, Project, Settle,
     HelperWrites, Tick, Crash, Rest, vars, history
<1>6. CASE (\E k \in Ids : Approve(k)) \/ (\E c \in Commands : Command(c))
  BY <1>2, <1>6 DEF Approve, Command
<1> QED
  BY <1>1, <1>3, <1>4, <1>5, <1>6 DEF Next

\* Under the same condition: when an automatic change is put live, the row of
\* failures, counted or still to be counted when the executor died or a rollback
\* failed, is below the limit, what the run's own recovery gate met apart.
THEOREM FuseHolds ==
  ASSUME QuietLedger
  PROVE  Spec => FuseBlocks
<1> DEFINE Blocked == \A i \in Autos : Starts(i) => Cardinality(failed \ run.met) < FuseLimit
<1>1. LimitsInv /\ [Next]_vars => [Blocked]_vars
  <2> SUFFICES ASSUME LimitsInv, Next, NEW i \in Autos, Starts(i)
               PROVE  Cardinality(failed \ run.met) < FuseLimit
    OBVIOUS
  <2>1. TypeOK /\ i \in Ids
    BY DEF LimitsInv, FilesInv, Autos
  <2>2. pc = "start" /\ claim.id = i
    BY <2>1, OnlyBegin
  <2>3. Asked
    BY <2>2 DEF LimitsInv, OutcomeInv, Asked
  <2> QED
    BY <2>2, <2>3 DEF LimitsInv, FuseInv
<1> QED
  BY <1>1, LimitsInvariance, PTL DEF Spec, FuseBlocks

-----------------------------------------------------------------------------
(* Orders and epochs *)

\* What the helper writes was computed when it loaded the policy.
LEMMA OrderStep ==
  ASSUME FilesInv, OrderInv, [Next]_vars
  PROVE  OrderInv'
<1>0. TypeOK /\ Sound(ledger)
  BY DEF FilesInv
<1>1. CASE UNCHANGED helper
  BY <1>1 DEF OrderInv
<1>2. CASE helper' = Off
  BY <1>2 DEF OrderInv, Off
<1>3. ASSUME NEW c \in Commands, Command(c) PROVE OrderInv'
  <2>1. /\ "policy" \in Writes(c).left => Writes(c).policy.epoch = policy.epoch + 1
        /\ Writes(c).from = policy.epoch
    BY <1>0, WritesSound
  <2> QED
    BY <1>3, <2>1 DEF Command, OrderInv
<1>4. CASE HelperWrites
  <2>1. helper \in [command : Commands, from : Nat, policy : Policies, ledger : Ledgers,
                    left : SUBSET {"ledger", "policy", "projection"}]
    BY <1>0, <1>4 DEF HelperWrites, TypeOK
  <2>2. helper' = Off \/ helper' = [helper EXCEPT !.left = @ \ {Due}]
    BY <1>4 DEF HelperWrites
  <2>3. ASSUME helper' = [helper EXCEPT !.left = @ \ {Due}] PROVE OrderInv'
    BY <2>1, <2>3 DEF OrderInv
  <2> QED
    BY <1>2, <2>2, <2>3
<1>5. CASE Crash
  BY <1>1, <1>2, <1>5 DEF Crash
<1> QED
  BY <1>1, <1>3, <1>4, <1>5
  DEF Next, Start, Recover, Reconcile, Claim, Gate, Begin, CommitHook, Commit, Fails,
      RollbackHook, Bump, RolledBack, Unverified, Project, Settle, Tick, Rest, Approve, vars

\* The copy of a run is never of a later epoch than the file, and what an order has
\* ended is of an earlier one, until a policy replaces a later one.
LEMMA EpochStep ==
  ASSUME FilesInv, OrderInv, EpochInv, [Next]_vars
  PROVE  EpochInv'
<1>0. /\ TypeOK /\ policy \in Policies /\ policy.epoch \in Nat /\ lost \in BOOLEAN
      /\ run # None => run \in Loaded /\ run.policy.epoch \in Nat
      /\ run = None <=> pc = "down"
      /\ spool # None => spool.epoch \in Nat
      /\ claim # None => claim.epoch \in Nat
      /\ pc \in {"down", "claim", "settle"} \/ claim # None
  BY DEF FilesInv, TypeOK, Policies, Requests, Loaded
<1>1. /\ pc \in {"start", "txn", "rollback"} => run.gated
      /\ pc \in {"claim", "gate"} => ~run.gated
  BY DEF EpochInv
<1> DEFINE Past == /\ run # None => run.policy.epoch <= policy.epoch
                   /\ spool # None => spool.epoch <= policy.epoch
                   /\ spool # None /\ "spool" \in stale =>
                        /\ spool.epoch < policy.epoch
                        /\ TakesSpool => spool.epoch < run.policy.epoch
                   /\ pc = "gate" /\ "claim" \in stale => claim.epoch < run.policy.epoch
                   /\ run # None /\ run.gated /\ pc # "settle" => "claim" \notin stale
<1>2. lost \/ Past
  BY DEF EpochInv
<1> USE DEF files, history
\* The executor goes on with its policy.
<1>3. ASSUME UNCHANGED <<policy, spool, stale, lost>>, pc # "down",
             \/ pc' = "down" /\ run' = None
             \/ pc' # "down" /\ run'.policy = run.policy /\ run'.gated = run.gated,
             pc' = pc \/ pc' \notin {"claim", "gate"} \/ (pc' = "claim" /\ ~run.gated),
             pc' = "gate" => claim' = claim,
             pc' \in {"start", "txn", "rollback"} => run.gated,
             TakesSpool' => TakesSpool,
             pc = "settle" => pc' \in {"settle", "down"}
      PROVE  EpochInv'
  <2>1. /\ pc' \in {"start", "txn", "rollback"} => run'.gated
        /\ pc' \in {"claim", "gate"} => ~run'.gated
    BY <1>1, <1>3
  <2>2. CASE pc' = "down" /\ run' = None
    <3>1. ~TakesSpool'
      BY <2>2 DEF TakesSpool
    <3>2. lost' \/ Past'
      BY <1>2, <1>3, <2>2, <3>1
    <3> QED
      BY <2>1, <3>2 DEF EpochInv
  <2>3. CASE pc' # "down" /\ run'.policy = run.policy /\ run'.gated = run.gated
    <3>1. run # None
      BY <1>0, <1>3
    <3>2. pc' = "gate" => pc = "gate" /\ claim' = claim
      BY <1>3
    <3>3. lost' \/ Past'
      BY <1>2, <1>3, <2>3, <3>1, <3>2
    <3> QED
      BY <2>1, <3>3 DEF EpochInv
  <2> QED
    BY <1>3, <2>2, <2>3
<1>4. CASE UNCHANGED <<policy, spool, stale, lost, pc, run, claim>>
  <2>1. TakesSpool' = TakesSpool
    BY <1>4 DEF TakesSpool
  <2> QED
    BY <1>4, <2>1 DEF EpochInv
<1>5. CASE Tick \/ Rest \/ UNCHANGED vars \/ (\E c \in Commands : Command(c))
  <2>1. UNCHANGED <<policy, spool, stale, lost, pc, run, claim>>
    BY <1>5 DEF Tick, Rest, Command, vars
  <2> QED
    BY <1>4, <2>1
<1>6. CASE Recover \/ Begin \/ Commit \/ Fails \/ RolledBack \/ Unverified \/ Project
  <2>1. /\ UNCHANGED <<policy, spool, stale, lost, run>> /\ pc \notin {"down", "settle"}
        /\ pc' \notin {"claim", "gate", "down", "bump"}
        /\ pc' = "reconcile" => pc = "recover"
        /\ pc' # "recover"
    BY <1>6 DEF Recover, Begin, Commit, Fails, RolledBack, Unverified, Project
  <2>2. TakesSpool' => TakesSpool
    BY <2>1 DEF TakesSpool
  <2>3. pc' \in {"start", "txn", "rollback"} => run.gated
    BY <1>1, <1>6 DEF Recover, Begin, Commit, Fails, RolledBack, Unverified, Project
  <2> QED
    BY <1>3, <2>1, <2>2, <2>3
<1>7. ASSUME NEW l, Write(l), pc # "down" PROVE run'.policy = run.policy /\ run'.gated = run.gated
  BY <1>0, <1>7 DEF Write, Loaded
<1>8. CASE Reconcile
  <2>1. /\ UNCHANGED <<policy, spool, stale, lost>> /\ pc = "reconcile"
        /\ pc' \in {"claim", "start", "settle", "reconcile", "bump"}
    BY <1>8 DEF Reconcile, WriteRollback
  <2>2. pc' = "claim" => ~run.gated
    BY <1>8, <2>1 DEF Reconcile, WriteRollback
  <2>3. pc' \in {"start", "txn", "rollback"} => run.gated
    BY <1>8, <2>1 DEF Reconcile, WriteRollback
  <2>4. run'.policy = run.policy /\ run'.gated = run.gated
    <3>1. UNCHANGED run \/ \E l : Write(l)
      BY <1>8 DEF Reconcile, WriteRollback
    <3> QED
      BY <1>7, <2>1, <3>1
  <2>5. TakesSpool' => TakesSpool
    BY <2>1, <2>4 DEF TakesSpool
  <2> QED
    BY <1>3, <2>1, <2>2, <2>3, <2>4, <2>5
<1>9. CASE CommitHook \/ RollbackHook
  <2>1. /\ UNCHANGED <<policy, spool, stale, lost>> /\ pc \in {"txn", "rollback"}
        /\ pc' \in {"commit", "bump", "rolledBack"}
    BY <1>9 DEF CommitHook, RollbackHook, WriteRollback
  <2>2. run'.policy = run.policy /\ run'.gated = run.gated
    <3>1. UNCHANGED run \/ \E l : Write(l)
      BY <1>9 DEF CommitHook, RollbackHook, WriteRollback
    <3> QED
      BY <1>7, <2>1, <3>1
  <2>3. run.gated \/ pc' = "commit"
    BY <1>1, <1>9 DEF CommitHook, RollbackHook
  <2>4. TakesSpool' => TakesSpool
    BY <2>1, <2>2, <2>3 DEF TakesSpool
  <2> QED
    BY <1>3, <2>1, <2>2, <2>4
<1>10. CASE Settle
  <2>1. /\ UNCHANGED <<policy, spool, lost>> /\ stale' = stale \ {"claim"}
        /\ pc' = "down" /\ run' = None
    BY <1>10 DEF Settle
  <2> QED
    BY <1>0, <1>2, <2>1 DEF EpochInv, TakesSpool
<1>11. CASE Crash
  <2>1. /\ UNCHANGED <<policy, spool, stale, lost, claim>>
        /\ UNCHANGED <<pc, run>> \/ (pc' = "down" /\ run' = None)
    BY <1>11 DEF Crash
  <2> QED
    BY <1>0, <1>1, <1>2, <2>1 DEF EpochInv, TakesSpool
<1>12. CASE Start
  <2>1. /\ UNCHANGED <<policy, spool, stale, lost>> /\ pc' \in {"recover", "claim"}
        /\ run'.policy = policy /\ ~run'.gated
    BY <1>12 DEF Start
  <2> QED
    BY <1>0, <1>2, <2>1 DEF EpochInv
<1>13. CASE Claim
  <2>1. /\ UNCHANGED <<policy, run, lost>> /\ spool' = None /\ claim' = spool
        /\ pc = "claim" /\ pc' = (IF spool = None THEN "settle" ELSE "gate")
        /\ stale' = IF "spool" \in stale THEN {"claim"} ELSE {}
    BY <1>13 DEF Claim
  <2>2. TakesSpool /\ ~TakesSpool'
    BY <1>1, <2>1 DEF TakesSpool
  <2> QED
    BY <1>0, <1>1, <1>2, <2>1, <2>2 DEF EpochInv
<1>14. CASE Gate
  <2>1. /\ UNCHANGED <<policy, spool, claim, stale, lost>> /\ pc = "gate"
        /\ pc' = "settle" \/ (Allowed /\ pc' \in {"start", "recover"})
        /\ run'.policy = run.policy /\ run'.gated
    BY <1>0, <1>14 DEF Gate, Loaded
  <2>2. "claim" \in stale => lost \/ pc' = "settle"
    BY <1>0, <1>2, <2>1 DEF Allowed
  <2>3. ~TakesSpool'
    BY <2>1 DEF TakesSpool
  <2> QED
    BY <1>0, <1>1, <1>2, <2>1, <2>2, <2>3 DEF EpochInv
<1>15. CASE Bump
  <2>1. /\ pc = "bump" /\ policy' = Bumped(run.policy) /\ pc' \in {"rolledBack", "reconcile"}
        /\ UNCHANGED <<spool, claim>> /\ run'.policy = policy' /\ run'.gated = run.gated
        /\ stale' \subseteq stale \union {"spool"}
        /\ lost' = (lost \/ run.policy.epoch < policy.epoch)
    BY <1>0, <1>15 DEF Bump, Loaded
  <2>2. policy'.epoch = run.policy.epoch + 1
    BY <1>0, <2>1 DEF Bumped, Loaded, Policies
  <2>3. lost' \/ (~lost /\ policy'.epoch = policy.epoch + 1)
    <3>1. lost \/ run.policy.epoch <= policy.epoch
      BY <1>0, <1>2, <2>1
    <3>2. run.policy.epoch \in Nat
      BY <1>0, <2>1
    <3>3. lost \/ run.policy.epoch < policy.epoch \/ policy'.epoch = policy.epoch + 1
      BY <1>0, <2>2, <3>1, <3>2
    <3> HIDE DEF Past
    <3> QED
      BY <2>1, <3>3
  <2> QED
    BY <1>0, <1>2, <2>1, <2>3 DEF EpochInv
<1>16. ASSUME NEW i \in Ids, Approve(i) PROVE EpochInv'
  <2>1. UNCHANGED <<policy, claim, pc, run, helper, lost>>
    BY <1>16 DEF Approve
  <2>2. PICK e \in 0..policy.epoch :
          /\ spool' = [id |-> i, epoch |-> e]
          /\ stale' = IF e < policy.epoch /\ ~TakesSpool THEN stale \union {"spool"}
                                                         ELSE stale \ {"spool"}
    BY <1>16 DEF Approve
  <2>3. TakesSpool' = TakesSpool
    BY <2>1 DEF TakesSpool
  <2>4. /\ spool'.epoch <= policy.epoch
        /\ "spool" \in stale' => spool'.epoch < policy.epoch /\ ~TakesSpool
        /\ "claim" \in stale' => "claim" \in stale
    BY <1>0, <2>2
  <2> QED
    BY <1>0, <1>1, <1>2, <2>1, <2>3, <2>4 DEF EpochInv
<1>17. CASE HelperWrites
  <2>1. helper # Off /\ UNCHANGED <<spool, claim, pc, run>>
    BY <1>17 DEF HelperWrites
  <2>2. TakesSpool' = TakesSpool
    BY <2>1 DEF TakesSpool
  <2>3. CASE Due # "policy"
    <3>1. UNCHANGED <<policy, stale, lost>>
      BY <1>0, <1>17, <2>3 DEF HelperWrites, TypeOK
    <3> QED
      BY <1>4, <2>1, <3>1
  <2>4. CASE Due = "policy"
    <3>1. /\ policy' = helper.policy
          /\ stale' = IF spool # None /\ ~TakesSpool THEN stale \union {"spool"} ELSE stale
          /\ lost' = (lost \/ helper.from < policy.epoch)
      BY <1>17, <2>4 DEF HelperWrites
    <3>2. helper.from \in Nat /\ helper.policy.epoch = helper.from + 1
      BY <1>0, <2>1, <2>4 DEF TypeOK, OrderInv, Due
    <3>3. lost' \/ (~lost /\ policy.epoch < policy'.epoch)
      <4>1. helper.from < policy.epoch \/ policy.epoch < policy'.epoch
        BY <1>0, <3>1, <3>2
      <4> HIDE DEF Past
      <4> QED
        BY <3>1, <4>1
    <3> QED
      BY <1>0, <1>1, <1>2, <2>1, <2>2, <3>1, <3>2, <3>3 DEF EpochInv
  <2> QED
    BY <2>3, <2>4
<1> QED
  BY <1>5, <1>6, <1>8, <1>9, <1>10, <1>11, <1>12, <1>13, <1>14, <1>15, <1>16, <1>17 DEF Next

\* A request bound to what an order or the fuse has ended is never put live, whatever
\* order is given while the executor runs (root_policy.py, executionEpoch), until a
\* copy of the policy replaces a later one.
THEOREM OrdersRevoke == Spec => OrdersRevokeRequests
<1> DEFINE Revoked == \A i \in Ids : Starts(i) => "claim" \notin stale \/ lost
<1>1. Init => FilesInv /\ OrderInv /\ EpochInv
  BY FilesInitially DEF Init, OrderInv, EpochInv, Off
<1>2. FilesInv /\ OrderInv /\ EpochInv /\ [Next]_vars => (FilesInv /\ OrderInv /\ EpochInv)'
  BY FilesStep, OrderStep, EpochStep
<1>3. FilesInv /\ EpochInv /\ [Next]_vars => [Revoked]_vars
  <2> SUFFICES ASSUME FilesInv, EpochInv, Next, NEW i \in Ids, Starts(i)
               PROVE  "claim" \notin stale \/ lost
    OBVIOUS
  <2>1. TypeOK
    BY DEF FilesInv
  <2>2. pc = "start" /\ run # None
    BY <2>1, OnlyBegin DEF TypeOK
  <2> QED
    BY <2>2 DEF EpochInv
<1> QED
  BY <1>1, <1>2, <1>3, PTL DEF Spec, OrdersRevokeRequests

=============================================================================
