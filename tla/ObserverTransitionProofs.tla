---------------------- MODULE ObserverTransitionProofs ----------------------
(***************************************************************************)
(* Proofs about the root observer: its journal never makes it fail closed, *)
(* its checkpoint can be recovered after every crash, and the journal      *)
(* holds what the observation went through, exactly once and in order, as  *)
(* long as the host does not go through the same transition twice.         *)
(*                                                                         *)
(* The idea is to number the events of the history: the planned ones of a  *)
(* checkpoint follow those already told, and the line with sequence number *)
(* s holds the s-th of them.                                               *)
(***************************************************************************)
EXTENDS ObserverTransition, SequenceTheorems, FiniteSetTheorems, TLAPS

-----------------------------------------------------------------------------
(* The inductive invariant *)

\* The lines in closed form: sequences end just below the next one, segments
\* ascend without a gap and hold at most SegEvents lines.
LinesInv ==
  /\ \A i \in DOMAIN lines : lines[i].seq + Len(lines) + 1 = NextSequence + i
  /\ \A i \in DOMAIN lines : lines[i].seg <= Last(lines).seg
  /\ \A i \in DOMAIN lines : i > 1 =>
       lines[i].seg \in {lines[i - 1].seg, lines[i - 1].seg + 1}
  /\ \A i \in DOMAIN lines : i + SegEvents \in DOMAIN lines =>
       lines[i].seg < lines[i + SegEvents].seg
  /\ lines # <<>> => newest \in {Last(lines).seg, Last(lines).seg + 1}

\* The metadata never is ahead of them, and while a rollover is under way the
\* newest line is in the newest segment.
JournalInv ==
  /\ LinesInv
  /\ meta <= NextSequence
  /\ pc \in {"evict", "meta"} => lines # <<>> /\ Last(lines).seg = newest

Planned == DeriveEvents(ckpt.prev, ckpt.cur)

\* Before the observation is replaced the checkpoint's events are planned ...
Unobserved == HasCheckpoint /\ Anchor # Fingerprint(ckpt.cur)

\* ... and follow those told.
History == IF Unobserved THEN told \o Planned ELSE told

\* A checkpoint names a transition with events, from or to the observation on
\* the disk; to it, when its events are the last ones told.
CheckpointInv ==
  HasCheckpoint =>
    /\ Planned # <<>>
    /\ Unobserved => Anchor = Fingerprint(ckpt.prev)
    /\ ~Unobserved => /\ Len(Planned) <= Len(told)
                      /\ \A i \in DOMAIN Planned :
                           Planned[i] = told[Len(told) - Len(Planned) + i]

\* The events still to append are the last ones planned.
Remaining ==
  /\ Unobserved /\ Len(todo) <= Len(Planned)
  /\ \A i \in DOMAIN todo : todo[i] = Planned[Len(Planned) - Len(todo) + i]

\* What is known at each step of a commit.
StepInv ==
  /\ pc \in {"diff", "checkpoint"} => ~HasCheckpoint
  /\ pc = "checkpoint" => todo # <<>> /\ todo = DeriveEvents(obs, seen[lock])
  /\ pc \in {"append", "evict", "meta"} => Remaining
  /\ pc \in {"evict", "meta"} => todo # <<>>
  /\ pc = "observe" => Unobserved \/ (~HasCheckpoint /\ DeriveEvents(obs, seen[lock]) = <<>>)
  /\ pc = "clear" => ~Unobserved
  /\ resuming => pc \in {"append", "evict", "meta", "observe"}

\* The history has no event twice.
Once == \A i, j \in DOMAIN History : History[i] = History[j] => i = j

\* The line with sequence number s holds the s-th event; what is told is in
\* the journal or was evicted from it.
Numbered ==
  /\ Len(told) < NextSequence /\ NextSequence <= Len(History) + 1
  /\ \A i \in DOMAIN lines : lines[i].seq > 0 /\ lines[i].event = History[lines[i].seq]
  /\ Len(lines) + 1 = NextSequence \/ Len(lines) > TotalEvents - SegEvents

\* How far the journal is at each step: a resumed transition may be ahead of
\* the events still to append.
Progress ==
  /\ pc = "append" =>
       /\ NextSequence + Len(todo) >= Len(History) + 1
       /\ ~resuming => NextSequence + Len(todo) = Len(History) + 1
  /\ pc \in {"evict", "meta"} => NextSequence + Len(todo) = Len(History) + 2
  /\ pc = "observe" => NextSequence = Len(History) + 1

IInv == /\ TypeOK /\ JournalInv /\ CheckpointInv /\ StepInv
        /\ Once => Numbered /\ Progress

-----------------------------------------------------------------------------
(* The events of a transition *)

LEMMA FirstNumbers ==
  ASSUME NEW n \in Nat
  PROVE  IsFiniteSet(1..n) /\ Cardinality(1..n) = n
BY FS_Interval

LEMMA FunctionIsSequence ==
  ASSUME NEW n \in Nat, NEW S, NEW f \in [1..n -> S]
  PROVE  f \in Seq(S) /\ Len(f) = n /\ DOMAIN f = 1..n
OBVIOUS

\* Every rank in a finite set of numbers is taken by one of them.
LEMMA RankIsTaken ==
  ASSUME NEW D \in SUBSET Nat, IsFiniteSet(D), NEW i \in 1..Cardinality(D)
  PROVE  \E k \in D : Cardinality({j \in D : j <= k}) = i
<1> DEFINE below(k) == {j \in D : j <= k}
           n == Cardinality(D)
           rank == [k \in D |-> Cardinality(below(k))]
<1>1. n \in Nat /\ IsFiniteSet(1..n) /\ Cardinality(1..n) = n
  <2>1. n \in Nat
    BY FS_CardinalityType
  <2>2. QED
    BY <2>1, FirstNumbers
<1>2. \A k \in D : /\ IsFiniteSet(below(k)) /\ Cardinality(below(k)) <= n
                   /\ Cardinality(below(k)) \in Nat /\ Cardinality(below(k)) # 0
  <2> TAKE k \in D
  <2>1. below(k) \in SUBSET D /\ k \in below(k)
    OBVIOUS
  <2>2. IsFiniteSet(below(k)) /\ Cardinality(below(k)) <= n
    BY <2>1, FS_Subset
  <2>3. QED
    BY <2>1, <2>2, FS_CardinalityType, FS_EmptySet
<1>3. rank \in [D -> 1..n]
  BY <1>1, <1>2
<1>4. \A k, l \in D : k < l => rank[k] # rank[l]
  <2> SUFFICES ASSUME NEW k \in D, NEW l \in D, k < l
               PROVE  Cardinality(below(k)) # Cardinality(below(l))
    OBVIOUS
  <2>0. k \in Nat /\ l \in Nat /\ ~(l <= k) /\ l <= l /\ \A j \in D : j <= k => j <= l
    OBVIOUS
  <2>1. below(k) \in SUBSET below(l) /\ l \in below(l) /\ l \notin below(k)
    BY <2>0
  <2>2. QED
    BY <1>2, <2>1, FS_Subset
<1>5. rank \in Injection(D, 1..n)
  <2>1. \A k, l \in D : rank[k] = rank[l] => k = l
    BY <1>4
  <2>2. QED
    BY <1>3, <2>1 DEF Injection, IsInjective
<1>6. rank \in Surjection(D, 1..n)
  BY <1>1, <1>5, FS_Injection
<1>7. \E k \in D : rank[k] = i
  BY <1>6 DEF Surjection
<1> QED
  BY <1>7

\* The aspects that differ: each once.
LEMMA ChangedAspects ==
  ASSUME NEW p, NEW c
  PROVE  /\ Changed(p, c) \in Seq({Aspects[i] : i \in DOMAIN Aspects})
         /\ Len(Changed(p, c)) <= Len(Aspects)
         /\ \A i, j \in DOMAIN Changed(p, c) : Changed(p, c)[i] = Changed(p, c)[j] => i = j
         /\ Changed(p, c) # <<>> => \E a : Content[p][a] # Content[c][a]
<1> DEFINE D == {k \in DOMAIN Aspects : Content[p][Aspects[k]] # Content[c][Aspects[k]]}
           n == Cardinality(D)
           Nth(i) == CHOOSE k \in D : Cardinality({j \in D : j <= k}) = i
<1>1. Len(Aspects) \in Nat /\ DOMAIN Aspects = 1..Len(Aspects)
  BY BoundsOK
<1>2. IsFiniteSet(D) /\ n \in Nat /\ n <= Len(Aspects)
  <2>1. D \in SUBSET (1..Len(Aspects))
    BY <1>1
  <2>2. IsFiniteSet(1..Len(Aspects)) /\ Cardinality(1..Len(Aspects)) = Len(Aspects)
    BY <1>1, FirstNumbers
  <2>3. IsFiniteSet(D) /\ n <= Len(Aspects)
    BY <2>1, <2>2, FS_Subset
  <2>4. QED
    BY <2>3, FS_CardinalityType
<1>3. D \in SUBSET Nat
  BY <1>1
<1>4. \A i \in 1..n : Nth(i) \in D /\ Cardinality({j \in D : j <= Nth(i)}) = i
  <2> TAKE i \in 1..n
  <2>1. \E k \in D : Cardinality({j \in D : j <= k}) = i
    BY <1>2, <1>3, RankIsTaken
  <2> QED
    BY <2>1
<1>5. Changed(p, c) = [i \in 1..n |-> Aspects[Nth(i)]]
  BY DEF Changed
<1> HIDE DEF Nth
<1>6. /\ Changed(p, c) \in [1..n -> {Aspects[i] : i \in DOMAIN Aspects}]
      /\ DOMAIN Changed(p, c) = 1..n
  BY <1>4, <1>5
<1>7. Changed(p, c) \in Seq({Aspects[i] : i \in DOMAIN Aspects}) /\ Len(Changed(p, c)) = n
  BY <1>2, <1>6, FunctionIsSequence
<1>8. \A i, j \in 1..n : Changed(p, c)[i] = Changed(p, c)[j] => i = j
  <2> SUFFICES ASSUME NEW i \in 1..n, NEW j \in 1..n, Aspects[Nth(i)] = Aspects[Nth(j)]
               PROVE  i = j
    BY <1>5
  <2>1. Nth(i) = Nth(j)
    BY <1>4, BoundsOK DEF IsInjective
  <2> QED
    BY <1>4, <2>1
<1>9. Changed(p, c) # <<>> => \E a : Content[p][a] # Content[c][a]
  <2> SUFFICES ASSUME Changed(p, c) # <<>>
               PROVE  D # {}
    OBVIOUS
  <2>1. n # 0
    BY <1>2, <1>7
  <2> QED
    BY <2>1, FS_EmptySet
<1> QED
  BY <1>2, <1>6, <1>7, <1>8, <1>9

\* A transition has different events, not more than an eviction leaves, and none
\* between equal states.
LEMMA TransitionEvents ==
  ASSUME NEW p \in Versions \union {None}, NEW c \in Versions
  PROVE  /\ DeriveEvents(p, c) \in Seq(Events)
         /\ Len(DeriveEvents(p, c)) <= TotalEvents - SegEvents + 1
         /\ \A i, j \in DOMAIN DeriveEvents(p, c) :
              DeriveEvents(p, c)[i] = DeriveEvents(p, c)[j] => i = j
         /\ DeriveEvents(p, c) # <<>> => Fingerprint(p) # Fingerprint(c)
<1> DEFINE W == {Aspects[i] : i \in DOMAIN Aspects} \union {"baseline"}
           changed == IF p = None THEN <<"baseline">> ELSE Changed(p, c)
<1>1. /\ changed \in Seq(W) /\ Len(changed) <= TotalEvents - SegEvents + 1
      /\ \A i, j \in DOMAIN changed : changed[i] = changed[j] => i = j
  <2>0. /\ TotalEvents - SegEvents \in Nat /\ Len(Aspects) \in Nat
        /\ Len(Aspects) <= TotalEvents - SegEvents
    BY BoundsOK
  <2>1. CASE p = None
    <3>1. changed = <<"baseline">>
      BY <2>1
    <3>2. <<"baseline">> \in Seq(W) /\ Len(<<"baseline">>) = 1 /\ DOMAIN <<"baseline">> = 1..1
      OBVIOUS
    <3> HIDE DEF changed, W
    <3> QED
      BY <2>0, <3>1, <3>2
  <2>2. CASE p # None
    <3>1. changed = Changed(p, c) /\ Changed(p, c) \in Seq(W)
      BY <2>2, ChangedAspects, SeqMonotonic
    <3>2. Len(changed) \in Nat
      BY <3>1
    <3>3. /\ Len(Changed(p, c)) <= Len(Aspects)
          /\ \A i, j \in DOMAIN Changed(p, c) :
               Changed(p, c)[i] = Changed(p, c)[j] => i = j
      BY ChangedAspects
    <3> HIDE DEF changed, W
    <3>4. \A i, j \in DOMAIN changed : changed[i] = changed[j] => i = j
      BY <3>1, <3>3, Zenon
    <3>5. Len(changed) <= Len(Aspects)
      BY <3>1, <3>3
    <3> QED
      BY <2>0, <3>1, <3>2, <3>4, <3>5
  <2> QED
    BY <2>1, <2>2
<1>2. /\ DOMAIN changed = 1..Len(changed) /\ Len(changed) \in Nat
      /\ \A i \in 1..Len(changed) : changed[i] \in W
  BY <1>1, LenProperties, ElementOfSeq
<1>3. DeriveEvents(p, c) = [i \in 1..Len(changed) |->
         [prev |-> Fingerprint(p), cur |-> Fingerprint(c), what |-> changed[i]]]
  BY <1>2 DEF DeriveEvents
<1> HIDE DEF changed
<1>4. /\ Fingerprint(p) \in {Content[v] : v \in Versions} \union {None}
      /\ Fingerprint(c) \in {Content[v] : v \in Versions}
  BY BoundsOK DEF Fingerprint
<1>5. \A i \in 1..Len(changed) :
        [prev |-> Fingerprint(p), cur |-> Fingerprint(c), what |-> changed[i]] \in Events
  BY <1>2, <1>4 DEF Events
<1>6. /\ DeriveEvents(p, c) \in [1..Len(changed) -> Events]
      /\ DOMAIN DeriveEvents(p, c) = 1..Len(changed)
  BY <1>3, <1>5
<1>7. DeriveEvents(p, c) \in Seq(Events) /\ Len(DeriveEvents(p, c)) = Len(changed)
  BY <1>2, <1>6
<1>8. \A i, j \in 1..Len(changed) : DeriveEvents(p, c)[i] = DeriveEvents(p, c)[j] => i = j
  <2> SUFFICES ASSUME NEW i \in 1..Len(changed), NEW j \in 1..Len(changed),
                      DeriveEvents(p, c)[i] = DeriveEvents(p, c)[j]
               PROVE  i = j
    OBVIOUS
  <2>1. DeriveEvents(p, c)[i].what = changed[i] /\ DeriveEvents(p, c)[j].what = changed[j]
    BY <1>3
  <2> QED
    BY <1>1, <1>2, <2>1
<1>9. DeriveEvents(p, c) # <<>> => Fingerprint(p) # Fingerprint(c)
  <2>1. CASE p = None
    BY <2>1, BoundsOK DEF Fingerprint
  <2>2. CASE p # None
    <3> SUFFICES ASSUME DeriveEvents(p, c) # <<>>
                 PROVE  Content[p] # Content[c]
      BY <2>2, BoundsOK DEF Fingerprint
    <3>1. changed # <<>>
      BY <1>2, <1>7, EmptySeq
    <3>2. Changed(p, c) # <<>>
      BY <2>2, <3>1 DEF changed
    <3> QED
      BY <3>2, ChangedAspects
  <2> QED
    BY <2>1, <2>2
<1> QED
  BY <1>1, <1>6, <1>7, <1>8, <1>9

\* They depend on the fingerprints only.
LEMMA EventsOfFingerprints ==
  ASSUME NEW p \in Versions \union {None}, NEW q \in Versions \union {None},
         NEW c \in Versions, Fingerprint(p) = Fingerprint(q)
  PROVE  DeriveEvents(p, c) = DeriveEvents(q, c)
<1>1. p = None <=> q = None
  BY BoundsOK DEF Fingerprint
<1>2. CASE p = None
  BY <1>1, <1>2
<1>3. CASE p # None
  <2>1. Content[p] = Content[q]
    BY <1>1, <1>3 DEF Fingerprint
  <2>2. Changed(p, c) = Changed(q, c)
    BY <2>1 DEF Changed
  <2> QED
    BY <1>1, <1>3, <2>2 DEF DeriveEvents
<1> QED
  BY <1>2, <1>3

-----------------------------------------------------------------------------
(* Types *)

JournalLines == [seq : Nat, event : Events, seg : Nat]

\* What is known while somebody commits.
LEMMA Committing ==
  ASSUME TypeOK, pc # "idle"
  PROVE  /\ lock \in Observers /\ lock # None
         /\ seen[lock] \in Versions
         /\ seen \in [Observers -> Versions \union {None}]
BY BoundsOK DEF TypeOK

LEMMA NextSequenceType ==
  ASSUME TypeOK
  PROVE  /\ NextSequence \in Nat
         /\ Len(lines) \in Nat /\ DOMAIN lines = 1..Len(lines)
         /\ \A i \in DOMAIN lines : lines[i] \in JournalLines
         /\ \A i \in DOMAIN lines : lines[i].seq \in Nat /\ lines[i].seg \in Nat
                                    /\ lines[i].event \in Events
         /\ lines # <<>> => Len(lines) \in DOMAIN lines /\ Len(lines) > 0
<1>1. lines \in Seq(JournalLines)
  BY DEF TypeOK, JournalLines
<1>2. /\ Len(lines) \in Nat /\ DOMAIN lines = 1..Len(lines)
      /\ \A i \in DOMAIN lines : lines[i] \in JournalLines
      /\ lines # <<>> => Len(lines) \in DOMAIN lines /\ Len(lines) > 0
  BY <1>1
<1>3. \A i \in DOMAIN lines : lines[i].seq \in Nat /\ lines[i].seg \in Nat
                              /\ lines[i].event \in Events
  BY <1>2 DEF JournalLines
<1>4. NextSequence \in Nat
  BY <1>2, <1>3 DEF NextSequence, Last
<1> QED
  BY <1>2, <1>3, <1>4

\* A step leaves the observer that holds the lock alone, or ends the commit.
LEMMA ExitType ==
  ASSUME TypeOK, pc # "idle", Exit
  PROVE  /\ seen' \in [Observers -> Versions \union {None}]
         /\ lock' \in Observers \union {None} /\ pc' \in Steps \union {"idle"}
         /\ IF lock' = None THEN pc' = "idle" ELSE pc' # "idle" /\ seen'[lock'] # None
<1>1. lock \in Observers /\ seen \in [Observers -> Versions \union {None}]
  BY Committing
<1> QED
  BY <1>1 DEF Exit

LEMMA GotoType ==
  ASSUME TypeOK, pc # "idle", NEW to \in Steps, Goto(to)
  PROVE  /\ seen' \in [Observers -> Versions \union {None}]
         /\ lock' \in Observers \union {None} /\ pc' \in Steps \union {"idle"}
         /\ IF lock' = None THEN pc' = "idle" ELSE pc' # "idle" /\ seen'[lock'] # None
<1>1. lock' = lock /\ seen' = seen /\ pc' = to /\ to # "idle"
  BY DEF Goto, Steps
<1>2. lock \in Observers /\ lock # None /\ seen[lock] # None
  BY BoundsOK DEF TypeOK
<1> QED
  BY <1>1, <1>2 DEF TypeOK

LEMMA AppendType ==
  ASSUME TypeOK, todo # <<>>
  PROVE  /\ NewLine \in JournalLines /\ Segment \in Nat
         /\ Head(todo) \in Events /\ Tail(todo) \in Seq(Events)
         /\ Append(lines, NewLine) \in Seq(JournalLines)
<1>1. todo \in Seq(Events) /\ lines \in Seq(JournalLines) /\ newest \in Nat
  BY DEF TypeOK, JournalLines
<1>2. Head(todo) \in Events /\ Tail(todo) \in Seq(Events)
  BY <1>1
<1>3. Segment \in Nat
  BY <1>1 DEF Segment
<1>4. NewLine \in JournalLines
  BY <1>2, <1>3, NextSequenceType DEF NewLine, JournalLines
<1> QED
  BY <1>1, <1>2, <1>3, <1>4

LEMMA TypeStep == TypeOK /\ StepInv /\ [Next]_vars => TypeOK'
<1> SUFFICES ASSUME TypeOK, StepInv, [Next]_vars
             PROVE  TypeOK'
  OBVIOUS
<1> DEFINE Control ==
       /\ seen' \in [Observers -> Versions \union {None}]
       /\ lock' \in Observers \union {None} /\ pc' \in Steps \union {"idle"}
       /\ IF lock' = None THEN pc' = "idle" ELSE pc' # "idle" /\ seen'[lock'] # None
<1>0. /\ "recover" \in Steps /\ "pending" \in Steps /\ "diff" \in Steps
      /\ "checkpoint" \in Steps /\ "append" \in Steps /\ "evict" \in Steps
      /\ "meta" \in Steps /\ "observe" \in Steps /\ "clear" \in Steps /\ "idle" \notin Steps
  BY DEF Steps
<1>1. CASE HostChanges
  BY <1>1 DEF HostChanges, TypeOK, journal
<1>2. CASE JournalRecover
  <2>1. Control
    BY <1>2, <1>0, ExitType, GotoType DEF JournalRecover
  <2>2. meta' \in Nat /\ torn' \in BOOLEAN
    BY <1>2, NextSequenceType DEF JournalRecover, TypeOK
  <2> QED
    BY <1>2, <2>1, <2>2 DEF JournalRecover, TypeOK
<1>3. CASE Resume
  <2>1. Control
    BY <1>3, <1>0, ExitType, GotoType DEF Resume
  <2>2. HasCheckpoint => DeriveEvents(ckpt.prev, ckpt.cur) \in Seq(Events)
    <3> SUFFICES ASSUME HasCheckpoint PROVE DeriveEvents(ckpt.prev, ckpt.cur) \in Seq(Events)
      OBVIOUS
    <3>1. ckpt.prev \in Versions \union {None} /\ ckpt.cur \in Versions
      BY DEF HasCheckpoint, TypeOK, Checkpoints
    <3> QED
      BY <3>1, TransitionEvents
  <2>3. todo' \in Seq(Events) /\ resuming' \in BOOLEAN
    BY <1>3, <2>2 DEF Resume, TypeOK
  <2> QED
    BY <1>3, <2>1, <2>3 DEF Resume, TypeOK, journal
<1>4. CASE Diff
  <2>1. Control
    BY <1>4, <1>0, GotoType DEF Diff
  <2>2. obs \in Versions \union {None} /\ seen[lock] \in Versions
    BY <1>4, Committing DEF Diff, TypeOK
  <2>3. todo' \in Seq(Events)
    BY <1>4, <2>2, TransitionEvents DEF Diff
  <2> QED
    BY <1>4, <2>1, <2>3 DEF Diff, TypeOK, journal
<1>5. CASE Checkpoint
  <2>1. Control
    BY <1>5, <1>0, GotoType DEF Checkpoint
  <2>2. obs \in Versions \union {None} /\ seen[lock] \in Versions
    BY <1>5, Committing DEF Checkpoint, TypeOK
  <2>3. ckpt' \in Checkpoints
    BY <1>5, <2>2 DEF Checkpoint, Checkpoints
  <2> QED
    BY <1>5, <2>1, <2>3 DEF Checkpoint, TypeOK, journal
<1>6. CASE AppendEvent
  <2>1. Control
    BY <1>6, <1>0, GotoType DEF AppendEvent
  <2>2. lines' \in Seq(JournalLines) /\ newest' \in Nat /\ todo' \in Seq(Events)
    BY <1>6, AppendType DEF AppendEvent, TypeOK, JournalLines
  <2> QED
    BY <1>6, <2>1, <2>2 DEF AppendEvent, TypeOK, JournalLines
<1>7. CASE Evict
  <2>1. Control
    BY <1>7, <1>0, GotoType DEF Evict
  <2>2. lines' \in Seq(JournalLines)
    <3>1. CASE EvictOldest
      <4>1. PICK n \in DOMAIN lines : lines' = SubSeq(lines, n + 1, Len(lines))
        BY <3>1 DEF EvictOldest
      <4>2. \A i \in (n + 1)..Len(lines) : lines[i] \in JournalLines
        BY NextSequenceType
      <4>3. n + 1 \in Int /\ Len(lines) \in Int
        BY NextSequenceType
      <4> QED
        BY <4>1, <4>2, <4>3, SubSeqProperties
    <3> QED
      BY <1>7, <3>1 DEF Evict, TypeOK, JournalLines
  <2> QED
    BY <1>7, <2>1, <2>2 DEF Evict, TypeOK, JournalLines
<1>8. CASE WriteMeta
  <2>1. Control
    BY <1>8, <1>0, GotoType DEF WriteMeta
  <2>2. meta' \in Nat /\ todo' \in Seq(Events)
    BY <1>8, NextSequenceType, AppendType DEF WriteMeta, StepInv
  <2> QED
    BY <1>8, <2>1, <2>2 DEF WriteMeta, TypeOK
<1>9. CASE Observe
  <2>1. Control
    BY <1>9, <1>0, GotoType DEF Observe
  <2>2. obs' \in Versions /\ obs \in Versions \union {None}
    BY <1>9, Committing DEF Observe, TypeOK, HasCheckpoint, Checkpoints
  <2>3. told' \in Seq(Events)
    BY <1>9, <2>2, TransitionEvents, ConcatProperties DEF Observe, TypeOK
  <2> QED
    BY <1>9, <2>1, <2>2, <2>3 DEF Observe, TypeOK, journal
<1>10. CASE Clear
  <2>1. Control
    BY <1>10, <1>0, ExitType, GotoType DEF Clear
  <2> QED
    BY <1>10, <2>1 DEF Clear, TypeOK, journal
<1>11. CASE Crash \/ TornWrite
  <2>1. Control /\ Die
    BY <1>11, ExitType DEF Crash, TornWrite, Die
  <2>2. newest' \in Nat /\ torn' \in BOOLEAN /\ lines' = lines
    BY <1>11, AppendType DEF Crash, TornWrite, TypeOK
  <2>3. <<>> \in Seq(Events)
    OBVIOUS
  <2> QED
    BY <2>1, <2>2, <2>3 DEF Die, TypeOK
<1>12. ASSUME NEW o \in Observers, Capture(o) \/ Acquire(o) \/ GiveUp(o)
       PROVE  TypeOK'
  <2>1. Control
    BY <1>12, <1>0, BoundsOK DEF Capture, Acquire, GiveUp, TypeOK
  <2> QED
    BY <1>12, <2>1 DEF Capture, Acquire, GiveUp, TypeOK, journal
<1>13. CASE UNCHANGED vars
  BY <1>13 DEF vars, TypeOK
<1> QED
  BY <1>1, <1>2, <1>3, <1>4, <1>5, <1>6, <1>7, <1>8, <1>9, <1>10, <1>11, <1>12, <1>13
     DEF Next, Rest

-----------------------------------------------------------------------------
(* The journal *)

\* Where the next line goes: after the newest one, and not into a full segment.
LEMMA SegmentOfNewLine ==
  ASSUME TypeOK, JournalInv
  PROVE  /\ Segment \in Nat /\ newest <= Segment
         /\ lines # <<>> => Segment \in {Last(lines).seg, Last(lines).seg + 1}
         /\ \A i \in DOMAIN lines :
              i + SegEvents = Len(lines) + 1 => lines[i].seg < Segment
<1>1. newest \in Nat /\ SegEvents \in Nat /\ SegEvents > 0
  BY BoundsOK DEF TypeOK
<1>2. /\ Len(lines) \in Nat /\ DOMAIN lines = 1..Len(lines)
      /\ \A i \in DOMAIN lines : lines[i].seg \in Nat
      /\ lines # <<>> => Len(lines) \in DOMAIN lines /\ Last(lines) = lines[Len(lines)]
  BY NextSequenceType DEF Last
<1>3. Full /\ lines # <<>> => newest = Last(lines).seg
  <2> SUFFICES ASSUME Full, lines # <<>>
               PROVE  newest = Last(lines).seg
    OBVIOUS
  <2>1. Len(lines) - SegEvents + 1 \in DOMAIN lines
    BY <1>1, <1>2 DEF Full
  <2> QED
    BY <1>1, <1>2, <2>1 DEF Full, JournalInv, LinesInv
<1>4. lines # <<>> => Segment \in {Last(lines).seg, Last(lines).seg + 1}
  BY <1>1, <1>2, <1>3 DEF Segment, JournalInv, LinesInv
<1>5. ASSUME NEW i \in DOMAIN lines, i + SegEvents = Len(lines) + 1
      PROVE  lines[i].seg < Segment
  <2>1. lines # <<>> /\ lines[i].seg <= Last(lines).seg /\ Last(lines).seg <= newest
    BY <1>1, <1>2 DEF JournalInv, LinesInv
  <2>2. Full <=> lines[i].seg = newest
    BY <1>1, <1>2, <1>5 DEF Full
  <2> QED
    BY <1>1, <1>2, <2>1, <2>2 DEF Segment
<1> QED
  BY <1>1, <1>4, <1>5 DEF Segment

\* The sequences stay in step with the places when a line comes, or n lines go.
LEMMA SequencesInStep ==
  ASSUME TypeOK, JournalInv
  PROVE  /\ \A i \in DOMAIN lines :
              lines[i].seq + (Len(lines) + 1) + 1 = (NextSequence + 1) + i
         /\ \A i, n \in Nat : i + n \in DOMAIN lines =>
              lines[i + n].seq + (Len(lines) - n) + 1 = NextSequence + i
<1>1. /\ Len(lines) \in Nat /\ DOMAIN lines = 1..Len(lines) /\ NextSequence \in Nat
      /\ \A i \in DOMAIN lines : lines[i].seq \in Nat
  BY NextSequenceType
<1>2. \A i \in DOMAIN lines : lines[i].seq + Len(lines) + 1 = NextSequence + i
  BY DEF JournalInv, LinesInv
<1>3. ASSUME NEW i \in DOMAIN lines
      PROVE  lines[i].seq + (Len(lines) + 1) + 1 = (NextSequence + 1) + i
  <2>1. lines[i].seq + Len(lines) + 1 = NextSequence + i
    BY <1>2
  <2>2. lines[i].seq \in Nat /\ i \in Nat
    BY <1>1
  <2> QED
    BY <1>1, <2>1, <2>2
<1>4. ASSUME NEW i \in Nat, NEW n \in Nat, i + n \in DOMAIN lines
      PROVE  lines[i + n].seq + (Len(lines) - n) + 1 = NextSequence + i
  <2>1. lines[i + n].seq + Len(lines) + 1 = NextSequence + (i + n)
    BY <1>2, <1>4
  <2>2. lines[i + n].seq \in Nat
    BY <1>1, <1>4
  <2> QED
    BY <1>1, <2>1, <2>2
<1> QED
  BY <1>3, <1>4

\* The appended line: its number is the next one.
LEMMA LineAppended ==
  ASSUME TypeOK, JournalInv, todo # <<>>,
         lines' = Append(lines, NewLine), newest' = Segment
  PROVE  /\ LinesInv' /\ lines' # <<>> /\ Last(lines)' = NewLine
         /\ NextSequence' = NextSequence + 1
         /\ Len(lines') = Len(lines) + 1 /\ DOMAIN lines' = 1..Len(lines) + 1
         /\ \A i \in DOMAIN lines : lines'[i] = lines[i]
         /\ lines'[Len(lines) + 1] = NewLine
<1>1. /\ Len(lines) \in Nat /\ DOMAIN lines = 1..Len(lines) /\ NextSequence \in Nat
      /\ \A i \in DOMAIN lines : lines[i].seq \in Nat /\ lines[i].seg \in Nat
      /\ lines # <<>> => Len(lines) \in DOMAIN lines /\ Last(lines) = lines[Len(lines)]
      /\ lines = <<>> => Len(lines) = 0
  BY NextSequenceType DEF Last
<1>2. lines \in Seq(JournalLines) /\ NewLine \in JournalLines
  BY AppendType DEF TypeOK, JournalLines
<1>3. /\ lines' # <<>>
      /\ Len(lines') = Len(lines) + 1 /\ DOMAIN lines' = 1..Len(lines) + 1
      /\ \A i \in DOMAIN lines : lines'[i] = lines[i]
      /\ lines'[Len(lines) + 1] = NewLine
  BY <1>1, <1>2, AppendProperties
<1>4. Last(lines)' = NewLine
  BY <1>3 DEF Last
<1>5. NewLine.seq = NextSequence /\ NewLine.seg = Segment
  BY DEF NewLine
<1>6. NextSequence' = NextSequence + 1
  BY <1>3, <1>4, <1>5 DEF NextSequence
<1>12. \A i \in DOMAIN lines' : i \in DOMAIN lines \/ i = Len(lines) + 1
  BY <1>1, <1>3
<1>7. ASSUME NEW i \in DOMAIN lines'
      PROVE  lines'[i].seq + Len(lines') + 1 = NextSequence' + i
  <2>1. CASE i \in DOMAIN lines
    <3>1. Len(lines') = Len(lines) + 1 /\ lines'[i].seq = lines[i].seq
      BY <1>3, <2>1
    <3> QED
      BY <1>6, <2>1, <3>1, SequencesInStep
  <2>2. CASE i = Len(lines) + 1
    <3>1. lines'[i].seq = NextSequence
      BY <1>3, <1>5, <2>2
    <3>2. Len(lines') = Len(lines) + 1 /\ Len(lines) \in Nat /\ NextSequence \in Nat
      BY <1>1, <1>3
    <3> QED
      BY <1>6, <2>2, <3>1, <3>2
  <2> QED
    BY <1>12, <2>1, <2>2
<1>8. ASSUME NEW i \in DOMAIN lines'
      PROVE  lines'[i].seg <= Last(lines)'.seg
  <2>1. CASE i \in DOMAIN lines
    <3>1. lines # <<>> /\ lines[i].seg <= Last(lines).seg
      BY <1>1, <2>1 DEF JournalInv, LinesInv
    <3> QED
      BY <1>1, <1>3, <1>4, <1>5, <2>1, <3>1, SegmentOfNewLine
  <2>2. CASE i = Len(lines) + 1
    BY <1>3, <1>4, <1>5, <2>2, SegmentOfNewLine
  <2> QED
    BY <1>12, <2>1, <2>2
<1>9. ASSUME NEW i \in DOMAIN lines', i > 1
      PROVE  lines'[i].seg \in {lines'[i - 1].seg, lines'[i - 1].seg + 1}
  <2>1. CASE i \in DOMAIN lines
    <3>1. i - 1 \in DOMAIN lines
      BY <1>1, <1>9, <2>1
    <3> QED
      BY <1>3, <1>9, <2>1, <3>1 DEF JournalInv, LinesInv
  <2>2. CASE i = Len(lines) + 1
    <3>1. i - 1 = Len(lines) /\ i - 1 \in DOMAIN lines /\ lines # <<>>
      BY <1>1, <1>9, <2>2
    <3> QED
      BY <1>1, <1>3, <1>5, <2>2, <3>1, SegmentOfNewLine
  <2> QED
    BY <1>12, <2>1, <2>2
<1>10. ASSUME NEW i \in DOMAIN lines', i + SegEvents \in DOMAIN lines'
       PROVE  lines'[i].seg < lines'[i + SegEvents].seg
  <2>0. SegEvents \in Nat /\ SegEvents > 0
    BY BoundsOK
  <2>1. i \in DOMAIN lines /\ i \in Nat
    BY <1>1, <1>3, <1>10, <2>0
  <2>2. CASE i + SegEvents \in DOMAIN lines
    BY <1>3, <2>1, <2>2 DEF JournalInv, LinesInv
  <2>3. CASE i + SegEvents = Len(lines) + 1
    <3>1. lines[i].seg < Segment
      BY <2>1, <2>3, SegmentOfNewLine
    <3> QED
      BY <1>3, <1>5, <2>1, <2>3, <3>1
  <2>4. i + SegEvents \in DOMAIN lines \/ i + SegEvents = Len(lines) + 1
    BY <1>10, <1>12
  <2> QED
    BY <2>2, <2>3, <2>4
<1>11. newest' = Last(lines)'.seg
  BY <1>4, <1>5
<1> QED
  BY <1>3, <1>4, <1>6, <1>7, <1>8, <1>9, <1>10, <1>11 DEF LinesInv

\* An eviction takes lines from the front, at most a segment of them, and leaves
\* the newest one.
LEMMA LinesEvicted ==
  ASSUME TypeOK, JournalInv, lines # <<>>, Last(lines).seg = newest,
         Head(lines).seg # newest, EvictOldest, newest' = newest
  PROVE  /\ LinesInv' /\ lines' # <<>> /\ Last(lines)' = Last(lines)
         /\ NextSequence' = NextSequence
         /\ \E n \in 1..SegEvents :
              /\ Len(lines') = Len(lines) - n /\ DOMAIN lines' = 1..Len(lines) - n
              /\ \A i \in DOMAIN lines' : i + n \in DOMAIN lines /\ lines'[i] = lines[i + n]
<1>1. /\ Len(lines) \in Nat /\ DOMAIN lines = 1..Len(lines) /\ NextSequence \in Nat
      /\ \A i \in DOMAIN lines : lines[i] \in JournalLines
      /\ \A i \in DOMAIN lines : lines[i].seq \in Nat /\ lines[i].seg \in Nat
      /\ Len(lines) \in DOMAIN lines /\ Last(lines) = lines[Len(lines)] /\ 1 \in DOMAIN lines
      /\ Head(lines) = lines[1]
  <2>1. lines \in Seq(JournalLines)
    BY DEF TypeOK, JournalLines
  <2>2. Head(lines) = lines[1]
    BY <2>1
  <2> QED
    BY <2>2, NextSequenceType DEF Last
<1>2. PICK n \in DOMAIN lines :
        /\ \A i \in DOMAIN lines : i <= n <=> lines[i].seg = lines[1].seg
        /\ lines' = SubSeq(lines, n + 1, Len(lines))
  BY <1>1 DEF EvictOldest
<1>3. n < Len(lines)
  BY <1>1, <1>2
<1>4. n <= SegEvents
  <2>1. SegEvents \in Nat /\ SegEvents > 0
    BY BoundsOK
  <2> SUFFICES ASSUME n > SegEvents
               PROVE  FALSE
    BY <1>1, <2>1
  <2>2. 1 + SegEvents \in DOMAIN lines /\ 1 + SegEvents <= n
    BY <1>1, <2>1
  <2>3. lines[1].seg < lines[1 + SegEvents].seg
    BY <1>1, <2>2 DEF JournalInv, LinesInv
  <2> QED
    BY <1>1, <1>2, <2>2, <2>3
<1>5. /\ Len(lines') = Len(lines) - n /\ DOMAIN lines' = 1..Len(lines) - n
      /\ \A i \in DOMAIN lines' : i + n \in DOMAIN lines /\ lines'[i] = lines[i + n]
  <2>1. \A i \in (n + 1)..Len(lines) : lines[i] \in JournalLines
    BY <1>1
  <2>2. /\ lines' \in Seq(JournalLines)
        /\ Len(lines') = Len(lines) - (n + 1) + 1
        /\ \A i \in 1..Len(lines) - (n + 1) + 1 : lines'[i] = lines[n + 1 + i - 1]
    BY <1>1, <1>2, <1>3, <2>1, SubSeqProperties
  <2>3. DOMAIN lines' = 1..Len(lines')
    BY <2>2
  <2>4. n \in Nat /\ Len(lines) - (n + 1) + 1 = Len(lines) - n
    BY <1>1
  <2>5. \A i \in 1..Len(lines) - n : i + n \in 1..Len(lines) /\ n + 1 + i - 1 = i + n
    BY <1>1, <2>4
  <2> QED
    BY <1>1, <2>2, <2>3, <2>4, <2>5
<1>6. lines' # <<>> /\ Last(lines)' = Last(lines)
  <2>1. Len(lines') \in DOMAIN lines' /\ Len(lines') > 0
    BY <1>1, <1>3, <1>5
  <2>2. lines'[Len(lines')] = lines[Len(lines)]
    BY <1>1, <1>5, <2>1
  <2> QED
    BY <1>1, <2>1, <2>2 DEF Last
<1>7. NextSequence' = NextSequence
  BY <1>6 DEF NextSequence
<1>8. n \in 1..SegEvents
  BY <1>1, <1>4, BoundsOK
<1>9. LinesInv'
  <2>1. ASSUME NEW i \in DOMAIN lines'
        PROVE  lines'[i].seq + Len(lines') + 1 = NextSequence' + i
    <3>1. i + n \in DOMAIN lines /\ lines'[i] = lines[i + n] /\ i \in Nat /\ n \in Nat
      BY <1>1, <1>5
    <3>2. Len(lines') = Len(lines) - n
      BY <1>5
    <3> QED
      BY <1>7, <3>1, <3>2, SequencesInStep
  <2>2. ASSUME NEW i \in DOMAIN lines'
        PROVE  lines'[i].seg <= Last(lines)'.seg
    BY <1>5, <1>6 DEF JournalInv, LinesInv
  <2>3. ASSUME NEW i \in DOMAIN lines', i > 1
        PROVE  lines'[i].seg \in {lines'[i - 1].seg, lines'[i - 1].seg + 1}
    <3>0. i \in Nat /\ n \in Nat
      BY <1>1, <1>5
    <3>1. i - 1 \in DOMAIN lines' /\ (i - 1) + n = (i + n) - 1 /\ i + n > 1
      BY <1>5, <2>3, <3>0
    <3>2. /\ i + n \in DOMAIN lines /\ lines'[i] = lines[i + n]
          /\ lines'[i - 1] = lines[(i + n) - 1]
      BY <1>5, <3>1
    <3>3. lines[i + n].seg \in {lines[(i + n) - 1].seg, lines[(i + n) - 1].seg + 1}
      BY <3>1, <3>2 DEF JournalInv, LinesInv
    <3> QED
      BY <3>2, <3>3
  <2>4. ASSUME NEW i \in DOMAIN lines', i + SegEvents \in DOMAIN lines'
        PROVE  lines'[i].seg < lines'[i + SegEvents].seg
    <3>1. (i + SegEvents) + n = (i + n) + SegEvents
      BY <1>1, <1>5, BoundsOK
    <3>2. /\ i + n \in DOMAIN lines /\ (i + n) + SegEvents \in DOMAIN lines
          /\ lines'[i] = lines[i + n]
          /\ lines'[i + SegEvents] = lines[(i + n) + SegEvents]
      BY <1>5, <2>4, <3>1
    <3>3. lines[i + n].seg < lines[(i + n) + SegEvents].seg
      BY <3>2 DEF JournalInv, LinesInv
    <3> QED
      BY <3>2, <3>3
  <2>5. newest' \in {Last(lines)'.seg, Last(lines)'.seg + 1}
    BY <1>6
  <2> QED
    BY <2>1, <2>2, <2>3, <2>4, <2>5 DEF LinesInv
<1> QED
  BY <1>5, <1>6, <1>7, <1>8, <1>9

\* The journal that stays the same stays valid, outside of a rollover.
LEMMA JournalUnchanged ==
  ASSUME JournalInv, lines' = lines, newest' = newest, meta' \in {meta, NextSequence},
         NextSequence \in Nat,
         pc' \in {"evict", "meta"} => pc \in {"evict", "meta"}
  PROVE  JournalInv'
<1>1. NextSequence' = NextSequence /\ Last(lines)' = Last(lines)
  BY DEF NextSequence, Last
<1>2. meta' <= NextSequence'
  BY <1>1 DEF JournalInv, LinesInv
<1> QED
  BY <1>1, <1>2 DEF JournalInv, LinesInv

LEMMA JournalStep == TypeOK /\ JournalInv /\ StepInv /\ [Next]_vars => JournalInv'
<1> SUFFICES ASSUME TypeOK, JournalInv, StepInv, [Next]_vars
             PROVE  JournalInv'
  OBVIOUS
<1>0. NextSequence \in Nat /\ meta \in Nat /\ meta <= NextSequence
  BY NextSequenceType DEF TypeOK, JournalInv, LinesInv
<1>1. CASE AppendEvent
  <2>1. CASE lines' = lines
    BY <1>0, <1>1, <2>1, JournalUnchanged, AppendType DEF AppendEvent, Goto
  <2>2. CASE lines' # lines
    <3>1. /\ todo # <<>> /\ lines' = Append(lines, NewLine) /\ newest' = Segment
          /\ meta' = meta
      BY <1>1, <2>2 DEF AppendEvent
    <3>2. /\ LinesInv' /\ lines' # <<>> /\ Last(lines)' = NewLine
          /\ NextSequence' = NextSequence + 1
      BY <3>1, LineAppended
    <3>3. meta' <= NextSequence'
      BY <1>0, <3>1, <3>2
    <3>4. Last(lines)'.seg = newest'
      BY <3>1, <3>2 DEF NewLine
    <3> QED
      BY <3>2, <3>3, <3>4 DEF JournalInv, LinesInv
  <2> QED
    BY <2>1, <2>2
<1>2. CASE Evict
  <2>1. lines # <<>> /\ Last(lines).seg = newest /\ newest' = newest /\ meta' = meta
    BY <1>2 DEF Evict, JournalInv, LinesInv
  <2>2. CASE Len(lines) > TotalEvents /\ Head(lines).seg # newest
    <3>1. /\ LinesInv' /\ lines' # <<>> /\ Last(lines)' = Last(lines)
          /\ NextSequence' = NextSequence
      BY <1>2, <2>1, <2>2, LinesEvicted DEF Evict
    <3> QED
      BY <1>0, <2>1, <3>1 DEF JournalInv, LinesInv
  <2>3. CASE ~(Len(lines) > TotalEvents /\ Head(lines).seg # newest)
    BY <1>0, <1>2, <2>1, <2>3, JournalUnchanged DEF Evict
  <2> QED
    BY <2>2, <2>3
<1>3. CASE TornWrite
  <2>1. /\ lines' = lines /\ newest' = Segment /\ meta' = meta
        /\ pc' = "idle"
    BY <1>3 DEF TornWrite, Die, Exit
  <2>2. newest \in Nat /\ Segment \in Nat /\ newest <= Segment
        /\ (lines # <<>> => Segment \in {Last(lines).seg, Last(lines).seg + 1})
    BY SegmentOfNewLine DEF TypeOK
  <2>3. NextSequence' = NextSequence /\ Last(lines)' = Last(lines)
    BY <2>1 DEF NextSequence, Last
  <2> QED
    BY <2>1, <2>2, <2>3 DEF JournalInv, LinesInv
<1>4. CASE JournalRecover
  BY <1>0, <1>4, JournalUnchanged DEF JournalRecover, Goto, Exit
<1>5. CASE WriteMeta
  BY <1>0, <1>5, JournalUnchanged DEF WriteMeta, Goto
<1>6. CASE HostChanges \/ (\E o \in Observers : Capture(o) \/ GiveUp(o))
  BY <1>0, <1>6, JournalUnchanged DEF HostChanges, Capture, GiveUp, journal
<1>7. CASE \E o \in Observers : Acquire(o)
  BY <1>0, <1>7, JournalUnchanged DEF Acquire, journal
<1>8. CASE Resume \/ Diff \/ Checkpoint \/ Observe \/ Clear
  BY <1>0, <1>8, JournalUnchanged
     DEF Resume, Diff, Checkpoint, Observe, Clear, Goto, Exit, journal
<1>9. CASE Crash
  BY <1>0, <1>9, JournalUnchanged DEF Crash, Die, Exit
<1>10. CASE UNCHANGED vars
  BY <1>0, <1>10, JournalUnchanged DEF vars, journal
<1> QED
  BY <1>1, <1>2, <1>3, <1>4, <1>5, <1>6, <1>7, <1>8, <1>9, <1>10 DEF Next, Rest

-----------------------------------------------------------------------------
(* The checkpoint and the history *)

LEMMA PlannedType ==
  ASSUME TypeOK, HasCheckpoint
  PROVE  /\ ckpt.prev \in Versions \union {None} /\ ckpt.cur \in Versions
         /\ Planned \in Seq(Events) /\ Len(Planned) \in Nat
         /\ DOMAIN Planned = 1..Len(Planned)
         /\ Len(Planned) <= TotalEvents - SegEvents + 1
         /\ \A i, j \in DOMAIN Planned : Planned[i] = Planned[j] => i = j
<1>1. ckpt.prev \in Versions \union {None} /\ ckpt.cur \in Versions
  BY DEF TypeOK, HasCheckpoint, Checkpoints
<1>2. /\ Planned \in Seq(Events)
      /\ Len(Planned) <= TotalEvents - SegEvents + 1
      /\ \A i, j \in DOMAIN Planned : Planned[i] = Planned[j] => i = j
  BY <1>1, TransitionEvents DEF Planned
<1> HIDE DEF Planned
<1> QED
  BY <1>1, <1>2, LenProperties

\* Without a checkpoint, an observation or an event told nothing changes here.
LEMMA CheckpointUnchanged ==
  ASSUME ckpt' = ckpt, obs' = obs, told' = told
  PROVE  /\ HasCheckpoint' = HasCheckpoint /\ Planned' = Planned
         /\ Unobserved' = Unobserved /\ History' = History
         /\ CheckpointInv => CheckpointInv'
<1>1. HasCheckpoint' = HasCheckpoint /\ Planned' = Planned /\ Anchor' = Anchor
  BY DEF HasCheckpoint, Planned, Anchor
<1>2. Unobserved' = Unobserved
  BY <1>1 DEF Unobserved
<1>3. History' = History
  BY <1>1, <1>2 DEF History
<1>4. CheckpointInv => CheckpointInv'
  BY <1>1, <1>2 DEF CheckpointInv
<1> QED
  BY <1>1, <1>2, <1>3, <1>4

\* A new checkpoint plans the events to append.
LEMMA CheckpointWritten ==
  ASSUME TypeOK, StepInv, Checkpoint
  PROVE  /\ HasCheckpoint' /\ Planned' = todo /\ Unobserved' /\ CheckpointInv'
         /\ ~Unobserved /\ History = told /\ told' = told /\ History' = told \o todo
<1>1. /\ ~HasCheckpoint /\ todo # <<>> /\ todo = DeriveEvents(obs, seen[lock])
      /\ ckpt' = [prev |-> obs, cur |-> seen[lock]] /\ obs' = obs /\ told' = told
  BY DEF Checkpoint, StepInv
<1>2. obs \in Versions \union {None} /\ seen[lock] \in Versions
  BY Committing DEF Checkpoint, TypeOK
<1>3. Fingerprint(obs) # Fingerprint(seen[lock])
  BY <1>1, <1>2, TransitionEvents
<1>4. ckpt' \in Checkpoints /\ ckpt'.prev = obs /\ ckpt'.cur = seen[lock]
  BY <1>1, <1>2 DEF Checkpoints
<1>5. HasCheckpoint'
  BY <1>4, BoundsOK DEF HasCheckpoint
<1>6. Planned' = todo
  BY <1>1, <1>4 DEF Planned
<1>7. Anchor' = Fingerprint(obs) /\ Unobserved'
  BY <1>1, <1>3, <1>4, <1>5 DEF Anchor, Unobserved
<1>8. CheckpointInv'
  BY <1>1, <1>4, <1>6, <1>7 DEF CheckpointInv
<1>9. ~Unobserved /\ History = told /\ told' = told /\ History' = told \o todo
  BY <1>1, <1>6, <1>7 DEF Unobserved, History
<1> QED
  BY <1>5, <1>6, <1>7, <1>8, <1>9

\* The new observation is the planned one: what was planned is told.
LEMMA CheckpointObserved ==
  ASSUME TypeOK, CheckpointInv, StepInv, Observe
  PROVE  ~Unobserved' /\ CheckpointInv' /\ History' = History /\ told' = History
<1>1. /\ obs \in Versions \union {None} /\ seen[lock] \in Versions /\ told \in Seq(Events)
      /\ ckpt' = ckpt /\ HasCheckpoint' = HasCheckpoint /\ Planned' = Planned
      /\ told' = told \o DeriveEvents(obs, obs')
  BY Committing DEF Observe, TypeOK, HasCheckpoint, Planned
<1>2. CASE Unobserved
  <2>1. HasCheckpoint /\ Fingerprint(obs) = Fingerprint(ckpt.prev) /\ obs' = ckpt.cur
    BY <1>2 DEF Unobserved, CheckpointInv, Observe, Anchor
  <2>2. told' = told \o Planned /\ History = told \o Planned
    BY <1>1, <1>2, <2>1, PlannedType, EventsOfFingerprints DEF Planned, History
  <2>3. ~Unobserved'
    BY <1>1, <2>1 DEF Unobserved, Anchor
  <2>4. /\ Len(told') = Len(told) + Len(Planned) /\ Len(told) \in Nat
        /\ \A i \in 1..Len(told') : told'[i] = IF i <= Len(told) THEN told[i]
                                               ELSE Planned[i - Len(told)]
    <3>1. told \in Seq(Events) /\ Planned \in Seq(Events)
      BY <1>1, <2>1, PlannedType
    <3>2. /\ Len(told \o Planned) = Len(told) + Len(Planned)
          /\ \A i \in 1..Len(told) + Len(Planned) : (told \o Planned)[i] =
               IF i <= Len(told) THEN told[i] ELSE Planned[i - Len(told)]
      BY <3>1, ConcatProperties
    <3>3. Len(told) \in Nat
      BY <3>1
    <3> QED
      BY <2>2, <3>2, <3>3
  <2>5. \A i \in DOMAIN Planned : Planned[i] = told'[Len(told') - Len(Planned) + i]
    <3> SUFFICES ASSUME NEW i \in 1..Len(Planned)
                 PROVE  Planned[i] = told'[Len(told') - Len(Planned) + i]
      BY <2>1, PlannedType
    <3>1. Len(Planned) \in Nat
      BY <2>1, PlannedType
    <3>2. /\ Len(told') - Len(Planned) + i = Len(told) + i
          /\ Len(told) + i \in 1..Len(told') /\ ~(Len(told) + i <= Len(told))
          /\ Len(told) + i - Len(told) = i
      BY <2>4, <3>1
    <3> QED
      BY <2>4, <3>2
  <2>6. Len(Planned) <= Len(told')
    BY <2>1, <2>4, PlannedType
  <2>7. CheckpointInv'
    BY <1>1, <2>1, <2>3, <2>5, <2>6 DEF CheckpointInv
  <2> QED
    BY <2>2, <2>3, <2>7 DEF History
<1>3. CASE ~Unobserved
  <2>1. ~HasCheckpoint /\ DeriveEvents(obs, seen[lock]) = <<>> /\ obs' = seen[lock]
    BY <1>3 DEF StepInv, Observe
  <2>2. told' = told
    BY <1>1, <2>1, ConcatEmptySeq
  <2>3. ~HasCheckpoint' /\ ~Unobserved' /\ CheckpointInv'
    BY <1>1, <2>1 DEF Unobserved, CheckpointInv
  <2> QED
    BY <1>3, <2>2, <2>3 DEF History
<1> QED
  BY <1>2, <1>3

\* Only an observation replaced as planned lets the checkpoint go.
LEMMA CheckpointCleared ==
  ASSUME StepInv, Clear
  PROVE  ~HasCheckpoint' /\ ~Unobserved' /\ CheckpointInv' /\ History' = History
<1>1. ~Unobserved /\ told' = told /\ ckpt' = None
  BY DEF StepInv, Clear
<1>2. ~HasCheckpoint'
  BY <1>1 DEF HasCheckpoint
<1> QED
  BY <1>1, <1>2 DEF Unobserved, CheckpointInv, History

LEMMA CheckpointStep ==
  ASSUME TypeOK, CheckpointInv, StepInv, [Next]_vars
  PROVE  CheckpointInv' /\ (~Checkpoint => History' = History)
<1>1. CASE Checkpoint
  BY <1>1, CheckpointWritten
<1>2. CASE Observe
  BY <1>2, CheckpointObserved
<1>3. CASE Clear
  BY <1>3, CheckpointCleared
<1>4. CASE \/ HostChanges \/ JournalRecover \/ Resume \/ Diff \/ AppendEvent \/ Evict
           \/ WriteMeta \/ Crash \/ TornWrite \/ Rest \/ UNCHANGED vars
           \/ \E o \in Observers : Capture(o) \/ Acquire(o) \/ GiveUp(o)
  <2>1. ckpt' = ckpt /\ obs' = obs /\ told' = told
    BY <1>4 DEF HostChanges, JournalRecover, Resume, Diff, AppendEvent, Evict, WriteMeta,
                Crash, TornWrite, Die, Rest, vars, Capture, Acquire, GiveUp
  <2> QED
    BY <2>1, CheckpointUnchanged
<1> QED
  BY <1>1, <1>2, <1>3, <1>4 DEF Next

\* When one is done, the others are the last ones planned.
LEMMA TailRemains ==
  ASSUME TypeOK, Remaining, todo # <<>>, todo' = Tail(todo),
         Planned' = Planned, Unobserved' = Unobserved
  PROVE  Remaining' /\ Len(todo') = Len(todo) - 1
<1>1. todo \in Seq(Events) /\ Len(Planned) \in Nat
  BY PlannedType DEF TypeOK, Remaining, Unobserved
<1>2. /\ Len(todo) \in Nat /\ Len(todo) # 0 /\ DOMAIN todo = 1..Len(todo)
      /\ Len(todo') = Len(todo) - 1 /\ DOMAIN todo' = 1..Len(todo')
      /\ \A i \in 1..Len(todo') : todo'[i] = todo[i + 1]
  BY <1>1, HeadTailProperties, EmptySeq
<1>3. Len(todo') <= Len(Planned)
  BY <1>1, <1>2 DEF Remaining
<1>4. ASSUME NEW i \in DOMAIN todo'
      PROVE  todo'[i] = Planned[Len(Planned) - Len(todo') + i]
  <2>1. i + 1 \in DOMAIN todo /\ todo'[i] = todo[i + 1]
    BY <1>2
  <2>2. Len(Planned) - Len(todo) + (i + 1) = Len(Planned) - Len(todo') + i
    BY <1>1, <1>2
  <2>3. todo[i + 1] = Planned[Len(Planned) - Len(todo) + (i + 1)]
    BY <2>1 DEF Remaining
  <2> QED
    BY <2>1, <2>2, <2>3
<1> QED
  BY <1>2, <1>3, <1>4 DEF Remaining

LEMMA StepUnchanged ==
  ASSUME StepInv, ckpt' = ckpt, obs' = obs, told' = told, pc' = pc, todo' = todo,
         resuming' = resuming, pc # "idle" => seen'[lock'] = seen[lock]
  PROVE  StepInv'
<1>1. /\ HasCheckpoint' = HasCheckpoint /\ Planned' = Planned
      /\ Unobserved' = Unobserved
  BY CheckpointUnchanged
<1>2. pc # "idle" => DeriveEvents(obs, seen[lock])' = DeriveEvents(obs, seen[lock])
  BY DEF DeriveEvents
<1> QED
  BY <1>1, <1>2 DEF StepInv, Remaining

LEMMA StepStep ==
  ASSUME TypeOK, CheckpointInv, StepInv, [Next]_vars
  PROVE  StepInv'
<1>1. CASE JournalRecover
  BY <1>1 DEF JournalRecover, StepInv, Goto, Exit
<1>2. CASE Resume
  <2>1. /\ HasCheckpoint' = HasCheckpoint /\ Planned' = Planned
        /\ Unobserved' = Unobserved /\ ~resuming /\ Unobserved \in BOOLEAN
    BY <1>2, CheckpointUnchanged DEF Resume, StepInv, TypeOK, Unobserved
  <2>2. CASE HasCheckpoint /\ Pending
    <3>1. /\ pc' = "append" /\ todo' = Planned /\ Unobserved
          /\ Planned \in Seq(Events)
      BY <1>2, <2>2, PlannedType DEF Resume, Goto, Planned, Pending, Unobserved
    <3>2. /\ Len(todo') <= Len(Planned')
          /\ \A i \in DOMAIN todo' : todo'[i] = Planned'[Len(Planned') - Len(todo') + i]
      BY <2>1, <3>1
    <3> QED
      BY <2>1, <3>1, <3>2 DEF StepInv, Remaining
  <2>3. CASE ~(HasCheckpoint /\ Pending)
    <3>1. ~resuming'
      BY <1>2, <2>1, <2>3 DEF Resume
    <3>2. CASE ~HasCheckpoint
      BY <1>2, <2>1, <2>3, <3>1, <3>2 DEF Resume, Goto, StepInv
    <3>3. CASE HasCheckpoint /\ Converged
      BY <1>2, <2>1, <2>3, <3>1, <3>3 DEF Resume, Goto, StepInv, Converged, Unobserved
    <3>4. CASE HasCheckpoint /\ ~Converged
      BY <1>2, <2>1, <2>3, <3>1, <3>4 DEF Resume, Exit, StepInv
    <3> QED
      BY <3>2, <3>3, <3>4
  <2> QED
    BY <2>2, <2>3
<1>3. CASE Diff
  <2>1. /\ ~HasCheckpoint' /\ ~resuming' /\ obs' = obs /\ seen'[lock'] = seen[lock]
        /\ todo' = DeriveEvents(obs, seen[lock])
        /\ pc' = IF todo' = <<>> THEN "observe" ELSE "checkpoint"
    BY <1>3 DEF Diff, StepInv, HasCheckpoint, Goto
  <2>2. todo' = DeriveEvents(obs, seen[lock])'
    BY <2>1 DEF DeriveEvents
  <2> QED
    BY <2>1, <2>2 DEF StepInv
<1>4. CASE Checkpoint
  <2>1. Planned' = todo' /\ Unobserved' /\ pc' = "append" /\ todo \in Seq(Events)
    BY <1>4, CheckpointWritten DEF Checkpoint, Goto, TypeOK
  <2>2. /\ Len(todo') <= Len(Planned')
        /\ \A i \in DOMAIN todo' : todo'[i] = Planned'[Len(Planned') - Len(todo') + i]
    BY <1>4, <2>1 DEF Checkpoint
  <2> QED
    BY <2>1, <2>2 DEF StepInv, Remaining
<1>5. CASE AppendEvent \/ Evict \/ WriteMeta
  <2>1. /\ HasCheckpoint' = HasCheckpoint /\ Planned' = Planned
        /\ Unobserved' = Unobserved
    BY <1>5, CheckpointUnchanged DEF AppendEvent, Evict, WriteMeta
  <2>2. Remaining /\ resuming' = resuming
    BY <1>5 DEF AppendEvent, Evict, WriteMeta, StepInv
  <2>3. CASE todo' = todo
    <3>1. Remaining'
      BY <2>1, <2>2, <2>3 DEF Remaining
    <3>2. /\ pc' \in {"append", "evict", "meta", "observe"}
          /\ pc' \in {"evict", "meta"} => todo # <<>>
      BY <1>5 DEF AppendEvent, Evict, WriteMeta, StepInv, Goto
    <3> QED
      BY <2>1, <2>2, <2>3, <3>1, <3>2 DEF Remaining, StepInv
  <2>4. CASE todo' # todo
    <3>1. pc' = "append" /\ todo # <<>> /\ todo' = Tail(todo)
      BY <1>5, <2>4 DEF AppendEvent, Evict, WriteMeta, StepInv, Goto
    <3>2. Remaining'
      BY <2>1, <2>2, <3>1, TailRemains
    <3> QED
      BY <2>1, <3>1, <3>2 DEF Remaining, StepInv
  <2> QED
    BY <2>3, <2>4
<1>6. CASE Observe
  BY <1>6, CheckpointObserved DEF Observe, Goto, StepInv
<1>7. CASE Clear
  BY <1>7, CheckpointCleared DEF Clear, Goto, Exit, StepInv
<1>8. CASE Crash \/ TornWrite
  BY <1>8 DEF Crash, TornWrite, Die, Exit, StepInv
<1>9. CASE HostChanges \/ UNCHANGED vars
  BY <1>9, StepUnchanged DEF HostChanges, vars
<1>10. ASSUME NEW o \in Observers, Acquire(o)
       PROVE  StepInv'
  BY <1>10 DEF Acquire, StepInv, TypeOK
<1>11. ASSUME NEW o \in Observers, Capture(o) \/ GiveUp(o)
       PROVE  StepInv'
  <2>1. pc # "idle" => seen'[lock'] = seen[lock]
    BY <1>11, Committing DEF Capture, GiveUp, TypeOK
  <2> QED
    BY <1>11, <2>1, StepUnchanged DEF Capture, GiveUp
<1> QED
  BY <1>1, <1>2, <1>3, <1>4, <1>5, <1>6, <1>7, <1>8, <1>9, <1>10, <1>11 DEF Next, Rest

-----------------------------------------------------------------------------
(* The numbers of the events *)

LEMMA HistoryType ==
  ASSUME TypeOK
  PROVE  /\ told \in Seq(Events) /\ Len(told) \in Nat /\ DOMAIN told = 1..Len(told)
         /\ History \in Seq(Events) /\ Len(History) \in Nat
         /\ DOMAIN History = 1..Len(History)
         /\ Unobserved =>
              /\ Len(History) = Len(told) + Len(Planned)
              /\ \A k \in DOMAIN Planned : History[Len(told) + k] = Planned[k]
<1>1. told \in Seq(Events) /\ Len(told) \in Nat
  BY DEF TypeOK
<1>2. CASE Unobserved
  <2>1. Planned \in Seq(Events) /\ Len(Planned) \in Nat /\ DOMAIN Planned = 1..Len(Planned)
    BY <1>2, PlannedType DEF Unobserved
  <2>2. History = told \o Planned
    BY <1>2 DEF History
  <2>3. /\ History \in Seq(Events) /\ Len(History) = Len(told) + Len(Planned)
        /\ \A i \in 1..Len(told) + Len(Planned) : History[i] =
             IF i <= Len(told) THEN told[i] ELSE Planned[i - Len(told)]
    BY <1>1, <2>1, <2>2, ConcatProperties
  <2>4. ASSUME NEW k \in 1..Len(Planned)
        PROVE  History[Len(told) + k] = Planned[k]
    <3>1. /\ Len(told) + k \in 1..Len(told) + Len(Planned)
          /\ ~(Len(told) + k <= Len(told)) /\ Len(told) + k - Len(told) = k
      BY <1>1, <2>1
    <3> QED
      BY <2>3, <3>1
  <2> QED
    BY <1>1, <2>1, <2>3, <2>4, LenProperties
<1>3. CASE ~Unobserved
  BY <1>1, <1>3 DEF History
<1> QED
  BY <1>2, <1>3

\* A line's number lies below the next one, and in the history.
LEMMA LineInHistory ==
  ASSUME TypeOK, JournalInv, Numbered, NEW i \in DOMAIN lines
  PROVE  /\ lines[i].seq \in DOMAIN History /\ lines[i].seq < NextSequence
         /\ lines[i].event = History[lines[i].seq]
<1>1. /\ Len(lines) \in Nat /\ i \in 1..Len(lines) /\ lines[i].seq \in Nat
      /\ NextSequence \in Nat
  BY NextSequenceType
<1>2. lines[i].seq + Len(lines) + 1 = NextSequence + i
  BY DEF JournalInv, LinesInv
<1>3. lines[i].seq < NextSequence
  BY <1>1, <1>2
<1>4. /\ lines[i].seq > 0 /\ lines[i].event = History[lines[i].seq]
      /\ NextSequence <= Len(History) + 1
  BY DEF Numbered
<1>5. Len(History) \in Nat /\ DOMAIN History = 1..Len(History)
  BY HistoryType
<1>6. lines[i].seq \in 1..Len(History)
  BY <1>1, <1>3, <1>4, <1>5
<1> QED
  BY <1>3, <1>4, <1>5, <1>6

\* The next event to append is that far from the end of the history.
LEMMA NextToAppend ==
  ASSUME TypeOK, Remaining, todo # <<>>, NEW p, p = Len(History) - Len(todo) + 1
  PROVE  /\ p \in DOMAIN History /\ Len(told) < p /\ p \in Nat
         /\ Head(todo) = History[p]
         /\ Len(todo) \in Nat /\ Len(todo) > 0
<1>1. /\ todo \in Seq(Events) /\ Len(todo) \in Nat /\ Len(todo) > 0 /\ Head(todo) = todo[1]
      /\ 1 \in DOMAIN todo
  <2>1. todo \in Seq(Events)
    BY DEF TypeOK
  <2> QED
    BY <2>1
<1>2. /\ Unobserved /\ Len(todo) <= Len(Planned)
      /\ todo[1] = Planned[Len(Planned) - Len(todo) + 1]
  BY <1>1 DEF Remaining
<1>3. Len(Planned) \in Nat /\ DOMAIN Planned = 1..Len(Planned)
  BY <1>2, PlannedType DEF Unobserved
<1>4. /\ Len(told) \in Nat /\ Len(History) = Len(told) + Len(Planned)
      /\ \A k \in DOMAIN Planned : History[Len(told) + k] = Planned[k]
      /\ DOMAIN History = 1..Len(History)
  BY <1>2, HistoryType
<1>5. Len(Planned) - Len(todo) + 1 \in DOMAIN Planned
  BY <1>1, <1>2, <1>3
<1>6. /\ p = Len(told) + (Len(Planned) - Len(todo) + 1)
      /\ Len(told) < p /\ p \in 1..Len(History)
  BY <1>1, <1>2, <1>3, <1>4
<1> QED
  BY <1>1, <1>2, <1>4, <1>5, <1>6

\* The last events of the history, as many as one transition can plan, are still
\* in the journal when they have been numbered: an eviction leaves that many lines.
LEMMA NewestAreKept ==
  ASSUME TypeOK, JournalInv, Numbered, NEW p \in Nat, p > 0, p < NextSequence,
         Len(History) <= p + (TotalEvents - SegEvents)
  PROVE  \E i \in DOMAIN lines : lines[i].seq = p /\ lines[i].event = History[p]
<1> DEFINE i == p + Len(lines) + 1 - NextSequence
<1>1. /\ Len(lines) \in Nat /\ DOMAIN lines = 1..Len(lines) /\ NextSequence \in Nat
      /\ \A k \in DOMAIN lines : lines[k].seq \in Nat
  BY NextSequenceType
<1>2. Len(History) \in Nat /\ TotalEvents - SegEvents \in Int
  <2>1. TotalEvents - SegEvents \in Int
    BY BoundsOK
  <2> QED
    BY <2>1, HistoryType
<1>3. NextSequence <= Len(History) + 1
  BY DEF Numbered
<1>4. i \in DOMAIN lines
  <2>1. i \in Int /\ i <= Len(lines)
    BY <1>1
  <2>2. CASE Len(lines) + 1 = NextSequence
    BY <1>1, <2>1, <2>2
  <2>3. CASE Len(lines) > TotalEvents - SegEvents
    BY <1>1, <1>2, <1>3, <2>1, <2>3
  <2> QED
    BY <2>2, <2>3 DEF Numbered
<1>5. lines[i].seq + Len(lines) + 1 = NextSequence + i
  BY <1>4 DEF JournalInv, LinesInv
<1>6. lines[i].seq = p
  <2>1. lines[i].seq \in Nat
    BY <1>1, <1>4
  <2> QED
    BY <1>1, <1>5, <2>1
<1> QED
  BY <1>4, <1>6 DEF Numbered

\* So are those of the transition that is being committed.
LEMMA PlannedIsKept ==
  ASSUME TypeOK, JournalInv, Numbered, Unobserved,
         NEW p \in Nat, Len(told) < p, p < NextSequence
  PROVE  \E i \in DOMAIN lines : lines[i].seq = p /\ lines[i].event = History[p]
<1>1. /\ Len(told) \in Nat /\ Len(History) = Len(told) + Len(Planned)
      /\ Len(Planned) \in Nat /\ Len(Planned) <= TotalEvents - SegEvents + 1
      /\ TotalEvents - SegEvents \in Int
  <2>1. HasCheckpoint
    BY DEF Unobserved
  <2>2. TotalEvents - SegEvents \in Int
    BY BoundsOK
  <2> QED
    BY <2>1, <2>2, HistoryType, PlannedType
<1>2. p > 0 /\ Len(History) <= p + (TotalEvents - SegEvents)
  BY <1>1
<1> QED
  BY <1>2, NewestAreKept

\* An event that is passed over has its number already.
LEMMA SkippedIsNumbered ==
  ASSUME TypeOK, JournalInv, Once, Numbered, Remaining, todo # <<>>,
         HasTransition(Head(todo))
  PROVE  NextSequence + Len(todo) >= Len(History) + 2
<1>1. PICK p : p = Len(History) - Len(todo) + 1
  OBVIOUS
<1>2. /\ p \in DOMAIN History /\ p \in Nat /\ Head(todo) = History[p]
      /\ Len(todo) \in Nat
  BY <1>1, NextToAppend
<1>3. PICK i \in DOMAIN lines : lines[i].event = History[p]
  BY <1>2 DEF HasTransition
<1>4. lines[i].seq = p /\ p < NextSequence
  BY <1>2, <1>3, LineInHistory DEF Once
<1>5. NextSequence \in Nat /\ Len(History) \in Nat
  BY NextSequenceType, HistoryType
<1> QED
  BY <1>1, <1>2, <1>4, <1>5

\* An event that is appended gets its number.
LEMMA AppendedIsNext ==
  ASSUME TypeOK, JournalInv, Numbered, Progress, Remaining, pc = "append",
         todo # <<>>, ~Skips
  PROVE  NextSequence + Len(todo) = Len(History) + 1
<1>1. PICK p : p = Len(History) - Len(todo) + 1
  OBVIOUS
<1>2. /\ p \in Nat /\ Head(todo) = History[p] /\ Len(todo) \in Nat /\ Len(told) < p
  BY <1>1, NextToAppend
<1>3. NextSequence + Len(todo) >= Len(History) + 1
  BY DEF Progress
<1>4. CASE ~resuming
  BY <1>4 DEF Progress
<1>5. CASE resuming
  <2>1. ~(p < NextSequence)
    <3> SUFFICES ASSUME p < NextSequence
                 PROVE  HasTransition(Head(todo))
      BY <1>5 DEF Skips
    <3> QED
      BY <1>2, PlannedIsKept DEF HasTransition, Remaining
  <2>2. NextSequence \in Nat /\ Len(History) \in Nat
    BY NextSequenceType, HistoryType
  <2> QED
    BY <1>1, <1>2, <1>3, <2>1, <2>2
<1> QED
  BY <1>4, <1>5

\* What is told twice stays told twice.
LEMMA OnceBefore ==
  ASSUME TypeOK, CheckpointInv, StepInv, [Next]_vars, Once'
  PROVE  Once
<1>1. CASE ~Checkpoint
  BY <1>1, CheckpointStep DEF Once
<1>2. CASE Checkpoint
  <2>1. History = told /\ History' = told \o todo
    BY <1>2, CheckpointWritten
  <2>2. told \in Seq(Events) /\ todo \in Seq(Events)
    BY DEF TypeOK
  <2>3. /\ Len(told) \in Nat /\ Len(todo) \in Nat /\ DOMAIN told = 1..Len(told)
        /\ DOMAIN (told \o todo) = 1..Len(told) + Len(todo)
        /\ \A i \in 1..Len(told) + Len(todo) : (told \o todo)[i] =
             IF i <= Len(told) THEN told[i] ELSE todo[i - Len(told)]
    <3>1. told \o todo \in Seq(Events) /\ Len(told \o todo) = Len(told) + Len(todo)
      BY <2>2, ConcatProperties
    <3> QED
      BY <2>2, <3>1, ConcatProperties, LenProperties
  <2>4. \A i \in DOMAIN told : i \in DOMAIN (told \o todo) /\ (told \o todo)[i] = told[i]
    BY <2>3
  <2>5. \A i, j \in DOMAIN (told \o todo) : (told \o todo)[i] = (told \o todo)[j] => i = j
    BY <2>1 DEF Once
  <2> QED
    BY <2>1, <2>4, <2>5 DEF Once
<1> QED
  BY <1>1, <1>2

LEMMA NumberedUnchanged ==
  ASSUME Numbered, lines' = lines, told' = told, History' = History
  PROVE  Numbered' /\ NextSequence' = NextSequence
<1>1. NextSequence' = NextSequence
  BY DEF NextSequence, Last
<1> QED
  BY <1>1 DEF Numbered

\* A line appended has the number of its event.
LEMMA NumberedAppend ==
  ASSUME TypeOK, JournalInv, Numbered, Progress, Remaining, pc = "append",
         todo # <<>>, ~Skips, lines' = Append(lines, NewLine), newest' = Segment,
         told' = told, History' = History
  PROVE  /\ Numbered' /\ NextSequence' + Len(todo) = Len(History') + 2
<1>1. /\ NextSequence + Len(todo) = Len(History) + 1
      /\ Len(todo) \in Nat /\ Len(todo) > 0 /\ Head(todo) = History[NextSequence]
      /\ NextSequence \in Nat /\ Len(History) \in Nat /\ Len(told) < NextSequence
      /\ Len(told) \in Nat /\ NextSequence > 0
  <2>1. PICK p : p = Len(History) - Len(todo) + 1
    OBVIOUS
  <2>2. /\ Len(told) < p /\ p \in Nat /\ Head(todo) = History[p]
        /\ Len(todo) \in Nat /\ Len(todo) > 0
    BY <2>1, NextToAppend
  <2>3. NextSequence \in Nat /\ Len(History) \in Nat /\ Len(told) \in Nat
    BY NextSequenceType, HistoryType
  <2>4. NextSequence + Len(todo) = Len(History) + 1
    BY AppendedIsNext
  <2>5. NextSequence = p
    BY <2>1, <2>2, <2>3, <2>4
  <2> QED
    BY <2>2, <2>3, <2>4, <2>5
<1>2. /\ NextSequence' = NextSequence + 1
      /\ Len(lines') = Len(lines) + 1 /\ DOMAIN lines' = 1..Len(lines) + 1
      /\ \A i \in DOMAIN lines : lines'[i] = lines[i]
      /\ lines'[Len(lines) + 1] = NewLine
  BY LineAppended
<1>3. Len(lines) \in Nat /\ DOMAIN lines = 1..Len(lines)
  BY NextSequenceType
<1>4. ASSUME NEW i \in DOMAIN lines'
      PROVE  lines'[i].seq > 0 /\ lines'[i].event = History[lines'[i].seq]
  <2>1. CASE i \in DOMAIN lines
    BY <1>2, <2>1 DEF Numbered
  <2>2. CASE i = Len(lines) + 1
    <3>1. lines'[i].seq = NextSequence /\ lines'[i].event = Head(todo)
      BY <1>2, <2>2 DEF NewLine
    <3> QED
      BY <1>1, <3>1
  <2> QED
    BY <1>2, <1>3, <2>1, <2>2
<1>5. Len(lines') + 1 = NextSequence' \/ Len(lines') > TotalEvents - SegEvents
  <2>1. TotalEvents - SegEvents \in Int
    BY BoundsOK
  <2>2. Len(lines) + 1 = NextSequence \/ Len(lines) > TotalEvents - SegEvents
    BY DEF Numbered
  <2>3. CASE Len(lines) + 1 = NextSequence
    BY <1>2, <2>3
  <2>4. CASE Len(lines) > TotalEvents - SegEvents
    BY <1>2, <1>3, <2>1, <2>4
  <2> QED
    BY <2>2, <2>3, <2>4
<1>6. Len(told) < NextSequence + 1 /\ NextSequence + 1 <= Len(History) + 1
      /\ (NextSequence + 1) + Len(todo) = Len(History) + 2
  BY <1>1
<1> QED
  BY <1>2, <1>4, <1>5, <1>6 DEF Numbered

\* An eviction leaves more than TotalEvents - SegEvents lines.
LEMMA NumberedEvict ==
  ASSUME TypeOK, JournalInv, Numbered, lines # <<>>, Last(lines).seg = newest,
         Head(lines).seg # newest, EvictOldest, Len(lines) > TotalEvents,
         newest' = newest, told' = told, History' = History
  PROVE  Numbered' /\ NextSequence' = NextSequence
<1>1. PICK n \in 1..SegEvents :
        /\ Len(lines') = Len(lines) - n
        /\ \A i \in DOMAIN lines' : i + n \in DOMAIN lines /\ lines'[i] = lines[i + n]
  BY LinesEvicted
<1>2. NextSequence' = NextSequence
  BY LinesEvicted
<1>3. Len(lines) - n > TotalEvents - SegEvents
  BY NextSequenceType, BoundsOK
<1>4. \A i \in DOMAIN lines' : lines'[i].seq > 0 /\ lines'[i].event = History[lines'[i].seq]
  BY <1>1 DEF Numbered
<1> QED
  BY <1>1, <1>2, <1>3, <1>4 DEF Numbered

LEMMA NumberedStep ==
  ASSUME TypeOK, JournalInv, CheckpointInv, StepInv, Once, Numbered, Progress, [Next]_vars
  PROVE  Numbered' /\ Progress'
<1>0. /\ NextSequence \in Nat /\ Len(History) \in Nat /\ Len(told) \in Nat
      /\ Len(told) < NextSequence /\ NextSequence <= Len(History) + 1
      /\ todo \in Seq(Events) /\ Len(todo) \in Nat
  BY NextSequenceType, HistoryType DEF TypeOK, Numbered
<1>1. CASE Resume
  <2>1. Numbered' /\ NextSequence' = NextSequence /\ History' = History
    BY <1>1, CheckpointUnchanged, NumberedUnchanged DEF Resume, journal
  <2>2. CASE HasCheckpoint /\ Pending
    <3>1. Unobserved /\ pc' = "append" /\ todo' = Planned /\ resuming'
      BY <1>1, <2>2 DEF Resume, Goto, Unobserved, Pending, Planned
    <3>2. Len(History) = Len(told) + Len(Planned) /\ Len(Planned) \in Nat
      BY <2>2, <3>1, HistoryType, PlannedType
    <3>3. NextSequence + Len(Planned) >= Len(History) + 1
      BY <1>0, <3>2
    <3> QED
      BY <2>1, <3>1, <3>3 DEF Progress
  <2>3. CASE ~(HasCheckpoint /\ Pending)
    BY <1>1, <2>1, <2>3 DEF Resume, Goto, Exit, Progress
  <2> QED
    BY <2>2, <2>3
<1>2. CASE Diff
  <2>1. Numbered' /\ NextSequence' = NextSequence /\ History' = History
    BY <1>2, CheckpointUnchanged, NumberedUnchanged DEF Diff, journal
  <2>2. History = told
    BY <1>2 DEF Diff, StepInv, Unobserved, History
  <2>3. NextSequence = Len(History) + 1
    BY <1>0, <2>2
  <2> QED
    BY <1>2, <2>1, <2>3 DEF Diff, Goto, Progress
<1>3. CASE Checkpoint
  <2>1. /\ History = told /\ told' = told /\ History' = told \o todo /\ lines' = lines
        /\ pc' = "append" /\ todo' = todo
    BY <1>3, CheckpointWritten DEF Checkpoint, Goto, journal
  <2>2. NextSequence' = NextSequence
    BY <2>1 DEF NextSequence, Last
  <2>3. /\ Len(History') = Len(told) + Len(todo)
        /\ \A i \in 1..Len(told) : History'[i] = told[i]
    <3>1. told \in Seq(Events)
      BY DEF TypeOK
    <3>2. /\ Len(told \o todo) = Len(told) + Len(todo)
          /\ \A i \in 1..Len(told) + Len(todo) : (told \o todo)[i] =
               IF i <= Len(told) THEN told[i] ELSE todo[i - Len(told)]
      BY <1>0, <3>1, ConcatProperties
    <3>3. \A i \in 1..Len(told) : i <= Len(told) /\ i \in 1..Len(told) + Len(todo)
      BY <1>0
    <3> QED
      BY <2>1, <3>2, <3>3
  <2>4. /\ NextSequence = Len(told) + 1 /\ NextSequence <= (Len(told) + Len(todo)) + 1
        /\ NextSequence + Len(todo) = (Len(told) + Len(todo)) + 1
    <3>1. Len(History) = Len(told)
      BY <2>1
    <3> QED
      BY <1>0, <3>1
  <2>5. ASSUME NEW i \in DOMAIN lines
        PROVE  lines[i].seq > 0 /\ lines[i].event = History'[lines[i].seq]
    <3>1. lines[i].seq \in 1..Len(told) /\ lines[i].event = told[lines[i].seq]
      BY <2>1, LineInHistory, HistoryType
    <3> QED
      BY <2>3, <3>1
  <2>6. Numbered'
    BY <1>0, <2>1, <2>2, <2>3, <2>4, <2>5 DEF Numbered
  <2>7. Progress'
    <3>1. /\ NextSequence' + Len(todo') = Len(History') + 1
          /\ NextSequence' + Len(todo') >= Len(History') + 1
      BY <1>0, <2>1, <2>2, <2>3, <2>4
    <3> QED
      BY <2>1, <3>1 DEF Progress
  <2> QED
    BY <2>6, <2>7
<1>4. CASE AppendEvent
  <2>0. History' = History /\ told' = told /\ Remaining /\ pc = "append"
    BY <1>4, CheckpointUnchanged DEF AppendEvent, StepInv
  <2>1. CASE todo = <<>>
    <3>1. Numbered' /\ NextSequence' = NextSequence /\ pc' = "observe"
      BY <1>4, <2>0, <2>1, NumberedUnchanged DEF AppendEvent, Goto
    <3>2. NextSequence = Len(History) + 1
      <4>1. NextSequence + Len(todo) >= Len(History) + 1
        BY <2>0 DEF Progress
      <4> QED
        BY <1>0, <2>1, <4>1
    <3> QED
      BY <2>0, <3>1, <3>2 DEF Progress
  <2>2. CASE todo # <<>> /\ Skips
    <3>1. /\ Numbered' /\ NextSequence' = NextSequence /\ pc' = "append"
          /\ todo' = Tail(todo) /\ resuming' = resuming /\ resuming
      BY <1>4, <2>0, <2>2, NumberedUnchanged DEF AppendEvent, Goto, Skips
    <3>2. NextSequence + Len(todo) >= Len(History) + 2
      BY <2>0, <2>2, SkippedIsNumbered DEF Skips
    <3>3. Len(Tail(todo)) = Len(todo) - 1
      BY <1>0, <2>2
    <3>4. NextSequence + Len(Tail(todo)) >= Len(History) + 1
      BY <1>0, <3>2, <3>3
    <3> QED
      BY <2>0, <3>1, <3>4 DEF Progress
  <2>3. CASE todo # <<>> /\ ~Skips
    <3>1. /\ pc' = "evict" /\ todo' = todo
          /\ lines' = Append(lines, NewLine) /\ newest' = Segment
      BY <1>4, <2>3 DEF AppendEvent, Goto
    <3>2. Numbered' /\ NextSequence' + Len(todo) = Len(History') + 2
      BY <2>0, <2>3, <3>1, NumberedAppend
    <3> QED
      BY <3>1, <3>2 DEF Progress
  <2> QED
    BY <2>1, <2>2, <2>3
<1>5. CASE Evict
  <2>0. /\ History' = History /\ told' = told /\ newest' = newest /\ todo' = todo
        /\ pc = "evict" /\ pc' \in {"evict", "meta"}
    BY <1>5, CheckpointUnchanged DEF Evict, Goto
  <2>1. Numbered' /\ NextSequence' = NextSequence
    <3>1. CASE Len(lines) > TotalEvents /\ Head(lines).seg # newest
      BY <1>5, <2>0, <3>1, NumberedEvict DEF Evict, JournalInv
    <3>2. CASE ~(Len(lines) > TotalEvents /\ Head(lines).seg # newest)
      BY <1>5, <2>0, <3>2, NumberedUnchanged DEF Evict
    <3> QED
      BY <3>1, <3>2
  <2> QED
    BY <2>0, <2>1 DEF Progress
<1>6. CASE WriteMeta
  <2>1. /\ Numbered' /\ NextSequence' = NextSequence /\ History' = History
        /\ pc' = "append" /\ todo' = Tail(todo) /\ todo # <<>> /\ pc = "meta"
    BY <1>6, CheckpointUnchanged, NumberedUnchanged DEF WriteMeta, Goto, StepInv
  <2>2. Len(Tail(todo)) = Len(todo) - 1
    BY <1>0, <2>1
  <2>3. NextSequence + Len(todo) = Len(History) + 2
    BY <2>1 DEF Progress
  <2>4. NextSequence + Len(Tail(todo)) = Len(History) + 1
    BY <1>0, <2>2, <2>3
  <2>5. NextSequence + Len(Tail(todo)) >= Len(History) + 1
    BY <1>0, <2>4
  <2> QED
    BY <2>1, <2>4, <2>5 DEF Progress
<1>7. CASE Observe
  <2>1. /\ History' = History /\ told' = History /\ lines' = lines /\ pc' = "clear"
        /\ NextSequence = Len(History) + 1
    BY <1>7, CheckpointObserved DEF Observe, Goto, journal, Progress
  <2>2. NextSequence' = NextSequence
    BY <2>1 DEF NextSequence, Last
  <2>3. Len(told') < NextSequence' /\ NextSequence' <= Len(History') + 1
    BY <1>0, <2>1, <2>2
  <2> QED
    BY <2>1, <2>2, <2>3 DEF Numbered, Progress
<1>8. CASE Clear
  <2>1. Numbered' /\ NextSequence' = NextSequence
    BY <1>8, CheckpointCleared, NumberedUnchanged DEF Clear, journal
  <2> QED
    BY <1>8, <2>1 DEF Clear, Goto, Exit, Progress
<1>9. CASE \/ HostChanges \/ JournalRecover \/ Crash \/ TornWrite \/ UNCHANGED vars
           \/ \E o \in Observers : Capture(o) \/ Acquire(o) \/ GiveUp(o)
  <2>1. /\ ckpt' = ckpt /\ obs' = obs /\ told' = told /\ lines' = lines
        /\ \/ pc' \notin {"append", "evict", "meta", "observe"}
           \/ pc' = pc /\ todo' = todo /\ resuming' = resuming
    BY <1>9 DEF HostChanges, JournalRecover, Crash, TornWrite, Die, Exit, Goto, vars,
                Capture, Acquire, GiveUp, journal
  <2>2. Numbered' /\ NextSequence' = NextSequence /\ History' = History
    BY <2>1, CheckpointUnchanged, NumberedUnchanged
  <2> QED
    BY <2>1, <2>2 DEF Progress
<1> QED
  BY <1>1, <1>2, <1>3, <1>4, <1>5, <1>6, <1>7, <1>8, <1>9 DEF Next, Rest

LEMMA Initially == Init => IInv
<1> SUFFICES ASSUME Init
             PROVE  IInv
  OBVIOUS
<1>1. /\ ckpt = None /\ lines = <<>> /\ told = <<>> /\ todo = <<>> /\ newest = 0 /\ meta = 1
      /\ pc = "idle" /\ lock = None /\ ~resuming /\ resuming \in BOOLEAN
      /\ torn \in BOOLEAN /\ live = 1 /\ obs = None
      /\ seen = [o \in Observers |-> None]
  BY DEF Init
<1>2. TypeOK
  BY <1>1, BoundsOK DEF TypeOK
<1>3. NextSequence = 1 /\ ~HasCheckpoint /\ ~Unobserved /\ History = <<>>
  BY <1>1 DEF NextSequence, HasCheckpoint, Unobserved, History
<1>4. DOMAIN lines = {} /\ Len(lines) = 0 /\ Len(told) = 0 /\ Len(History) = 0
  BY <1>1, <1>3
<1>5. JournalInv /\ CheckpointInv /\ StepInv
  BY <1>1, <1>3, <1>4 DEF JournalInv, LinesInv, CheckpointInv, StepInv
<1>6. Numbered /\ Progress
  BY <1>1, <1>3, <1>4 DEF Numbered, Progress
<1> QED
  BY <1>2, <1>5, <1>6 DEF IInv

\* The invariant is inductive.
LEMMA Invariance == Spec => []IInv
<1>1. IInv /\ [Next]_vars => IInv'
  <2> SUFFICES ASSUME IInv, [Next]_vars
               PROVE  IInv'
    OBVIOUS
  <2>1. TypeOK /\ JournalInv /\ CheckpointInv /\ StepInv
    BY DEF IInv
  <2>2. TypeOK' /\ JournalInv' /\ CheckpointInv' /\ StepInv'
    BY <2>1, TypeStep, JournalStep, CheckpointStep, StepStep
  <2>3. ASSUME Once'
        PROVE  Numbered' /\ Progress'
    <3>1. Once
      BY <2>1, <2>3, OnceBefore
    <3>2. Numbered /\ Progress
      BY <3>1 DEF IInv
    <3> QED
      BY <2>1, <3>1, <3>2, NumberedStep
  <2> QED
    BY <2>2, <2>3 DEF IInv
<1> QED
  BY Initially, <1>1, PTL DEF Spec

-----------------------------------------------------------------------------
(* The properties *)

\* A sequence is a suffix when it agrees with the last elements.
LEMMA SuffixByPlaces ==
  ASSUME NEW S, NEW s \in Seq(S), NEW t \in Seq(S), Len(s) <= Len(t),
         \A i \in 1..Len(s) : s[i] = t[Len(t) - Len(s) + i]
  PROVE  IsSuffix(s, t)
<1> DEFINE n == Len(s)
           m == Len(t)
           rs == Reverse(s)
           rt == Reverse(t)
<1>1. n \in Nat /\ m \in Nat /\ n <= m
  OBVIOUS
<1>2. /\ rs = [i \in 1..n |-> s[(n - i) + 1]]
      /\ rt = [i \in 1..m |-> t[(m - i) + 1]]
  BY DEF Reverse
<1>3. \A i \in 1..n : (n - i) + 1 \in 1..n
  BY <1>1
<1>4. \A i \in 1..m : (m - i) + 1 \in 1..m
  BY <1>1
<1>5. (\A i \in 1..n : s[i] \in S) /\ (\A i \in 1..m : t[i] \in S)
  OBVIOUS
<1> HIDE DEF rs, rt
<1>6. rs \in [1..n -> S] /\ rt \in [1..m -> S]
  BY <1>2, <1>3, <1>4, <1>5
<1>7. rs \in Seq(S) /\ rt \in Seq(S) /\ Len(rs) = n /\ Len(rt) = m
  BY <1>1, <1>6, FunctionIsSequence
<1>8. \A i \in 1..n : rs[i] = rt[i]
  <2> SUFFICES ASSUME NEW i \in 1..n
               PROVE  rs[i] = rt[i]
    OBVIOUS
  <2>1. i \in 1..m /\ (n - i) + 1 \in 1..n /\ m - n + ((n - i) + 1) = (m - i) + 1
    BY <1>1
  <2>2. s[(n - i) + 1] = t[m - n + ((n - i) + 1)]
    BY <2>1
  <2> QED
    BY <1>2, <2>1, <2>2
<1>9. SubSeq(rs, 1, n) = SubSeq(rt, 1, n)
  BY <1>1, <1>7, <1>8
<1> QED
  BY <1>1, <1>7, <1>9 DEF IsSuffix, IsPrefix, rs, rt

\* Without a repetition the events are numbered.
LEMMA NumberedAtRest ==
  ASSUME IInv, ~Unobserved, ~Repeated
  PROVE  /\ Numbered /\ History = told /\ NextSequence = Len(told) + 1
         /\ Len(told) \in Nat /\ NextSequence \in Nat
<1>1. History = told
  BY DEF History
<1>2. /\ DOMAIN told = 1..Len(told) /\ Len(told) \in Nat /\ NextSequence \in Nat
  BY HistoryType, NextSequenceType DEF IInv
<1>3. Once
  <2> SUFFICES ASSUME NEW i \in DOMAIN told, NEW j \in DOMAIN told, told[i] = told[j], i # j
               PROVE  FALSE
    BY <1>1 DEF Once
  <2>1. i < j \/ j < i
    BY <1>2
  <2> QED
    BY <2>1 DEF Repeated
<1>4. Numbered
  BY <1>3 DEF IInv
<1>5. Len(told) < NextSequence /\ NextSequence <= Len(told) + 1
  BY <1>1, <1>4 DEF Numbered
<1>6. NextSequence = Len(told) + 1
  BY <1>2, <1>5
<1> QED
  BY <1>1, <1>2, <1>4, <1>6

LEMMA JournalValid == IInv => JournalIsValid
<1> SUFFICES ASSUME IInv
             PROVE  JournalIsValid
  OBVIOUS
<1>1. /\ Len(lines) \in Nat /\ DOMAIN lines = 1..Len(lines) /\ NextSequence \in Nat
      /\ \A i \in DOMAIN lines : lines[i].seq \in Nat
      /\ meta \in Nat
  BY NextSequenceType DEF IInv, TypeOK
<1>2. LinesInv /\ meta <= NextSequence
  BY DEF IInv, JournalInv
<1>3. ASSUME NEW i \in 2..Len(lines)
      PROVE  /\ lines[i].seq = lines[i - 1].seq + 1
             /\ lines[i].seg \in {lines[i - 1].seg, lines[i - 1].seg + 1}
  <2>1. i \in DOMAIN lines /\ i - 1 \in DOMAIN lines /\ i > 1 /\ i \in Nat
    BY <1>1
  <2>2. /\ lines[i].seq + Len(lines) + 1 = NextSequence + i
        /\ lines[i - 1].seq + Len(lines) + 1 = NextSequence + (i - 1)
        /\ lines[i].seg \in {lines[i - 1].seg, lines[i - 1].seg + 1}
    BY <1>2, <2>1 DEF LinesInv
  <2>3. lines[i].seq \in Nat /\ lines[i - 1].seq \in Nat
    BY <1>1, <2>1
  <2> QED
    BY <1>1, <2>1, <2>2, <2>3
<1>4. lines # <<>> => newest \in {Last(lines).seg, Last(lines).seg + 1}
  BY <1>2 DEF LinesInv
<1>5. ~(meta > NextSequence)
  BY <1>1, <1>2
<1> QED
  BY <1>3, <1>4, <1>5 DEF JournalIsValid, Verify, MetaIsAhead

LEMMA Recoverable == IInv => CheckpointIsRecoverable
<1> SUFFICES ASSUME IInv, HasCheckpoint, ~Repeated
             PROVE  Converged \/ Pending
  BY DEF CheckpointIsRecoverable
<1>0. TypeOK /\ JournalInv /\ CheckpointInv
  BY DEF IInv
<1>1. CASE Unobserved
  BY <1>0, <1>1 DEF CheckpointInv, Unobserved, Pending
<1>2. CASE ~Unobserved
  <2>1. /\ Numbered /\ History = told /\ NextSequence = Len(told) + 1
        /\ Len(told) \in Nat
    BY <1>2, NumberedAtRest
  <2>2. /\ Len(Planned) <= Len(told) /\ Len(Planned) \in Nat
        /\ DOMAIN Planned = 1..Len(Planned)
        /\ Len(Planned) <= TotalEvents - SegEvents + 1
        /\ TotalEvents - SegEvents \in Int
        /\ \A k \in DOMAIN Planned : Planned[k] = told[Len(told) - Len(Planned) + k]
    <3>1. TotalEvents - SegEvents \in Int
      BY BoundsOK
    <3> QED
      BY <1>0, <1>2, <3>1, PlannedType DEF CheckpointInv
  <2>3. ASSUME NEW k \in DOMAIN Planned
        PROVE  HasTransition(Planned[k])
    <3>1. PICK p : p = Len(told) - Len(Planned) + k
      OBVIOUS
    <3>2. /\ p \in Nat /\ p > 0 /\ p < NextSequence
          /\ Len(told) <= p + (TotalEvents - SegEvents)
      BY <2>1, <2>2, <3>1
    <3>3. Len(History) <= p + (TotalEvents - SegEvents)
      BY <2>1, <3>2
    <3>4. \E i \in DOMAIN lines : lines[i].event = History[p]
      BY <1>0, <2>1, <3>2, <3>3, NewestAreKept
    <3> QED
      BY <2>1, <2>2, <3>1, <3>4 DEF HasTransition
  <2> QED
    BY <1>2, <2>3 DEF Unobserved, Converged, Planned
<1> QED
  BY <1>1, <1>2

LEMMA RecordedAtRest == IInv => ExactlyOnce
<1> SUFFICES ASSUME IInv, ckpt = None, ~Repeated
             PROVE  Recorded
  BY DEF ExactlyOnce, AtRest
<1>1. /\ Numbered /\ History = told /\ NextSequence = Len(told) + 1 /\ Len(told) \in Nat
  BY NumberedAtRest DEF Unobserved, HasCheckpoint
<1>2. /\ Len(lines) \in Nat /\ DOMAIN lines = 1..Len(lines)
      /\ \A i \in DOMAIN lines : lines[i].seq \in Nat /\ lines[i].event \in Events
  BY NextSequenceType DEF IInv
<1>3. told \in Seq(Events)
  BY DEF IInv, TypeOK
<1>4. Kept \in [1..Len(lines) -> Events] /\ DOMAIN Kept = 1..Len(lines)
  BY <1>2 DEF Kept
<1>5. Kept \in Seq(Events) /\ Len(Kept) = Len(lines)
  BY <1>2, <1>4, FunctionIsSequence
<1>6. ASSUME NEW i \in 1..Len(lines)
      PROVE  /\ Len(told) - Len(lines) + i > 0
             /\ Kept[i] = told[Len(told) - Len(lines) + i]
  <2>1. lines[i].seq + Len(lines) + 1 = NextSequence + i
    BY <1>2 DEF IInv, JournalInv, LinesInv
  <2>2. lines[i].seq > 0 /\ lines[i].event = told[lines[i].seq] /\ lines[i].seq \in Nat
    BY <1>1, <1>2 DEF Numbered
  <2>3. lines[i].seq = Len(told) - Len(lines) + i
    BY <1>1, <1>2, <2>1, <2>2
  <2>4. Kept[i] = lines[i].event
    BY <1>2 DEF Kept
  <2> QED
    BY <2>2, <2>3, <2>4
<1>7. Len(lines) <= Len(told)
  <2>1. CASE Len(lines) = 0
    BY <1>1, <2>1
  <2>2. CASE Len(lines) # 0
    <3>1. 1 \in 1..Len(lines)
      BY <1>2, <2>2
    <3>2. Len(told) - Len(lines) + 1 > 0
      BY <1>6, <3>1
    <3> QED
      BY <1>1, <1>2, <3>2
  <2> QED
    BY <2>1, <2>2
<1>8. IsSuffix(Kept, told)
  <2>1. \A i \in 1..Len(Kept) : Kept[i] = told[Len(told) - Len(Kept) + i]
    BY <1>5, <1>6
  <2> QED
    BY <1>3, <1>5, <1>7, <2>1, SuffixByPlaces
<1>9. Kept = told \/ Len(Kept) > TotalEvents - SegEvents
  <2>1. CASE Len(lines) + 1 = NextSequence
    <3>1. Len(lines) = Len(told)
      BY <1>1, <1>2, <2>1
    <3>2. \A i \in 1..Len(told) : Len(told) - Len(lines) + i = i
      BY <1>1, <3>1
    <3>3. \A i \in 1..Len(told) : Kept[i] = told[i]
      BY <1>6, <3>1, <3>2
    <3> QED
      BY <1>3, <1>5, <3>1, <3>3, SeqEqual
  <2>2. CASE Len(lines) > TotalEvents - SegEvents
    BY <1>5, <2>2
  <2> QED
    BY <1>1, <2>1, <2>2 DEF Numbered
<1> QED
  BY <1>8, <1>9 DEF Recorded

\* No crash and no other observer makes the next one fail closed on what observers
\* themselves wrote: the journal has neither a gap nor metadata ahead of it, and a
\* checkpoint left behind is one that recover_pending_transition can complete.
THEOREM ObserverNeverFailsClosed == Spec => []NeverFailsClosed
<1>1. IInv => NeverFailsClosed
  BY JournalValid, Recoverable DEF IInv, NeverFailsClosed
<1> QED
  BY Invariance, <1>1, PTL

\* Whatever crashes and concurrent observers do, at rest the journal is the newest
\* part of the events told, each once and in order, and lacks only what a rollover
\* may evict.
THEOREM EventsAreRecordedOnce == Spec => []ExactlyOnce
BY Invariance, RecordedAtRest, PTL
=============================================================================
