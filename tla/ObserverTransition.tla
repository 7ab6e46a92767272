------------------------- MODULE ObserverTransition -------------------------
(***************************************************************************)
(* The root observer (rill_xray_agent_observe.py): it compares the host    *)
(* with the last observation, appends the differences as events to a       *)
(* bounded journal (event_journal.py) and replaces the observation, with a *)
(* checkpoint in front of both so that a crash neither loses nor repeats   *)
(* an event (observer_transition.py).  The timer, the path unit and the    *)
(* manager start observers; ObserverLock lets one of them commit.          *)
(*                                                                         *)
(* Version v of the host has the observable state Content[v]; what the     *)
(* code fingerprints is Content[v], so a state may come back.              *)
(***************************************************************************)
EXTENDS Naturals, FiniteSets, SequencesExt

CONSTANTS
  Observers,   \* concurrent observer processes
  Aspects,     \* what is observed, in the order events are derived
  Content,     \* Content[v][a]: aspect a of host version v
  None,
  SegEvents,   \* events that fit into a segment
  TotalEvents, \* events the journal holds before it evicts a segment
  MaxCaptures, \* bound: captures of the host
  MaxFaults    \* bound: crashes

Versions == DOMAIN Content

\* What a checkpoint says: the observations before and after.
Checkpoints == [prev : Versions \union {None}, cur : Versions]

ASSUME BoundsOK ==
  /\ SegEvents \in Nat \ {0} /\ TotalEvents \in Nat
  /\ {MaxCaptures, MaxFaults} \subseteq Nat
  /\ Aspects \in Seq(STRING) /\ IsInjective(Aspects)
  /\ 1 \in Versions /\ None \notin Versions \union Observers /\ None \notin Checkpoints
  /\ \A v \in Versions : Content[v] # None
  \* the events of one transition survive the evictions they cause
  /\ TotalEvents >= SegEvents + Len(Aspects)

VARIABLES
  live,      \* the host's version
  obs,       \* xray-observation.json: the version it was captured from
  ckpt,      \* pending-observation-transition.json
  lines,     \* the committed lines of the journal in order: [seq, event, seg]
  newest,    \* the number of the newest segment, which may have no line yet; or 0
  torn,      \* does the newest segment end in a torn line
  meta,      \* nextSequence in meta.json
  seen,      \* the version each running observer has captured
  lock,      \* the observer that holds ObserverLock
  pc, todo,  \* where it is, and the events it has still to append
  resuming,  \* does it complete the transition of a checkpoint it has found
  told,      \* history: the events of all states the observation went through
  captures, faults

journal == <<lines, newest, torn, meta>>
vars == <<live, obs, ckpt, lines, newest, torn, meta, seen, lock, pc, todo, resuming, told,
          captures, faults>>

Init ==
  /\ live = 1 /\ obs = None /\ ckpt = None
  /\ lines = <<>> /\ newest = 0 /\ torn = FALSE /\ meta = 1
  /\ seen = [o \in Observers |-> None] /\ lock = None /\ pc = "idle"
  /\ todo = <<>> /\ resuming = FALSE
  /\ told = <<>> /\ captures = 0 /\ faults = 0

-----------------------------------------------------------------------------
(* Pure parts: fingerprints, derived events and the journal's contents *)

Fingerprint(v) == IF v = None THEN None ELSE Content[v]

\* derive_events: what differs, in the order of Aspects.
Changed(p, c) ==
  LET D == {k \in DOMAIN Aspects : Content[p][Aspects[k]] # Content[c][Aspects[k]]}
      Nth(i) == CHOOSE k \in D : Cardinality({j \in D : j <= k}) = i
  IN [i \in 1..Cardinality(D) |-> Aspects[Nth(i)]]

\* Each event with its transition_event_id: the fingerprints around it and what
\* it tells.  No time and no sequence number.
DeriveEvents(p, c) ==
  LET Id(a) == [prev |-> Fingerprint(p), cur |-> Fingerprint(c), what |-> a]
      changed == IF p = None THEN <<"baseline">> ELSE Changed(p, c)
  IN [i \in DOMAIN changed |-> Id(changed[i])]

HasTransition(e) == \E i \in DOMAIN lines : lines[i].event = e

\* _recover: sequences are read from the surviving segments, never from meta.
NextSequence == IF lines = <<>> THEN 1 ELSE Last(lines).seq + 1

-----------------------------------------------------------------------------
(* An observer process *)

HostChanges == /\ live + 1 \in Versions /\ live' = live + 1
               /\ UNCHANGED <<obs, ckpt, journal, seen, lock, pc, todo, resuming, told,
                              captures, faults>>

\* The host is captured before the lock is taken.
Capture(o) == /\ seen[o] = None /\ captures < MaxCaptures
              /\ captures' = captures + 1
              /\ seen' = [seen EXCEPT ![o] = live]
              /\ UNCHANGED <<live, obs, ckpt, journal, lock, pc, todo, resuming, told,
                             faults>>

Acquire(o) == /\ seen[o] # None /\ lock = None
              /\ lock' = o /\ pc' = "recover"
              /\ UNCHANGED <<live, obs, ckpt, journal, seen, todo, resuming, told,
                             captures, faults>>

\* LockTimeoutError.
GiveUp(o) == /\ seen[o] # None /\ lock \notin {None, o}
             /\ seen' = [seen EXCEPT ![o] = None]
             /\ UNCHANGED <<live, obs, ckpt, journal, lock, pc, todo, resuming, told,
                            captures, faults>>

Goto(to) == pc' = to /\ UNCHANGED <<seen, lock>>

Exit == pc' = "idle" /\ lock' = None /\ seen' = [seen EXCEPT ![lock] = None]

\* What read and verify report of the segments: no gap in the sequences of the
\* events or in the numbers of the segments.
Verify ==
  /\ \A i \in 2..Len(lines) :
       /\ lines[i].seq = lines[i - 1].seq + 1
       /\ lines[i].seg \in {lines[i - 1].seg, lines[i - 1].seg + 1}
  /\ lines # <<>> => newest \in {Last(lines).seg, Last(lines).seg + 1}

\* meta.json, which is written last, claims events that the segments lack.
MetaIsAhead == meta > NextSequence

\* EventJournal.recover: fail closed on a journal with a gap or behind its meta,
\* else truncate a torn tail and bring meta up to the segments.
JournalRecover ==
  /\ pc = "recover"
  /\ IF Verify /\ ~MetaIsAhead
       THEN Goto("pending") /\ torn' = FALSE /\ meta' = NextSequence
       ELSE Exit /\ UNCHANGED <<torn, meta>>
  /\ UNCHANGED <<live, obs, ckpt, lines, newest, todo, resuming, told, captures, faults>>

\* load_checkpoint: nothing only when there is no file.  What it checks of one
\* holds of every file an observer wrote, since it is replaced atomically.
HasCheckpoint == ckpt # None

\* _read_observation: the observation on the disk, as a state.
Anchor == Fingerprint(obs)

\* Is a checkpoint converged, or still to be completed?  It can be neither:
\* then every observer raises ObserverTransitionError.
Converged ==
  /\ Anchor = Fingerprint(ckpt.cur)
  /\ LET planned == DeriveEvents(ckpt.prev, ckpt.cur)
     IN \A i \in DOMAIN planned : HasTransition(planned[i])
Pending == Anchor # Fingerprint(ckpt.cur) /\ Anchor = Fingerprint(ckpt.prev)

\* recover_pending_transition.
Resume ==
  /\ pc = "pending"
  /\ IF HasCheckpoint /\ Pending
       THEN Goto("append") /\ todo' = DeriveEvents(ckpt.prev, ckpt.cur) /\ resuming' = TRUE
       ELSE /\ UNCHANGED <<todo, resuming>>
            /\ IF ~HasCheckpoint THEN Goto("diff")
               ELSE IF Converged THEN Goto("clear") ELSE Exit
  /\ UNCHANGED <<live, obs, ckpt, journal, told, captures, faults>>

\* commit_transition, with the observation on the disk as the previous one.  What
\* it does with a checkpoint still there is dead code here: main recovers first.
Diff ==
  /\ pc = "diff" /\ todo' = DeriveEvents(obs, seen[lock])
  /\ Goto(IF todo' = <<>> THEN "observe" ELSE "checkpoint")
  /\ UNCHANGED <<live, obs, ckpt, journal, resuming, told, captures, faults>>

Checkpoint ==
  /\ pc = "checkpoint" /\ Goto("append")
  /\ ckpt' = [prev |-> obs, cur |-> seen[lock]]
  /\ UNCHANGED <<live, obs, journal, todo, resuming, told, captures, faults>>

\* append_event: the line goes to the newest segment, or into the next one.
Full == /\ Len(lines) >= SegEvents
        /\ lines[Len(lines) - SegEvents + 1].seg = newest

Segment == IF newest = 0 \/ Full THEN newest + 1 ELSE newest

NewLine == [seq |-> NextSequence, event |-> Head(todo), seg |-> Segment]

SkipsNone == FALSE

\* Of a transition that is resumed, the events the journal already has are passed over.
Skips == resuming /\ HasTransition(Head(todo))

AppendEvent ==
  /\ pc = "append"
  /\ IF todo = <<>> THEN Goto("observe") /\ UNCHANGED <<lines, newest, todo>>
     ELSE IF Skips THEN Goto("append") /\ todo' = Tail(todo) /\ UNCHANGED <<lines, newest>>
     ELSE /\ Goto("evict") /\ UNCHANGED todo
          /\ lines' = Append(lines, NewLine) /\ newest' = Segment
  /\ UNCHANGED <<live, obs, ckpt, torn, meta, resuming, told, captures, faults>>

\* Rollover: the oldest segments go, with all their lines, after the new line is
\* there, and never the one it is in.
EvictOldest ==
  \E n \in DOMAIN lines :
    /\ \A i \in DOMAIN lines : i <= n <=> lines[i].seg = Head(lines).seg
    /\ lines' = SubSeq(lines, n + 1, Len(lines))

Evict ==
  /\ pc = "evict"
  /\ IF Len(lines) > TotalEvents /\ Head(lines).seg # newest
       THEN Goto("evict") /\ EvictOldest
       ELSE Goto("meta") /\ UNCHANGED lines
  /\ UNCHANGED <<live, obs, ckpt, newest, torn, meta, todo, resuming, told, captures,
                 faults>>

WriteMeta ==
  /\ pc = "meta" /\ Goto("append")
  /\ meta' = NextSequence /\ todo' = Tail(todo)
  /\ UNCHANGED <<live, obs, ckpt, lines, newest, torn, resuming, told, captures, faults>>

ObserveLive ==
  /\ pc = "observe" /\ Goto("clear") /\ resuming' = FALSE
  /\ obs' = seen[lock]
  /\ told' = told \o DeriveEvents(obs, obs')
  /\ UNCHANGED <<live, ckpt, journal, todo, captures, faults>>

\* The observation becomes the checkpoint's, or the live one without events.
Observe ==
  /\ pc = "observe" /\ Goto("clear") /\ resuming' = FALSE
  /\ obs' = IF HasCheckpoint THEN ckpt.cur ELSE seen[lock]
  /\ told' = told \o DeriveEvents(obs, obs')
  /\ UNCHANGED <<live, ckpt, journal, todo, captures, faults>>

\* The checkpoint goes.  A recovered one is followed by the live transition,
\* unless that is the one recovered: then nothing is left to do.
Clear ==
  /\ pc = "clear" /\ ckpt' = None
  /\ IF obs = seen[lock] THEN Exit ELSE Goto("diff")
  /\ UNCHANGED <<live, obs, journal, todo, resuming, told, captures, faults>>

-----------------------------------------------------------------------------
(* The environment *)

Die == /\ faults < MaxFaults /\ faults' = faults + 1
       /\ Exit /\ todo' = <<>> /\ resuming' = FALSE
       /\ UNCHANGED <<live, obs, ckpt, meta, told, captures>>

Crash == pc # "idle" /\ Die /\ UNCHANGED <<lines, newest, torn>>

\* A crash in the middle of a line, which may be the first of its segment.
TornWrite ==
  /\ pc = "append" /\ todo # <<>> /\ ~Skips /\ Die
  /\ torn' = TRUE /\ newest' = Segment /\ UNCHANGED lines

\* Every observer has exited, and the bound admits no further one.
Rest == /\ captures = MaxCaptures /\ \A o \in Observers : seen[o] = None
        /\ UNCHANGED vars

-----------------------------------------------------------------------------
Next == \/ HostChanges \/ JournalRecover \/ Resume \/ Diff \/ Checkpoint
        \/ AppendEvent \/ Evict \/ WriteMeta \/ Observe \/ Clear
        \/ Crash \/ TornWrite \/ Rest
        \/ \E o \in Observers : Capture(o) \/ Acquire(o) \/ GiveUp(o)

Spec == Init /\ [][Next]_vars

-----------------------------------------------------------------------------
(* Properties *)

Events == [prev : {Content[v] : v \in Versions} \union {None},
           cur  : {Content[v] : v \in Versions},
           what : {Aspects[i] : i \in DOMAIN Aspects} \union {"baseline"}]
Steps == {"recover", "pending", "diff", "checkpoint", "append", "evict",
          "meta", "observe", "clear"}

\* Types; and somebody is at a step of the commit exactly while holding the
\* lock, with a capture at hand.
TypeOK ==
  /\ live \in Versions /\ obs \in Versions \union {None}
  /\ ckpt \in Checkpoints \union {None}
  /\ lines \in Seq([seq : Nat, event : Events, seg : Nat]) /\ newest \in Nat
  /\ torn \in BOOLEAN /\ meta \in Nat
  /\ seen \in [Observers -> Versions \union {None}]
  /\ lock \in Observers \union {None} /\ pc \in Steps \union {"idle"}
  /\ todo \in Seq(Events) /\ resuming \in BOOLEAN /\ told \in Seq(Events)
  /\ IF lock = None THEN pc = "idle" ELSE pc # "idle" /\ seen[lock] # None

\* No gap in the sequences or in the segments, and meta.json never claims events
\* that the segments lack, whatever crash falls between line, rollover and meta.
JournalIsValid == Verify /\ ~MetaIsAhead

\* Has the host gone through the same transition twice?
Repeated == \E i, j \in DOMAIN told : i < j /\ told[i] = told[j]

\* A checkpoint left behind is one that recovery accepts, so that no crash makes
\* every later observer fail with ObserverTransitionError.  Of a transition that
\* happened before, an old event passes for a planned one and may be evicted by
\* the events that follow: then a converged checkpoint is refused for good.
CheckpointIsRecoverable ==
  lock = None /\ HasCheckpoint /\ ~Repeated => Converged \/ Pending

\* Neither the journal nor (without such a repetition) the checkpoint ever makes
\* the next observer fail closed on what an observer itself has written.
NeverFailsClosed == TypeOK /\ JournalIsValid /\ CheckpointIsRecoverable

Kept == [i \in DOMAIN lines |-> lines[i].event]

\* The journal holds the newest of the events told, each once and in order, and
\* misses only what a rollover evicts.
Recorded == /\ IsSuffix(Kept, told)
            /\ Kept = told \/ Len(Kept) > TotalEvents - SegEvents

AtRest == lock = None /\ ckpt = None

\* Crashes and concurrent observers neither lose, repeat nor reorder an event,
\* as long as the host does not go through the same transition twice.
ExactlyOnce == AtRest /\ ~Repeated => Recorded
=============================================================================
