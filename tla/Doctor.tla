------------------------------- MODULE Doctor -------------------------------
(***************************************************************************)
(* What the Doctor says of the host (doctor.py), and whether it can be     *)
(* believed: observers capture the host, and commit what they saw some     *)
(* time later (rill_xray_agent_observe.py); the Runtime reads the latest   *)
(* observation, then the newest events, then diagnoses (runtime_service.py,*)
(* diagnose), while the host changes, time passes and the clock may be set *)
(* back.  A moment is given by its age on the clock, up to the age at      *)
(* which nothing depends on it any more.  Crashes within a commit and the  *)
(* bounds of the journal are ObserverTransition's.                         *)
(***************************************************************************)
EXTENDS Integers, FiniteSets, SequencesExt

CONSTANTS
  Observers,  \* how many may run at a time: the unit's, and the manager's
  Hosts,      \* states of the host: [config, ok]
  None,
  Freshness, Window, Skew, \* thresholds of the Doctor, in ticks of the clock
  MaxBack, MaxChanges \* bounds: ticks the clock is set back; changes of the host

Components == <<"xray", "nginx", "install">>
Checked    == <<"xray", "nginx">>
Facts      == Range(Checked) \X {"validation", "service"}

\* Ages of observations, and of events.
TooOld == Freshness + MaxBack + 1
MaxAge == Freshness + MaxBack + Window

ASSUME DoctorOK ==
  /\ {Observers, Freshness, Window, Skew, MaxBack, MaxChanges} \subseteq Nat
  /\ \A h \in Hosts : DOMAIN h.config = Range(Components) /\ h.ok \subseteq Facts

VARIABLES
  host,      \* config: fingerprint, absent or unsafe; ok: facts that hold
  captures,  \* what the running observers have captured
  obs,       \* xray-observation.json
  events,    \* the timeline: its changes of configurations: [what, age]
  doctor,    \* the diagnosis that is being made
  good,      \* history: ticks since each fact last held, or was not required
  changed,   \* history: ticks since the configuration first changed
  back, changes

seen == <<obs, events>>
vars == <<host, captures, obs, events, doctor, good, changed, back, changes>>

Idle == [pc |-> "idle"]
NotRequired(config, c) == config[c] = "absent"
Holds(h, f) == f \in h.ok \/ NotRequired(h.config, f[1])

Init == /\ host \in Hosts /\ captures = {}
        /\ obs = None /\ events = {} /\ doctor = Idle
        /\ good = [f \in Facts |-> IF Holds(host, f) THEN 0 ELSE TooOld]
        /\ changed = [c \in Range(Components) |-> None] /\ back = 0 /\ changes = 0

-----------------------------------------------------------------------------
(* Observers *)

\* The time is taken first, then the fingerprints, a tree in one walk ...
Summarize ==
  /\ Cardinality(captures) < Observers
  /\ captures' = captures \union {[age |-> 0, config |-> host.config, ok |-> None]}
  /\ UNCHANGED <<host, seen, doctor, good, changed, back, changes>>

\* ... and then the validations and the services; a command that times out is a
\* fact that does not hold.
Probe(o) ==
  /\ o.ok = None
  /\ captures' = (captures \ {o}) \union {[o EXCEPT !.ok = host.ok]}
  /\ UNCHANGED <<host, seen, doctor, good, changed, back, changes>>

\* derive_events; nothing else than changes of a configuration is looked at.
Derived(p, q) == IF p = None THEN {}
                 ELSE {c \in Range(Components) : p.config[c] # q.config[c]}

\* Mutant: the observation gets the time at which it is committed.
CommitLate(o) ==
  /\ o.ok # None
  /\ events' = events \union {[what |-> c, age |-> 0] : c \in Derived(obs, o)}
  /\ obs' = [o EXCEPT !.age = 0] /\ captures' = captures \ {o}
  /\ UNCHANGED <<host, doctor, good, changed, back, changes>>

\* commit_transition under ObserverLock: the events, with the time at which they
\* are appended and not that of the capture, and then the observation, whatever
\* the age of the one it replaces.  A diagnosis that reads in between reads what
\* one that started before the commit does.
Commit(o) ==
  /\ o.ok # None
  /\ events' = events \union {[what |-> c, age |-> 0] : c \in Derived(obs, o)}
  /\ obs' = o /\ captures' = captures \ {o}
  /\ UNCHANGED <<host, doctor, good, changed, back, changes>>

\* It is killed, the lock does not come free, or the journal is corrupt.
GiveUp(o) == /\ captures' = captures \ {o}
             /\ UNCHANGED <<host, seen, doctor, good, changed, back, changes>>

-----------------------------------------------------------------------------
(* The rules *)

Required(o, c) == ~NotRequired(o.config, c)
OK(o, c, what) == <<c, what>> \in o.ok

\* Mutant: it is not asked how old the observation is.
StatusAgeless(o) == IF o = None THEN "missing"
                    ELSE IF o.age < -Skew THEN "invalid" ELSE "fresh"

\* observation_status; a time that lies ahead is invalid.
Status(o) == IF o = None THEN "missing"
             ELSE IF o.age < -Skew THEN "invalid"
             ELSE IF o.age > Freshness THEN "stale" ELSE "fresh"

\* Mutant: any change within the window.
RecentAny(o, ev, c) == \E e \in ev : e.what = c /\ e.age - o.age <= Window

\* _change_recent: not after the observation, and not long before it.
Recent(o, ev, c) ==
  \E e \in ev : e.what = c /\ e.age >= o.age /\ e.age - o.age <= Window

UnsafePath(o) == \E c \in Range(Components) : o.config[c] = "unsafe"
BothDown(o) == \A c \in Range(Checked) : Required(o, c) /\ ~OK(o, c, "service")
Failing(o, what) == SelectSeq(Checked, LAMBDA c : Required(o, c) /\ ~OK(o, c, what))

\* _result: the code, and the changes that it relates to what it found.
Result(o, ev, code, cause) ==
  [code |-> code, cause |-> {c \in cause : Recent(o, ev, c)}]

\* What is required is known to hold; nothing is concluded from a fact missing.
AllRequiredHealthy(o) ==
  /\ Status(o) = "fresh" /\ ~UnsafePath(o)
  /\ \A c \in Range(Checked) :
       Required(o, c) => OK(o, c, "validation") /\ OK(o, c, "service")

\* The rules that say why there is nothing to diagnose.
Unusable(o, canRecommend) ==
  IF ~canRecommend THEN "RECOVERY_REQUIRED"
  ELSE IF Status(o) # "fresh" THEN Status(o)
  ELSE IF UnsafePath(o) THEN "UNSAFE_PATH" ELSE None

\* RULES, of which the first that applies answers.
Diagnosis(o, ev, canRecommend) ==
  LET unusable == Unusable(o, canRecommend)
      invalid  == Failing(o, "validation")
      down     == Failing(o, "service")
  IN  IF unusable # None THEN Result(o, ev, unusable, {})
      ELSE IF BothDown(o) THEN Result(o, ev, "BOTH_SERVICES_DOWN", Range(Checked))
      ELSE IF invalid # <<>> THEN Result(o, ev, "VALIDATION_FAILED", {invalid[1]})
      ELSE IF down # <<>> THEN Result(o, ev, "SERVICE_DOWN", {down[1]})
      ELSE IF AllRequiredHealthy(o) THEN Result(o, ev, "HEALTHY", Range(Components))
      ELSE Result(o, ev, "INSUFFICIENT_EVIDENCE", {})

-----------------------------------------------------------------------------
(* The Runtime's diagnose *)

ReadObservation ==
  /\ doctor.pc # "observed" /\ doctor' = [pc |-> "observed", obs |-> obs]
  /\ UNCHANGED <<host, captures, seen, good, changed, back, changes>>

\* The timeline, which counts as empty while it is missing or corrupt; the health
\* of the other parts (transactions, audit log, operations); and the time.
Diagnose ==
  /\ doctor.pc = "observed"
  /\ \E ev \in {events, {}}, canRecommend \in BOOLEAN :
       doctor' = [pc |-> "answered", says |-> Diagnosis(doctor.obs, ev, canRecommend)]
  /\ UNCHANGED <<host, captures, seen, good, changed, back, changes>>

-----------------------------------------------------------------------------
(* The environment *)

HostChanges ==
  /\ changes < MaxChanges /\ changes' = changes + 1
  /\ host' \in Hosts \ {host}
  /\ good' = [f \in Facts |-> IF Holds(host', f) THEN 0 ELSE good[f]]
  /\ changed' = [c \in Range(Components) |->
       IF changed[c] = None /\ host'.config[c] # host.config[c] THEN 0 ELSE changed[c]]
  /\ UNCHANGED <<captures, seen, doctor, back>>

Older(age, most) == IF age < most THEN age + 1 ELSE age
Aged(x, by) == IF x = None THEN None
               ELSE [x EXCEPT !.age = IF by < 0 THEN @ - 1 ELSE Older(@, TooOld)]

\* The clock moves: every age on it does.
Clock(by) ==
  /\ obs' = Aged(obs, by)
  /\ captures' = {Aged(o, by) : o \in captures}
  /\ events' = {e \in {[e EXCEPT !.age = @ + by] : e \in events} : e.age <= MaxAge}
  /\ doctor' = IF doctor.pc = "observed" THEN [doctor EXCEPT !.obs = Aged(@, by)] ELSE doctor
  /\ UNCHANGED <<host, changes>>

Tick ==
  /\ Clock(1)
  /\ good' = [f \in Facts |-> IF Holds(host, f) THEN 0 ELSE Older(good[f], TooOld)]
  /\ changed' = [c \in Range(Components) |->
                   IF changed[c] = None THEN None ELSE Older(changed[c], Freshness)]
  /\ UNCHANGED back

SetBack == back < MaxBack /\ back' = back + 1 /\ Clock(-1) /\ UNCHANGED <<good, changed>>

Next == \/ Summarize \/ \E o \in captures : Probe(o) \/ Commit(o) \/ GiveUp(o)
        \/ ReadObservation \/ Diagnose
        \/ HostChanges \/ Tick \/ SetBack

Spec == Init /\ [][Next]_vars

\* Time passes; nothing else is promised, no observer least of all.
FairSpec == Spec /\ WF_vars(Tick)

-----------------------------------------------------------------------------
(* Properties *)

Answers(code) == /\ doctor.pc # "answered" /\ doctor'.pc = "answered"
                 /\ doctor'.says.code = code

\* "HEALTHY must be actively proven": every validation and service of a component
\* the host has held within the freshness of the observation, however the
\* captures overlapped and in whichever order they were committed, but for
\* what the clock was set back.
HealthyIsProven ==
  [][Answers("HEALTHY") => \A f \in Facts : good[f] <= Freshness + back]_vars

Named == {"VALIDATION_FAILED", "SERVICE_DOWN", "BOTH_SERVICES_DOWN", "HEALTHY"}

\* A change that a diagnosis relates to what it found did happen, and no later
\* than the moment of the observation.
CausePrecedesFault ==
  [][\A code \in Named : Answers(code) =>
       \A c \in doctor'.says.cause : changed[c] # None /\ changed[c] >= doctor.obs.age]_vars

\* A fact of a component that the host has, and that fails for good, ends the
\* healthy answers, whether observers run or not.
Broken == \E f \in Facts : ~Holds(host, f)
FaultIsNotMasked == <>[]Broken => <>[][~Answers("HEALTHY")]_vars

=============================================================================
