----------------------------- MODULE RouteIntent -----------------------------
(***************************************************************************)
(* The managed-route loop.  The observer projects the live routing rules   *)
(* and the operator's intent (route_topology.py), the Runtime analyzes the *)
(* projection and plans the restoring operations (route_analyzer.py,       *)
(* route_planner.py, route_policy.py, runtime_service.py), and the root    *)
(* executor proves them against what is live, compiles them and replaces   *)
(* the rules (route_executor.py).  Meanwhile the host edits its rules, the *)
(* operator edits the intent and approves plans of his own.                *)
(*                                                                         *)
(* A rule has a tag: a managed id, of which there is one per entry of the  *)
(* intent, or that of a rule of the user.  Digests are injective, so they  *)
(* are left out.  Positions count from 1.                                  *)
(***************************************************************************)
EXTENDS Naturals, Sequences, FiniteSets, SequencesExt

CONSTANTS
  Ids,      \* managed rule ids
  Users,    \* tags of the user's own rules
  Texts,    \* selector values
  Outs,     \* outbound tags
  Intents,  \* what the operator may declare: sequences of entries
  Start,    \* the routing rules at first
  Edits,    \* rules the host or a user may put into the configuration
  None,
  Budget    \* bound: edits, approvals and failed transactions, together

\* In the order in which the first one present gives the type of a rule.
\* inbound stands for inboundTag, user and email, which no operation sets.
Fields == <<"domain", "ip", "inbound">>
Types == {"domain", "ip"}

\* A selector value is a string or a list; the two differ in their digests.
Values == [text : Texts, list : BOOLEAN]
Rules == [tag : Ids \union Users, out : Outs,
          sel : [Range(Fields) -> Values \union {None}]]

\* An entry that is legacy has a tag and no managedRuleId.
Entries == [id : Ids, legacy : BOOLEAN, type : Types, value : Values, out : Outs]

ASSUME ConstantsOK ==
  /\ Ids \intersect Users = {}
  /\ None \notin Ids \union Users \union Values
  /\ \A i \in Intents : i \in Seq(Entries)
  /\ Start \in Seq(Rules) /\ Edits \subseteq Rules
  /\ Budget \in Nat

VARIABLES
  rules, gen,      \* the managed configuration and its generation
  intent,          \* managedRouteIntent of the root-owned config.json
  policy,          \* the route stage; "confirmed" is auto, and confirmed
  topo,            \* the observer's projection
  plan,            \* the latest plan in the route history
  spool, claimed,  \* apply.json, and the request past the executor's gates
  decided,         \* recommendations rolled back at this generation
  cooling,         \* the projection of the policy has a cooldown; it does not run
                   \* down, only the next one written may be without
  spent

host    == <<rules, gen, decided, cooling>>
vars    == <<rules, gen, intent, policy, topo, plan, spool, claimed, decided, cooling,
             spent>>

Managed(r) == r.tag \in Ids

-----------------------------------------------------------------------------
(* The analyzer *)

\* Positions of the live rules that carry a managed id.
Live(rs, id) == {k \in DOMAIN rs : rs[k].tag = id}
FirstLive(rs, id) == Min(Live(rs, id))

Missing(rs, e) == Live(rs, e.id) = {}

\* Only the selector of the entry's own type and the outbound are compared,
\* and only on the first rule of that id.
Drifted(rs, e) == /\ ~Missing(rs, e)
                  /\ LET r == rs[FirstLive(rs, e.id)]
                     IN r.sel[e.type] # e.value \/ r.out # e.out

\* _intent_restore_analysis: the entries to be restored, in order.
Restores(rs, i) == SelectSeq(i, LAMBDA e : Missing(rs, e) \/ Drifted(rs, e))

\* A managed rule that an earlier rule with the same selectors hides.
Shadowed(rs) == \E j \in DOMAIN rs, k \in DOMAIN rs :
                  k < j /\ Managed(rs[j]) /\ rs[k].sel = rs[j].sel

Recommendation(rs, i) ==
  CASE Restores(rs, i) # <<>> -> "managed-route-intent-restore"
    [] Restores(rs, i) = <<>> /\ Shadowed(rs) -> "managed-rule-shadowed"
    [] OTHER -> "no-recommendation"

\* The fingerprint of a restore binds the kinds of its entries, the generation
\* and the configuration, whose digest the rules stand for.
Kinds(rs, i) == {IF Missing(rs, e) THEN "missing" ELSE "drifted" :
                   e \in ToSet(Restores(rs, i))}
Fingerprint(rs, d, g, i) == [kinds |-> Kinds(rs, i), rules |-> d, gen |-> g]

-----------------------------------------------------------------------------
(* The planner and the contract *)

\* _ops_from_intent: every missing rule is inserted at the end of the rules
\* as they were, a drifted one is replaced where it is.
Op(rs, e) ==
  [op |-> IF Missing(rs, e) THEN "insert" ELSE "replace",
   at |-> IF Missing(rs, e) THEN Len(rs) + 1 ELSE FirstLive(rs, e.id),
   id |-> IF e.legacy THEN None ELSE e.id,
   type |-> e.type, value |-> e.value, out |-> e.out]

Ops(rs, i) == LET todo == Restores(rs, i)
              IN [k \in DOMAIN todo |-> Op(rs, todo[k])]

\* rule_selector_type: the first field that is present.
SelectorType(r) ==
  LET present == {k \in DOMAIN Fields : r.sel[Fields[k]] # None}
  IN IF present = {} THEN None ELSE Fields[Min(present)]

\* op_risk: what a request says of its risk is never used.
LowRisk(rs, o) ==
  CASE o.op = "insert"  -> o.at = Len(rs) + 1
    [] o.op = "replace" -> o.at \in DOMAIN rs /\ SelectorType(rs[o.at]) = o.type
    [] OTHER -> TRUE

AllLow(rs, ops) == \A k \in DOMAIN ops : LowRisk(rs, ops[k])
AutoAllowed(ops) == /\ ops # <<>>
                    /\ \A k \in DOMAIN ops : ops[k].op \in {"insert", "replace"}

\* evaluate_plan_policy, where health, integrity, epoch, fuse, rate and
\* cooldown are taken to be good.
Fresh(p) == p.rules = topo.digest /\ p.gen = topo.gen
CanManual(p) == policy # "observe" /\ Fresh(p)
\* Mutant: a plan already in the history is not submitted again.
CanAutoOnce(p) == /\ policy = "confirmed" /\ ~cooling /\ Fresh(p) /\ p # plan
                  /\ AllLow(topo.rules, p.ops) /\ AutoAllowed(p.ops)
CanAuto(p) == /\ policy = "confirmed" /\ ~cooling /\ Fresh(p)
              /\ AllLow(topo.rules, p.ops) /\ AutoAllowed(p.ops)

-----------------------------------------------------------------------------
(* The compiler *)

\* validate_apply_request and _validate_operation: of the schema, whose other
\* fields every request the Runtime writes has, only that an insert or a replace
\* binds a managed rule id.
Valid(o) == o.op \in {"insert", "replace"} => o.id \in Ids

NewRule(o) == [tag |-> o.id, out |-> o.out,
               sel |-> [f \in Range(Fields) |-> IF f = o.type THEN o.value ELSE None]]

\* Mutant: the selectors are left as they are.
ReplacedOutbound(r, o) == [r EXCEPT !.out = o.out]

\* Of the selectors only those an operation can set are taken off.
Replaced(r, o) ==
  [r EXCEPT !.out = o.out,
            !.sel = [f \in Range(Fields) |->
                       IF f = o.type THEN o.value ELSE IF f \in Types THEN None ELSE @[f]]]

\* list.insert: past the end it appends.
Insert(rs, k, r) == IF k <= Len(rs) THEN InsertAt(rs, k, r) ELSE Append(rs, r)

\* Mutant: the rule need not be a managed one.
AnyAt(rs, k) == k \in DOMAIN rs

ManagedAt(rs, k) == k \in DOMAIN rs /\ Managed(rs[k])

\* One operation on the rules, or on None once an operation has failed.
Apply(rs, o) ==
  CASE rs = None -> None
    [] rs # None /\ o.op = "insert" ->
         IF o.at \in 1..Len(rs) + 1 THEN Insert(rs, o.at, NewRule(o)) ELSE None
    [] rs # None /\ o.op = "replace" ->
         IF ManagedAt(rs, o.at) /\ rs[o.at].tag = o.id
           THEN [rs EXCEPT ![o.at] = Replaced(@, o)] ELSE None
    [] rs # None /\ o.op = "remove" ->
         IF ManagedAt(rs, o.at) THEN RemoveAt(rs, o.at) ELSE None
    [] rs # None /\ o.op = "move" ->
         IF ManagedAt(rs, o.at) /\ o.to \in 1..Len(rs) + 1
           THEN Insert(RemoveAt(rs, o.at), o.to, rs[o.at]) ELSE None

Compile(rs, ops) == FoldLeft(Apply, rs, ops)

-----------------------------------------------------------------------------
(* The host, the operator and the observer *)

Init ==
  /\ rules = Start /\ gen = 0
  /\ intent \in Intents
  /\ policy = "confirmed"
  /\ topo = None /\ plan = None /\ spool = None /\ claimed = None
  /\ decided = {} /\ cooling = FALSE /\ spent = 0

Spend == spent < Budget /\ spent' = spent + 1

\* The host, or a user, edits the rules behind Rill's back.
Edit == \/ \E k \in DOMAIN rules : rules' = RemoveAt(rules, k)
        \/ \E k \in DOMAIN rules, r \in Edits : rules' = [rules EXCEPT ![k] = r]
        \/ \E k \in 1..Len(rules) + 1, r \in Edits : rules' = Insert(rules, k, r)

HostEdit ==
  /\ Spend /\ Edit
  /\ UNCHANGED <<gen, intent, policy, topo, plan, spool, claimed, decided, cooling>>

EditIntent ==
  /\ Spend /\ intent' \in Intents
  /\ UNCHANGED <<host, policy, topo, plan, spool, claimed>>

Stages == {"observe", "assist", "auto", "confirmed"}

\* write_projection.
Project == cooling' \in {cooling, FALSE}

\* route stage, auto confirm and auto revoke of the root policy.
SetPolicy ==
  /\ Spend
  /\ policy' \in Stages /\ Project
  /\ UNCHANGED <<rules, gen, decided, intent, topo, plan, spool, claimed>>

\* _sanitized_intent_rules: a single value becomes a list.
Sanitized(i) == [k \in DOMAIN i |-> [i[k] EXCEPT !.value.list = TRUE]]

\* route_topology_projection reads the configuration twice, first the rules and
\* then the whole file for its digest.
Projection(read, live) == [rules |-> read, digest |-> live, gen |-> gen,
                           intent |-> Sanitized(intent)]

Observe ==
  /\ topo' = Projection(rules, rules)
  /\ UNCHANGED <<host, intent, policy, plan, spool, claimed, spent>>

\* An edit falls between the two: old rules under the digest of the new ones.
ObserveEdited ==
  /\ Spend /\ Edit /\ topo' = Projection(rules, rules')
  /\ UNCHANGED <<gen, intent, policy, plan, spool, claimed, decided, cooling>>

-----------------------------------------------------------------------------
(* The Runtime *)

\* _read_topology: without the observer's projection, whose replacement is
\* atomic, nothing is planned or approved.
HasTopology == topo # None

Request(type, p) == [type |-> type, id |-> p.id, rules |-> p.rules,
                     gen |-> p.gen, ops |-> p.ops]

\* sanitize_route_plan_meta: what the route history keeps of a plan are its id,
\* its capture and the digest of the operations, for which these stand.
PlanMeta(id, ops) == [id |-> id, rules |-> topo.digest, gen |-> topo.gen, ops |-> ops]

\* routePlan and _auto_produce record the plan in the route history.
AutoPlan == LET t == topo
            IN PlanMeta(Fingerprint(t.rules, t.digest, t.gen, t.intent),
                        Ops(t.rules, t.intent))

\* The one spool file is replaced, whoever wrote it.
AutoProduce ==
  /\ HasTopology
  /\ Recommendation(topo.rules, topo.intent) = "managed-route-intent-restore"
  /\ \E p \in {AutoPlan} :
       plan' = p /\ spool' = IF CanAuto(p) THEN Request("auto", p) ELSE spool
  /\ UNCHANGED <<host, intent, policy, topo, claimed, spent>>

\* Operations an operator plans by himself.
ManualOps ==
  LET at == 1..Len(topo.rules) + 1
  IN {[op |-> "remove", at |-> k] : k \in at}
       \union {[op |-> "move", at |-> k, to |-> l] : k \in at, l \in at}
       \union {[Op(<<>>, e) EXCEPT !.at = k, !.op = o] :
                 k \in at, o \in {"insert", "replace"}, e \in ToSet(topo.intent)}

\* The identity of such a plan is that of the capture and the operations:
\* it is not decided before.
RoutePlan ==
  /\ Spend /\ HasTopology
  /\ \E o \in ManualOps :
       plan' = PlanMeta(None, <<o>>)
  /\ UNCHANGED <<host, intent, policy, topo, spool, claimed>>

\* RouteHistory.get finds the plan a recommendation id names.
HasPlan == plan # None

\* routeApprove, also of a plan auto evaluation left in the history.
RouteApprove ==
  /\ HasPlan /\ HasTopology /\ CanManual(plan)
  /\ spool' = Request("manual", plan)
  /\ UNCHANGED <<host, intent, policy, topo, plan, claimed, spent>>

-----------------------------------------------------------------------------
(* The executor *)

\* _root_intent_proof: projects and analyzes what is live now; the analyzer is
\* given the intent as it is in config.json.
Proven(q) == q.type = "auto" => q.ops = Ops(rules, intent)

\* _root_gate: mode, stage, confirmation and risk, from the root policy and
\* the live rules.
RootGate(q) == CASE q.type = "auto"   -> /\ policy = "confirmed"
                                         /\ AutoAllowed(q.ops) /\ AllLow(rules, q.ops)
                 [] q.type = "manual" -> policy # "observe"

\* A request that fails a check is dropped.
Gate ==
  /\ spool # None /\ claimed = None /\ spool' = None
  /\ claimed' = IF /\ \A k \in DOMAIN spool.ops : Valid(spool.ops[k])
                   /\ RootGate(spool)
                   /\ spool.rules = rules /\ spool.gen = gen
                   /\ Proven(spool)
                THEN spool ELSE None
  /\ UNCHANGED <<host, intent, policy, topo, plan, spent>>

\* _run_transaction reads the configuration again.  A recommendation decided
\* before, committed or rolled back, is only reported again.
Run ==
  /\ claimed # None /\ claimed' = None
  /\ LET compiled == Compile(rules, claimed.ops)
     IN CASE compiled = None -> UNCHANGED host
          [] compiled # None /\ claimed.id \in {d.id : d \in decided} ->
               UNCHANGED <<rules, gen, decided>> /\ Project
          [] OTHER -> /\ rules' = compiled /\ gen' = gen + 1 /\ decided' = {}
                      /\ IF claimed.type = "auto" THEN cooling' = TRUE ELSE Project
  /\ UNCHANGED <<intent, policy, topo, plan, spool, spent>>

\* Xray rejects the candidate, or does not start with it: the transaction
\* leaves no trace, or is rolled back and decided.
Fail ==
  /\ Spend /\ claimed # None /\ claimed' = None
  /\ \/ UNCHANGED <<decided, cooling>>
     \/ /\ claimed.id # None /\ Project
        /\ decided' = decided \union {[id |-> claimed.id, ops |-> claimed.ops]}
  /\ UNCHANGED <<rules, gen, intent, policy, topo, plan, spool>>

Executor == Gate \/ Run
Loop == Observe \/ AutoProduce \/ Executor
Next == Loop \/ HostEdit \/ ObserveEdited \/ EditIntent \/ SetPolicy \/ RoutePlan
          \/ RouteApprove \/ Fail

Spec == Init /\ [][Next]_vars

\* The observer and auto evaluation have timers, the executor a path unit.
Fairness == WF_vars(Observe) /\ WF_vars(AutoProduce) /\ WF_vars(Executor)
FairSpec == Spec /\ Fairness

-----------------------------------------------------------------------------
(* Properties *)

UserRules(rs) == SelectSeq(rs, LAMBDA r : ~Managed(r))

\* "User-maintained rules are never touched": whatever is approved or
\* produced, and even if the rules are edited between the checks and the
\* compilation, an apply keeps the user's rules and their order.
UserRulesAreKept == [][claimed # None /\ gen' # gen
                         => UserRules(rules') = UserRules(rules)]_vars

\* Restoring is a fixpoint: on rules and an intent that were not edited
\* meanwhile an automatic apply leaves nothing to restore, so that it never
\* plans against itself.
RestoreIsFixpoint ==
  [][gen' # gen /\ claimed.type = "auto" /\ claimed.rules = rules
       /\ claimed.ops = Ops(rules, intent)
       => Restores(rules', intent) = <<>>]_vars

\* Why a drift stays: auto is off, or held by the cooldown of the last restore
\* in a projection that nobody refreshes (RootPolicy, RuntimeMirrorsRoot); the
\* drift needs a human; the intent has a string for a value or a legacy entry;
\* or its recommendation was rolled back.
Stalled ==
  LET todo == Sanitized(intent)
  IN \/ policy # "confirmed" \/ cooling
     \/ ~AllLow(rules, Ops(rules, todo))
     \/ Ops(rules, todo) # Ops(rules, intent)
     \/ \E e \in ToSet(Restores(rules, todo)) : e.legacy
     \/ Fingerprint(rules, rules, gen, todo) \in {d.id : d \in decided}

\* Once host and operator stop editing, the managed rules are as intended, or
\* stay as they are for one of those reasons.
EventuallyRestored == <>[](Restores(rules, Sanitized(intent)) = <<>> \/ Stalled)
=============================================================================
