---------------------------- MODULE PolicyDecisions ----------------------------
(***************************************************************************)
(* The decisions of packages/core/src/policy that keep no state: the       *)
(* evaluator with its conditions and its action taxonomy, built-in roles,  *)
(* the resource guard, the rule matcher, and the replay of audited         *)
(* decisions.                                                              *)
(*                                                                         *)
(* A policy set is a set (ids are unique); an action or resource pattern   *)
(* is the set of names it covers, with the name itself when it is literal. *)
(***************************************************************************)
EXTENDS Integers, FiniteSets, SequencesExt, Questions

CONSTANTS DayLength,        \* minutes of a day
          PolicyUniverse,   \* the policies of which sets are evaluated
          PolicySetSize,    \* how many at most
          PolicyContexts,   \* the contexts they are evaluated in
          Taxonomies,       \* sequences of taxonomy nodes
          GuardRules,       \* the rules of which sets guard a resource
          GlobLength        \* the longest glob and name

ASSUME DayAssumption == DayLength \in Nat \ {0}

ScopeOrder == <<"user", "project", "team", "org">>
GetScopePriority(scope) == CHOOSE i \in DOMAIN ScopeOrder : ScopeOrder[i] = scope

ASSUME PolicyAssumption ==
  \A p \in PolicyUniverse :
    /\ p.scope \in Range(ScopeOrder) /\ p.effect \in {"allow", "deny"}
    /\ {p.priority, p.order} \subseteq Int
    /\ p.enabled \in BOOLEAN /\ p.inherit \in BOOLEAN /\ p.override \in BOOLEAN
    /\ \A q \in PolicyUniverse : p.id = q.id \/ p.order = q.order => p = q
    /\ p.id # None

ASSUME GuardAssumption == \A r \in GuardRules : r.effect \in {"allow", "deny"}

(* Tagged values: the operators ask for the type of what they compare. *)
Undefined == <<"undefined">>
Str(s) == <<"string", s>>
Num(n) == <<"number", n>>
List(s) == <<"array", s>>
IsNumber(v) == v[1] = "number"
IsArray(v) == v[1] = "array"

FirstDefined(vs) == IF \A i \in DOMAIN vs : vs[i] = Undefined THEN Undefined
                    ELSE vs[CHOOSE i \in DOMAIN vs : /\ vs[i] # Undefined
                                                     /\ \A j \in 1..(i-1) : vs[j] = Undefined]

ASSUME ContextAssumption ==
  \A c \in PolicyContexts :
    /\ c = [actor |-> c.actor, action |-> c.action, type |-> c.type, res |-> c.res,
            chain |-> c.chain, env |-> c.env]
    /\ c.chain \in Seq(Range(ScopeOrder) \X STRING)
    /\ c.env = [role |-> c.env.role, project |-> c.env.project, tool |-> c.env.tool, time |-> c.env.time]
    /\ c.env.tool = Undefined \/ (c.env.tool[2] # None /\ c.env.tool = Str(c.env.tool[2]))

-----------------------------------------------------------------------------
(* Conditions *)

(* What a condition may name: the actor's own role before its first role
   before the environment's, the environment before the resource. *)
DeriveConditionalDimensions(ctx) ==
  [role |-> FirstDefined(<<ctx.actor.role,
                           IF ctx.actor.roles = <<>> THEN Undefined ELSE ctx.actor.roles[1],
                           ctx.env.role>>),
   roles |-> IF ctx.actor.roles = <<>> THEN Undefined ELSE List(Range(ctx.actor.roles)),
   project |-> FirstDefined(<<ctx.env.project, ctx.res.project>>),
   tool |-> FirstDefined(<<ctx.env.tool, ctx.res.tool>>),
   minutes |-> ctx.env.time]

MatchesDayWindow(minutes, windows) ==
  /\ minutes # Undefined
  /\ \E w \in windows : minutes[2] >= w.from /\ minutes[2] <= w.to

(* Both ends belong to the window; one that ends before it starts goes over midnight. *)
MatchesTimeWindow(minutes, windows) ==
  /\ minutes # Undefined
  /\ \E w \in windows : IF w.from <= w.to
                        THEN minutes[2] >= w.from /\ minutes[2] <= w.to
                        ELSE minutes[2] >= w.from \/ minutes[2] <= w.to

EvaluateCondition(c, dims) ==
  LET field == dims[c.field]
      bothNumbers == IsNumber(field) /\ IsNumber(c.value)
  IN  CASE c.operator = "window" -> MatchesTimeWindow(dims.minutes, c.value)
        [] c.operator = "eq" -> field = c.value
        [] c.operator = "neq" -> field # c.value
        [] c.operator = "in" -> IsArray(c.value) /\ field \in c.value[2]
        [] c.operator = "nin" -> IsArray(c.value) /\ field \notin c.value[2]
        [] c.operator = "contains" -> IsArray(field) /\ c.value \in field[2]
        [] c.operator = "exists" -> field # Undefined
        [] c.operator = "absent" -> field = Undefined
        [] c.operator = "gt" -> bothNumbers /\ field[2] > c.value[2]
        [] c.operator = "gte" -> bothNumbers /\ field[2] >= c.value[2]
        [] c.operator = "lt" -> bothNumbers /\ field[2] < c.value[2]
        [] c.operator = "lte" -> bothNumbers /\ field[2] <= c.value[2]

ConditionsMatch(conditions, ctx) ==
  \A c \in conditions : EvaluateCondition(c, DeriveConditionalDimensions(ctx))

-----------------------------------------------------------------------------
(* The action taxonomy: a sequence of nodes [id, parent, inherits] *)

Nodes(taxonomy) == Range(taxonomy)
Ids(taxonomy) == {n.id : n \in Nodes(taxonomy)}
HasDuplicates(taxonomy) ==
  \E i, j \in DOMAIN taxonomy : i < j /\ taxonomy[i].id = taxonomy[j].id

(* byId keeps the first node of an id. *)
ById(taxonomy, id) == taxonomy[CHOOSE i \in DOMAIN taxonomy :
                                 /\ taxonomy[i].id = id
                                 /\ \A j \in 1..(i-1) : taxonomy[j].id # id]

(* visit climbs from a node until a root, an unknown parent, a node done with,
   or one it is visiting: a cycle. *)
Climb(taxonomy, id, visited) ==
  LET climb[k \in 0..Len(taxonomy)] ==
        IF k = 0 THEN [at |-> id, visiting |-> {}]
        ELSE LET before == climb[k - 1]
             IN  IF before.at \in Ids(taxonomy) \ (visited \cup before.visiting)
                 THEN [at |-> ById(taxonomy, before.at).parent,
                       visiting |-> before.visiting \cup {before.at}]
                 ELSE before
      end == climb[Len(taxonomy)]
  IN  [cycle |-> end.at \in end.visiting, visited |-> visited \cup end.visiting]

CyclesFound(taxonomy) ==
  FoldLeft(LAMBDA acc, n :
             LET visit == Climb(taxonomy, n.id, acc.visited)
             IN  [found |-> acc.found \/ visit.cycle, visited |-> visit.visited],
           [found |-> FALSE, visited |-> {}], taxonomy).found

ValidateActionTaxonomy(taxonomy) ==
  /\ ~HasDuplicates(taxonomy)
  /\ \A n \in Nodes(taxonomy) : n.parent # None => n.parent \in Ids(taxonomy) \ {n.id}
  /\ ~CyclesFound(taxonomy)

(* The children of a node, theirs, and so on. *)
CollectDescendants(taxonomy, id) ==
  LET out[k \in 0..Len(taxonomy)] ==
        IF k = 0 THEN {}
        ELSE {n.id : n \in {m \in Nodes(taxonomy) : m.parent \in {id} \cup out[k - 1]}}
  IN  out[Len(taxonomy)]

(* An evaluator without a taxonomy has the empty one. *)
ResolveTaxonomyActionMatches(action, pattern, taxonomy) ==
  \E n \in Nodes(taxonomy) : /\ n.id = pattern /\ n.inherits
                             /\ action \in CollectDescendants(taxonomy, n.id)

-----------------------------------------------------------------------------
(* Evaluation *)

MatchesActionPattern(action, patterns, taxonomy) ==
  \E p \in patterns : \/ action \in p.covers
                      \/ ResolveTaxonomyActionMatches(action, p.literal, taxonomy)

PolicyMatches(p, ctx, taxonomy) ==
  /\ \E i \in DOMAIN ctx.chain : ctx.chain[i] = <<p.scope, p.scopeId>>
  /\ MatchesActionPattern(ctx.action, p.actions, taxonomy)
  /\ ctx.type \in p.types
  /\ ConditionsMatch(p.conditions, ctx)

Inheritable(p, chain) ==
  p.inherit \/ (chain # <<>> /\ chain[1] = <<p.scope, p.scopeId>>)

ResolveAnyOverride(chain, matching) ==
  LET inheritable == {p \in matching : Inheritable(p, chain)}
      overriding == {p \in inheritable : p.override}
  IN  IF overriding = {} THEN inheritable ELSE overriding

(* An override cuts off every policy of a higher scope than the lowest one
   that overrides. *)
ResolveInheritedPolicies(chain, matching) ==
  LET inheritable == {p \in matching : Inheritable(p, chain)}
      overriding == {p \in inheritable : p.override}
  IN  {p \in inheritable :
         \A o \in overriding : GetScopePriority(p.scope) <= GetScopePriority(o.scope)}

(* Scope, then priority, then id (the order field stands for the ids' order). *)
SortsBefore(p, q) ==
  LET sp == GetScopePriority(p.scope) sq == GetScopePriority(q.scope)
  IN  \/ sp > sq
      \/ sp = sq /\ p.priority > q.priority
      \/ sp = sq /\ p.priority = q.priority /\ p.order < q.order

Top(policies) == CHOOSE p \in policies : \A q \in policies \ {p} : SortsBefore(p, q)

Effective(ctx, policies, taxonomy) ==
  ResolveInheritedPolicies(ctx.chain,
    {p \in policies : p.enabled /\ PolicyMatches(p, ctx, taxonomy)})

EvaluatePolicies(ctx, policies, default, taxonomy) ==
  LET effective == Effective(ctx, policies, taxonomy)
      denies == {p \in effective : p.effect = "deny"}
      allows == {p \in effective : p.effect = "allow"}
      reason(top, isDefault) == [top |-> top, usedDefault |-> isDefault, matched |-> effective]
  IN  IF denies # {} THEN [allowed |-> FALSE, reason |-> reason(Top(denies).id, FALSE)]
      ELSE IF allows # {} THEN [allowed |-> TRUE, reason |-> reason(Top(allows).id, FALSE)]
      ELSE [allowed |-> default = "allow", reason |-> reason(None, TRUE)]

-----------------------------------------------------------------------------
(* Built-in roles *)

RoleActions == [viewer |-> {"read"}, editor |-> {"read", "write"},
                admin |-> {"read", "write", "delete", "admin"}]

(* Unknown roles are dropped; "*" of the owner covers whatever there is. *)
RolePattern(role, actions) ==
  IF role = "owner" THEN {[covers |-> actions, literal |-> None]}
  ELSE {[covers |-> {a}, literal |-> a] : a \in RoleActions[role]}

ResolveBuiltInRoles(roles) == roles \cap {"viewer", "editor", "admin", "owner"}

CreateIdentityRolePolicies(id, roles, actions, types) ==
  {[id |-> <<"rbac", role>>, order |-> 0, scope |-> "user", scopeId |-> id, effect |-> "allow",
    actions |-> RolePattern(role, actions), types |-> types, conditions |-> {},
    priority |-> 0, enabled |-> TRUE, inherit |-> TRUE, override |-> FALSE]
   : role \in ResolveBuiltInRoles(roles)}

-----------------------------------------------------------------------------
(* The resource guard: rules [effect, type, covers] *)

GuardEvaluate(rules, type, target) ==
  LET relevant == {r \in rules : r.type = type}
      matched == {r \in relevant : target \in r.covers}
  IN  CASE \E r \in matched : r.effect = "deny" -> [allowed |-> FALSE, reason |-> "explicit_deny"]
        [] \A r \in matched : r.effect # "deny" ->
             IF matched # {} THEN [allowed |-> TRUE, reason |-> "allowed"]
             ELSE IF \E r \in relevant : r.effect = "allow"
             THEN [allowed |-> FALSE, reason |-> "no_allow_rule"]
             ELSE [allowed |-> TRUE, reason |-> "allowed"]

-----------------------------------------------------------------------------
(* Globs over names of letters and "/" *)

(* "**" reads as any text, "*" as any text without "/", "?" as one character:
   the rest of the glob from i on covers the value from each place of from[i] on. *)
GlobMatches(glob, value) ==
  LET places == 1..(Len(value) + 1)
      from[i \in 1..(Len(glob) + 1)] ==
        CASE i > Len(glob) -> {Len(value) + 1}
          [] i < Len(glob) /\ glob[i] = "*" /\ glob[i + 1] = "*" ->
               {j \in places : \E n \in from[i + 2] : j <= n}
          [] i <= Len(glob) /\ glob[i] = "*" /\ (i = Len(glob) \/ glob[i + 1] # "*") ->
               {j \in places : \E n \in from[i + 1] : j <= n /\ \A k \in j..(n - 1) : value[k] # "/"}
          [] OTHER -> {j \in places : j <= Len(value) /\ glob[i] \in {"?", value[j]} /\ j + 1 \in from[i + 1]}
  IN  1 \in from[1]

MatchesGlob(glob, value) == glob = <<"*">> \/ GlobMatches(glob, value)

(* A rule of a policy document: both globs, its one scope, every condition. *)
MatchesRule(rule, ctx) ==
  /\ MatchesGlob(rule.action, ctx.action) /\ MatchesGlob(rule.resource, ctx.resource)
  /\ rule.scope = ctx.scope
  /\ \A c \in rule.conditions : EvaluateCondition(c, ctx.attributes)

-----------------------------------------------------------------------------
(* Replay of audited decisions *)

(* What an evaluation leaves in the audit trail: the scope chain and the
   attributes are there only when the caller adds them. *)
EvaluatePolicyWithAudit(ctx, policies, default, taxonomy, tool, added) ==
  [actor |-> ctx.actor.id, action |-> ctx.action, type |-> ctx.type, tool |-> tool,
   allowed |-> EvaluatePolicies(ctx, policies, default, taxonomy).allowed,
   context |-> added]

(* toEvaluationContext: what was not logged is empty, and a chain that was
   not is that of the actor alone. *)
NoAttributes == [role |-> Undefined, project |-> Undefined, tool |-> Undefined, time |-> Undefined]

ToEvaluationContext(entry, time) ==
  LET logged == entry.context
      env == IF "env" \in DOMAIN logged THEN logged.env ELSE NoAttributes
  IN  [actor |-> IF "actor" \in DOMAIN logged THEN logged.actor
                 ELSE [id |-> entry.actor, role |-> Undefined, roles |-> <<>>],
       action |-> entry.action, type |-> entry.type,
       res |-> IF "res" \in DOMAIN logged THEN logged.res ELSE NoAttributes,
       chain |-> IF "chain" \in DOMAIN logged /\ logged.chain # <<>> THEN logged.chain
                 ELSE << <<"user", entry.actor>> >>,
       env |-> [env EXCEPT !.tool = IF entry.tool = None THEN @ ELSE Str(entry.tool),
                           !.time = time]]

(* The replay has no taxonomy, whatever the evaluator had. *)
SimulateRecord(entry, time, candidate, default) ==
  LET replayed == EvaluatePolicies(ToEvaluationContext(entry, time), candidate, default, <<>>).allowed
  IN  [historical |-> entry.allowed, candidate |-> replayed,
       delta |-> CASE entry.allowed = replayed -> "none"
                   [] entry.allowed /\ ~replayed -> "allow_to_deny"
                   [] ~entry.allowed /\ replayed -> "deny_to_allow"]

-----------------------------------------------------------------------------
(* Questions *)

PolicySets == {ps \in SUBSET PolicyUniverse : IsFiniteSet(ps) /\ Cardinality(ps) <= PolicySetSize}

PolicyQuestions ==
  [about : {"policy"}, policies : PolicySets, ctx : PolicyContexts,
   default : {"allow", "deny"}, taxonomy : {t \in Taxonomies : ValidateActionTaxonomy(t)}]

TaxonomyQuestions == [about : {"taxonomy"}, taxonomy : Taxonomies]

TimeQuestions == [about : {"time"}, minutes : 0..(DayLength - 1), from : 0..(DayLength - 1),
                  to : 0..(DayLength - 1)]

RoleQuestions == [about : {"roles"}, roles : SUBSET {"viewer", "editor", "admin", "owner", "guest"},
                  ctx : PolicyContexts]

GuardQuestions == [about : {"guard"}, rules : SUBSET GuardRules, type : {r.type : r \in GuardRules},
                   target : UNION {r.covers : r \in GuardRules}]

GlobQuestions == [about : {"glob"}, glob : SeqOf({"a", "*", "?"}, GlobLength),
                  value : SeqOf({"a", "/"}, GlobLength)]

DecisionOn(policies) == EvaluatePolicies(asked.ctx, policies, asked.default, asked.taxonomy)

(* Policies only ever push one way, whatever their scopes, priorities and
   overrides: adding a denying policy to any set never lets an action
   through, adding an allowing one never stops one, and one that was not
   among the matched ones can be dropped without a trace. *)
PoliciesArePushedOneWay ==
  LET answer == DecisionOn(asked.policies)
  IN  /\ \A p \in PolicyUniverse \ asked.policies :
           LET with == DecisionOn(asked.policies \cup {p})
           IN  IF p.effect = "deny" THEN with.allowed => answer.allowed
               ELSE answer.allowed => with.allowed
      /\ \A p \in asked.policies \ answer.reason.matched :
           DecisionOn(asked.policies \ {p}) = answer

(* A policy of a higher scope decides over those below it unless one below
   says override: the reported policy is of the highest scope left that has
   the winning effect, and an enabled policy that matches and is inherited is
   left out only for an override in a strictly lower scope. *)
HigherScopeDecides ==
  LET answer == DecisionOn(asked.policies)
      applies(p) == /\ p.enabled /\ Inheritable(p, asked.ctx.chain)
                    /\ PolicyMatches(p, asked.ctx, asked.taxonomy)
  IN  /\ \A p \in asked.policies : applies(p) =>
           \/ p \in answer.reason.matched
           \/ \E o \in asked.policies : /\ applies(o) /\ o.override
                                        /\ GetScopePriority(o.scope) < GetScopePriority(p.scope)
      /\ answer.reason.top # None =>
           LET top == CHOOSE p \in asked.policies : p.id = answer.reason.top
           IN  /\ answer.allowed = (top.effect = "allow")
               /\ \A p \in answer.reason.matched :
                    p.effect = top.effect => GetScopePriority(p.scope) <= GetScopePriority(top.scope)

(* Replaying an audited decision with the same policies gives that decision
   when the caller logged the chain and the attributes and the evaluator had
   no taxonomy; for a caller that logs nothing it still does when only the
   actor's own policies are asked, and the actor was the user of the chain. *)
ReplayIsFaithful ==
  LET all == [actor |-> asked.ctx.actor, res |-> asked.ctx.res,
              chain |-> asked.ctx.chain, env |-> asked.ctx.env]
      tool == IF asked.ctx.env.tool = Undefined THEN None ELSE asked.ctx.env.tool[2]
      replay(taxonomy, added) ==
        SimulateRecord(EvaluatePolicyWithAudit(asked.ctx, asked.policies, asked.default,
                                               taxonomy, tool, added),
                       asked.ctx.env.time, asked.policies, asked.default)
      own == <<"user", asked.ctx.actor.id>>
      ownOnly == \A p \in asked.policies : /\ p.scope = "user" /\ p.conditions = {}
                                            /\ p.inherit
  IN  /\ asked.ctx.chain # <<>> => replay(<<>>, all).delta = "none"
      /\ ownOnly /\ {s \in Range(asked.ctx.chain) : s[1] = "user"} = {own} => replay(<<>>, <<>>).delta = "none"
      /\ asked.ctx.chain # <<>> /\ replay(asked.taxonomy, all).delta # "none" =>
           \E p \in asked.policies : ~MatchesActionPattern(asked.ctx.action, p.actions, <<>>)

(* A taxonomy is refused exactly when an id is given twice, a parent does not
   exist, or a node is its own ancestor; in one that is accepted no node
   descends from itself and descent is transitive. *)
TaxonomyIsForest ==
  LET t == asked.taxonomy
      parents == [n \in Ids(t) |-> ById(t, n).parent]
      ancestors[k \in 0..Len(t)] ==
        IF k = 0 THEN [n \in Ids(t) |-> n]
        ELSE LET below == ancestors[k - 1]
             IN  [n \in Ids(t) |-> IF below[n] \in Ids(t) THEN parents[below[n]] ELSE below[n]]
      cyclic == \E n \in Ids(t) : ancestors[Len(t)][n] \in Ids(t)
      descendants(n) == CollectDescendants(t, n)
  IN  /\ ValidateActionTaxonomy(t) <=> /\ ~HasDuplicates(t) /\ ~cyclic
                                       /\ \A n \in Nodes(t) : n.parent \in Ids(t) \cup {None}
      /\ ValidateActionTaxonomy(t) =>
           \A n \in Ids(t) : /\ n \notin descendants(n)
                             /\ \A d \in descendants(n) : descendants(d) \subseteq descendants(n)
                             /\ \A d \in Ids(t) : d \in descendants(n) <=>
                                  \E k \in 1..Len(t) : ancestors[k][d] = n

(* A window contains the minutes from its start on, around midnight, until its end. *)
WindowIsAnInterval ==
  MatchesTimeWindow(Num(asked.minutes), {[from |-> asked.from, to |-> asked.to]}) <=>
    (asked.minutes - asked.from) % DayLength <= (asked.to - asked.from) % DayLength

(* A role never takes away what a lesser one gives, unknown roles give
   nothing, and the owner may do anything. *)
RolesAreOrdered ==
  LET names == (UNION {RoleActions[r] : r \in DOMAIN RoleActions}) \cup {asked.ctx.action}
      may(roles) == EvaluatePolicies([asked.ctx EXCEPT !.chain = << <<"user", asked.ctx.actor.id>> >>],
                             CreateIdentityRolePolicies(asked.ctx.actor.id, roles, names,
                                                        {asked.ctx.type}),
                             "deny", <<>>).allowed
  IN  /\ "owner" \in asked.roles => may(asked.roles)
      /\ may(asked.roles) => may((asked.roles \ {"guest", "viewer"}) \cup {"admin"}) \/ "owner" \in asked.roles
      /\ may(asked.roles) = may(asked.roles \ {"guest"})

(* Taking away a rule opens a resource only when it denied it or was the last
   allowing rule of the type; adding one closes it only when it denies it or
   is the first allowing rule of the type. *)
GuardOpensOnlyKnowingly ==
  LET decision(rules) == GuardEvaluate(rules, asked.type, asked.target)
      ofType(rules) == {r \in rules : r.effect = "allow" /\ r.type = asked.type}
  IN  \A r \in asked.rules :
        LET before == decision(asked.rules).allowed
            after == decision(asked.rules \ {r}).allowed
        IN  /\ ~before /\ after => \/ r.effect = "deny" /\ asked.target \in r.covers
                                   \/ ofType(asked.rules) = {r}
            /\ before /\ ~after => r.effect = "allow" /\ asked.target \in r.covers

(* Writing "**" for "*" covers at least as much, and the same where no "/" is. *)
GlobWidens ==
  LET wide == FlattenSeq([i \in DOMAIN asked.glob |->
                            IF asked.glob[i] = "*" THEN <<"*", "*">> ELSE <<asked.glob[i]>>])
  IN  /\ MatchesGlob(asked.glob, asked.value) => MatchesGlob(wide, asked.value)
      /\ "/" \notin Range(asked.value) =>
           (MatchesGlob(asked.glob, asked.value) <=> MatchesGlob(wide, asked.value))

(* Policies, roles, time windows and guards decide as they must. *)
DecisionsSound ==
  /\ AskedAbout("policy") => PoliciesArePushedOneWay /\ HigherScopeDecides /\ ReplayIsFaithful
  /\ AskedAbout("time") => WindowIsAnInterval
  /\ AskedAbout("roles") => RolesAreOrdered
  /\ AskedAbout("guard") => GuardOpensOnlyKnowingly

(* The patterns of actions and names cover what they say. *)
PatternsSound == /\ AskedAbout("taxonomy") => TaxonomyIsForest
                 /\ AskedAbout("glob") => GlobWidens

DecisionsNext == \/ Ask(PolicyQuestions) \/ Ask(TaxonomyQuestions) \/ Ask(TimeQuestions)
                 \/ Ask(RoleQuestions) \/ Ask(GuardQuestions) \/ Ask(GlobQuestions)
=============================================================================
