-------------------------- MODULE PolicyGuards_proofs --------------------------
(***************************************************************************)
(* Proofs about what guards actions, and the trail it leaves:              *)
(* PolicyDecisions, for any policies, contexts, roles and locks;           *)
(* AuditTrail, for any readers, windows and page size; ApprovalGate, for   *)
(* any number of calls, requests and fingerprints; KillSwitch, for any     *)
(* number of callers and any SLA; ActionHooks, for any number of hooks;    *)
(* and RateLimiter, for any rules, contexts and callers.                   *)
(***************************************************************************)
EXTENDS ApprovalGate, KillSwitch, ActionHooks, RateLimiter, AuditTrail, PolicyDecisions,
        FiniteSetTheorems, SequenceTheorems, WellFoundedInduction, TLAPS

-----------------------------------------------------------------------------
(* Induction, for a set instead of a predicate: a least counterexample.    *)

LEMMA NatLeast ==
  ASSUME NEW T \in SUBSET Nat, T # {}
  PROVE  \E x \in T : \A y \in T : ~(y < x)
<1> DEFINE R == OpToRel(<, Nat)
<1>1. IsWellFoundedOn(R, Nat)
  BY NatLessThanWellFounded
<1>2. \A x, y \in Nat : <<x, y>> \in R <=> x < y
  BY DEF OpToRel
<1> HIDE DEF R
<1>3. \E x \in T : \A y \in T : ~(<<y, x>> \in R)
  BY <1>1, WFMin
<1> QED BY <1>2, <1>3

LEMMA Induction ==
  ASSUME NEW T \in SUBSET Nat, 0 \in T, \A n \in T : n + 1 \in T
  PROVE  T = Nat
<1> SUFFICES ASSUME T # Nat PROVE FALSE
  OBVIOUS
<1>1. PICK x \in Nat \ T : \A y \in Nat \ T : ~(y < x)
  BY NatLeast
<1>2. x - 1 \in Nat /\ x - 1 \in T
  BY <1>1
<1> QED BY <1>1, <1>2


-----------------------------------------------------------------------------
(* Policies.  Which of them decide.                                        *)

\* A policy that is not ignored.
Applies(p, ctx, taxonomy) ==
  p.enabled /\ PolicyMatches(p, ctx, taxonomy) /\ Inheritable(p, ctx.chain)

\* Scopes are places in their order.
LEMMA ScopesOrdered == \A s \in Range(ScopeOrder) : GetScopePriority(s) \in Int
<1> SUFFICES ASSUME NEW s \in Range(ScopeOrder) PROVE GetScopePriority(s) \in Int
  OBVIOUS
<1>1. PICK i \in DOMAIN ScopeOrder : ScopeOrder[i] = s
  BY DEF Range
<1>2. GetScopePriority(s) \in DOMAIN ScopeOrder
  BY <1>1 DEF GetScopePriority
<1>3. DOMAIN ScopeOrder \subseteq Int
  BY DEF ScopeOrder
<1> QED BY <1>2, <1>3

\* What decides, by what applies.
LEMMA EffectiveIs ==
  ASSUME NEW ctx, NEW taxonomy, NEW ps
  PROVE  Effective(ctx, ps, taxonomy) =
           {p \in ps : /\ Applies(p, ctx, taxonomy)
                       /\ \A o \in ps : Applies(o, ctx, taxonomy) /\ o.override =>
                            GetScopePriority(p.scope) <= GetScopePriority(o.scope)}
  BY DEF Effective, ResolveInheritedPolicies, Applies

\* One more policy that does not decide changes nothing, and one that does takes
\* no other in.
LEMMA OneMore ==
  ASSUME NEW ctx, NEW taxonomy, NEW ps \in SUBSET PolicyUniverse, NEW p \in PolicyUniverse
  PROVE  /\ p \notin Effective(ctx, ps \cup {p}, taxonomy) =>
              Effective(ctx, ps \cup {p}, taxonomy) = Effective(ctx, ps \ {p}, taxonomy)
         /\ Effective(ctx, ps \cup {p}, taxonomy) \ {p} \subseteq Effective(ctx, ps \ {p}, taxonomy)
<1> DEFINE prio(q) == GetScopePriority(q.scope)
           on(q) == Applies(q, ctx, taxonomy)
           more == Effective(ctx, ps \cup {p}, taxonomy)
           less == Effective(ctx, ps \ {p}, taxonomy)
<1>1. \A q \in PolicyUniverse : prio(q) \in Int
  BY PolicyAssumption, ScopesOrdered
<1>2. \A q : q \in more <=> /\ q \in ps \cup {p} /\ on(q)
                            /\ \A o \in ps \cup {p} : on(o) /\ o.override => prio(q) <= prio(o)
  BY EffectiveIs
<1>3. \A q : q \in less <=> /\ q \in ps \ {p} /\ on(q)
                            /\ \A o \in ps \ {p} : on(o) /\ o.override => prio(q) <= prio(o)
  BY EffectiveIs
<1> HIDE DEF prio, on, more, less
<1>4. more \ {p} \subseteq less
  BY <1>2, <1>3
<1>5. ASSUME p \notin more, NEW q \in less PROVE q \in more
  <2>1. q \in ps \ {p} /\ on(q) /\ \A o \in ps \ {p} : on(o) /\ o.override => prio(q) <= prio(o)
    BY <1>3, <1>5
  <2>2. ASSUME on(p), p.override PROVE prio(q) <= prio(p)
    <3>1. PICK o \in ps \cup {p} : on(o) /\ o.override /\ ~(prio(p) <= prio(o))
      BY <1>2, <1>5, <2>2
    <3>2. o # p
      BY <1>1, <3>1
    <3>3. prio(q) <= prio(o)
      BY <2>1, <3>1, <3>2
    <3>4. prio(o) \in Int /\ prio(p) \in Int /\ prio(q) \in Int
      BY <1>1, <2>1, <3>1
    <3> QED BY <3>1, <3>3, <3>4
  <2>3. \A o \in ps \cup {p} : on(o) /\ o.override => prio(q) <= prio(o)
    BY <2>1, <2>2
  <2> QED BY <1>2, <2>1, <2>3
<1>6. p \notin more => more = less
  BY <1>4, <1>5
<1> QED BY <1>4, <1>6 DEF more, less

\* What is allowed: nothing that decides denies, and something does or the default lets in.
LEMMA AllowedWhen ==
  ASSUME NEW ctx, NEW ps \in SUBSET PolicyUniverse, NEW default, NEW taxonomy
  PROVE  LET effective == Effective(ctx, ps, taxonomy)
         IN  EvaluatePolicies(ctx, ps, default, taxonomy).allowed =
               /\ \A p \in effective : p.effect # "deny"
               /\ effective # {} \/ default = "allow"
<1> DEFINE effective == Effective(ctx, ps, taxonomy)
           denies == {p \in effective : p.effect = "deny"}
           allows == {p \in effective : p.effect = "allow"}
           reason(top, isDefault) == [top |-> top, usedDefault |-> isDefault, matched |-> effective]
           answer == EvaluatePolicies(ctx, ps, default, taxonomy)
<1>1. answer = IF denies # {} THEN [allowed |-> FALSE, reason |-> reason(Top(denies).id, FALSE)]
               ELSE IF allows # {} THEN [allowed |-> TRUE, reason |-> reason(Top(allows).id, FALSE)]
               ELSE [allowed |-> default = "allow", reason |-> reason(None, TRUE)]
  BY DEF EvaluatePolicies
<1>2. \A p \in effective : p.effect \in {"allow", "deny"}
  BY EffectiveIs, PolicyAssumption
<1> SUFFICES answer.allowed = (/\ \A p \in effective : p.effect # "deny"
                               /\ effective # {} \/ default = "allow")
  OBVIOUS
<1> HIDE DEF effective, answer, reason
<1>3. CASE denies # {}
  <2>1. ~answer.allowed
    BY <1>1, <1>3
  <2> QED BY <1>1, <1>3, <2>1
<1>4. CASE denies = {} /\ allows # {}
  <2>1. answer.allowed = TRUE
    BY <1>1, <1>4
  <2> QED BY <1>4, <2>1
<1>5. CASE denies = {} /\ allows = {}
  <2>1. answer.allowed = (default = "allow")
    BY <1>1, <1>5
  <2>2. effective = {}
    BY <1>2, <1>5
  <2> QED BY <1>5, <2>1, <2>2
<1> QED BY <1>3, <1>4, <1>5

\* The whole answer is that of what decides.
LEMMA EffectiveDecides ==
  ASSUME NEW ctx, NEW other, NEW ps, NEW qs, NEW default, NEW taxonomy, NEW another,
         Effective(ctx, ps, taxonomy) = Effective(other, qs, another)
  PROVE  EvaluatePolicies(ctx, ps, default, taxonomy) = EvaluatePolicies(other, qs, default, another)
  BY DEF EvaluatePolicies

\* The answer lists what decides.
LEMMA MatchedIs ==
  ASSUME NEW ctx, NEW ps, NEW default, NEW taxonomy
  PROVE  EvaluatePolicies(ctx, ps, default, taxonomy).reason.matched = Effective(ctx, ps, taxonomy)
<1> DEFINE effective == Effective(ctx, ps, taxonomy)
           reason(top, isDefault) == [top |-> top, usedDefault |-> isDefault, matched |-> effective]
           answer == EvaluatePolicies(ctx, ps, default, taxonomy)
<1>1. \E top, isDefault, lets : answer = [allowed |-> lets, reason |-> reason(top, isDefault)]
  BY DEF EvaluatePolicies
<1> HIDE DEF effective, answer
<1>2. answer.reason.matched = effective
  BY <1>1
<1> QED BY <1>2 DEF effective, answer

\* PoliciesArePushedOneWay, for any policies.
LEMMA PushedOneWay ==
  ASSUME asked \in PolicyQuestions
  PROVE  PoliciesArePushedOneWay
<1> DEFINE ctx == asked.ctx
           taxonomy == asked.taxonomy
           ps == asked.policies
           E(qs) == Effective(ctx, qs, taxonomy)
           lets(qs) == DecisionOn(qs).allowed
<1>1. ps \in SUBSET PolicyUniverse
  BY DEF PolicyQuestions, PolicySets
<1>2. \A qs \in SUBSET PolicyUniverse :
         lets(qs) = (/\ \A p \in E(qs) : p.effect # "deny"
                     /\ E(qs) # {} \/ asked.default = "allow")
  <2> SUFFICES ASSUME NEW qs \in SUBSET PolicyUniverse
               PROVE  lets(qs) = (/\ \A p \in E(qs) : p.effect # "deny"
                                  /\ E(qs) # {} \/ asked.default = "allow")
    OBVIOUS
  <2>1. lets(qs) = EvaluatePolicies(ctx, qs, asked.default, taxonomy).allowed
    BY DEF DecisionOn
  <2>2. EvaluatePolicies(ctx, qs, asked.default, taxonomy).allowed =
          (/\ \A p \in Effective(ctx, qs, taxonomy) : p.effect # "deny"
           /\ Effective(ctx, qs, taxonomy) # {} \/ asked.default = "allow")
    <3> HIDE DEF ctx, taxonomy
    <3> QED BY AllowedWhen, Zenon
  <2> QED BY <2>1, <2>2
<1>3. \A qs, rs : E(qs) = E(rs) => DecisionOn(qs) = DecisionOn(rs)
  BY EffectiveDecides DEF DecisionOn
<1>4. DecisionOn(ps).reason.matched = E(ps)
  BY MatchedIs DEF DecisionOn
<1>5. \A qs \in SUBSET PolicyUniverse : \A p \in PolicyUniverse :
        /\ p \notin E(qs \cup {p}) => E(qs \cup {p}) = E(qs \ {p})
        /\ E(qs \cup {p}) \ {p} \subseteq E(qs \ {p})
  BY OneMore
<1> SUFFICES /\ \A p \in PolicyUniverse \ ps :
                  IF p.effect = "deny" THEN lets(ps \cup {p}) => lets(ps)
                  ELSE lets(ps) => lets(ps \cup {p})
             /\ \A p \in ps \ E(ps) : DecisionOn(ps \ {p}) = DecisionOn(ps)
  BY <1>4 DEF PoliciesArePushedOneWay
<1> HIDE DEF E, ps, ctx, taxonomy, lets
<1>6. ASSUME NEW p \in PolicyUniverse \ ps
      PROVE  IF p.effect = "deny" THEN lets(ps \cup {p}) => lets(ps)
             ELSE lets(ps) => lets(ps \cup {p})
  <2>1. ps \ {p} = ps /\ ps \cup {p} \in SUBSET PolicyUniverse
    BY <1>1
  <2>2. CASE p \notin E(ps \cup {p})
    <3>1. E(ps \cup {p}) = E(ps)
      BY <1>1, <1>5, <2>1, <2>2
    <3> QED BY <1>1, <1>2, <2>1, <3>1
  <2>3. CASE p \in E(ps \cup {p})
    <3>1. E(ps \cup {p}) \ {p} \subseteq E(ps)
      BY <1>1, <1>5, <2>1
    <3>2. p.effect = "deny" => ~lets(ps \cup {p})
      BY <1>2, <2>1, <2>3
    <3>3. ASSUME p.effect # "deny", lets(ps) PROVE lets(ps \cup {p})
      <4>1. \A q \in E(ps) : q.effect # "deny"
        BY <1>1, <1>2, <3>3
      <4>2. \A q \in E(ps \cup {p}) : q.effect # "deny"
        BY <3>1, <3>3, <4>1
      <4> QED BY <1>2, <2>1, <2>3, <4>2
    <3> QED BY <3>2, <3>3
  <2> QED BY <2>2, <2>3
<1>7. ASSUME NEW p \in ps \ E(ps) PROVE DecisionOn(ps \ {p}) = DecisionOn(ps)
  <2>1. ps \cup {p} = ps /\ p \in PolicyUniverse
    BY <1>1
  <2>2. E(ps \ {p}) = E(ps)
    BY <1>1, <1>5, <1>7, <2>1
  <2> QED BY <1>3, <2>2
<1> QED BY <1>6, <1>7

\* A transitive relation that compares any two of finitely many has a first.
LEMMA FirstOfFinite ==
  ASSUME NEW S, IsFiniteSet(S), NEW R,
         \A x, y, z \in S : <<x, y>> \in R /\ <<y, z>> \in R => <<x, z>> \in R,
         \A x, y \in S : x # y => <<x, y>> \in R \/ <<y, x>> \in R
  PROVE  S # {} => \E x \in S : \A y \in S \ {x} : <<x, y>> \in R
<1> DEFINE T == {n \in Nat : \A U \in SUBSET S : Cardinality(U) = n /\ U # {} =>
                               \E x \in U : \A y \in U \ {x} : <<x, y>> \in R}
<1>1. \A U \in SUBSET S : IsFiniteSet(U) /\ Cardinality(U) \in Nat
  BY FS_Subset, FS_CardinalityType
<1>2. 0 \in T
  BY <1>1, FS_EmptySet
<1>3. ASSUME NEW n \in T PROVE n + 1 \in T
  <2>1. n \in Nat /\ n + 1 \in Nat
    OBVIOUS
  <2> SUFFICES ASSUME NEW U \in SUBSET S, Cardinality(U) = n + 1, U # {}
               PROVE  \E x \in U : \A y \in U \ {x} : <<x, y>> \in R
    BY <2>1
  <2>2. PICK u \in U : TRUE
    OBVIOUS
  <2>3. Cardinality(U \ {u}) = n
    <3>1. IsFiniteSet(U) /\ u \in U
      BY <1>1, <2>2
    <3>2. Cardinality(U \ {u}) = Cardinality(U) - 1
      BY <3>1, FS_RemoveElement
    <3> QED BY <2>1, <3>2
  <2>4. CASE U \ {u} = {}
    BY <2>2, <2>4
  <2>5. CASE U \ {u} # {}
    <3>1. PICK x \in U \ {u} : \A y \in (U \ {u}) \ {x} : <<x, y>> \in R
      BY <2>3, <2>5
    <3>2. CASE <<x, u>> \in R
      BY <3>1, <3>2
    <3>3. CASE <<u, x>> \in R
      <4>1. \A y \in U \ {u} : <<u, y>> \in R
        BY <2>2, <3>1, <3>3
      <4> QED BY <2>2, <4>1
    <3> QED BY <2>2, <3>1, <3>2, <3>3
  <2> QED BY <2>4, <2>5
<1>4. T = Nat
  <2> HIDE DEF T
  <2>1. T \in SUBSET Nat
    BY DEF T
  <2> QED BY <1>2, <1>3, <2>1, Induction
<1>5. Cardinality(S) \in T
  BY <1>1, <1>4
<1> QED BY <1>5

\* Of the policies with one effect one sorts before the others.
LEMMA TopIs ==
  ASSUME NEW ps \in SUBSET PolicyUniverse, IsFiniteSet(ps), ps # {}
  PROVE  /\ Top(ps) \in ps
         /\ \A q \in ps : GetScopePriority(q.scope) <= GetScopePriority(Top(ps).scope)
<1> DEFINE prio(q) == GetScopePriority(q.scope)
           R == {r \in ps \X ps : SortsBefore(r[1], r[2])}
<1>1. \A q \in ps : prio(q) \in Int /\ q.priority \in Int /\ q.order \in Int
  BY PolicyAssumption, ScopesOrdered
<1>2. \A p, q \in ps : p # q => p.order # q.order
  BY PolicyAssumption
<1>3. \A p, q \in ps : SortsBefore(p, q) <=>
        \/ prio(p) > prio(q)
        \/ prio(p) = prio(q) /\ p.priority > q.priority
        \/ prio(p) = prio(q) /\ p.priority = q.priority /\ p.order < q.order
  BY DEF SortsBefore
<1>4. \A p, q \in ps : <<p, q>> \in R <=> SortsBefore(p, q)
  OBVIOUS
<1> HIDE DEF prio, R
<1>5. \A x, y, z \in ps : <<x, y>> \in R /\ <<y, z>> \in R => <<x, z>> \in R
  BY <1>1, <1>3, <1>4
<1>6. \A x, y \in ps : x # y => <<x, y>> \in R \/ <<y, x>> \in R
  BY <1>1, <1>2, <1>3, <1>4
<1>7. PICK p \in ps : \A q \in ps \ {p} : <<p, q>> \in R
  BY <1>5, <1>6, FirstOfFinite
<1>8. Top(ps) \in ps /\ \A q \in ps \ {Top(ps)} : SortsBefore(Top(ps), q)
  <2>1. \A q \in ps \ {p} : SortsBefore(p, q)
    BY <1>4, <1>7
  <2> QED BY <2>1 DEF Top
<1>9. \A q \in ps : prio(q) <= prio(Top(ps))
  BY <1>1, <1>3, <1>8
<1> QED BY <1>8, <1>9 DEF prio

\* HigherScopeDecides, for any policies.
LEMMA HigherDecides ==
  ASSUME asked \in PolicyQuestions
  PROVE  HigherScopeDecides
<1> DEFINE ctx == asked.ctx
           ps == asked.policies
           answer == DecisionOn(ps)
           effective == Effective(ctx, ps, asked.taxonomy)
           denies == {p \in effective : p.effect = "deny"}
           allows == {p \in effective : p.effect = "allow"}
           prio(p) == GetScopePriority(p.scope)
           on(p) == Applies(p, ctx, asked.taxonomy)
           reason(top, isDefault) == [top |-> top, usedDefault |-> isDefault, matched |-> effective]
           said == CHOOSE p \in ps : p.id = answer.reason.top
<1>1. ps \in SUBSET PolicyUniverse /\ IsFiniteSet(ps)
  BY DEF PolicyQuestions, PolicySets
<1>2. answer.reason.matched = effective
  BY MatchedIs DEF DecisionOn
<1>3. effective = {p \in ps : on(p) /\ \A o \in ps : on(o) /\ o.override => prio(p) <= prio(o)}
  BY EffectiveIs
<1>4. \A p \in ps : prio(p) \in Int
  BY <1>1, PolicyAssumption, ScopesOrdered
<1>5. answer = IF denies # {} THEN [allowed |-> FALSE, reason |-> reason(Top(denies).id, FALSE)]
               ELSE IF allows # {} THEN [allowed |-> TRUE, reason |-> reason(Top(allows).id, FALSE)]
               ELSE [allowed |-> asked.default = "allow", reason |-> reason(None, TRUE)]
  BY DEF DecisionOn, EvaluatePolicies
<1> SUFFICES /\ \A p \in ps : on(p) => \/ p \in answer.reason.matched
                                       \/ \E o \in ps : on(o) /\ o.override /\ prio(o) < prio(p)
             /\ answer.reason.top # None =>
                  /\ answer.allowed = (said.effect = "allow")
                  /\ \A p \in answer.reason.matched : p.effect = said.effect => prio(p) <= prio(said)
  BY DEF HigherScopeDecides, Applies
<1> HIDE DEF answer, effective, ps, ctx, prio, on
<1>6. \A p \in ps : on(p) => \/ p \in answer.reason.matched
                             \/ \E o \in ps : on(o) /\ o.override /\ prio(o) < prio(p)
  BY <1>2, <1>3, <1>4
<1>7. effective \in SUBSET ps /\ denies \in SUBSET PolicyUniverse /\ allows \in SUBSET PolicyUniverse
  BY <1>1, <1>3
<1>8. IsFiniteSet(denies) /\ IsFiniteSet(allows)
  <2>1. denies \subseteq ps /\ allows \subseteq ps
    BY <1>7
  <2> QED BY <1>1, <2>1, FS_Subset
<1>9. ASSUME NEW top \in ps, answer.reason.top = top.id PROVE said = top
  <2>1. \A p \in ps : p.id = top.id => p = top
    BY <1>1, PolicyAssumption
  <2> QED BY <1>9, <2>1
<1> HIDE DEF said, reason
<1>10. CASE denies # {}
  <2>1. /\ Top(denies) \in denies
        /\ \A q \in denies : prio(q) <= prio(Top(denies))
    BY <1>7, <1>8, <1>10, TopIs DEF prio
  <2>2. ~answer.allowed /\ answer.reason.top = Top(denies).id
    BY <1>5, <1>10 DEF reason
  <2>3. said = Top(denies)
    BY <1>7, <1>9, <2>1, <2>2
  <2>4. said.effect = "deny"
    BY <2>1, <2>3
  <2>5. answer.allowed = FALSE
    BY <1>5, <1>10
  <2>6. \A p \in effective : p.effect = "deny" => prio(p) <= prio(said)
    BY <2>1, <2>3
  <2> QED BY <1>2, <1>6, <2>4, <2>5, <2>6
<1>11. CASE denies = {} /\ allows # {}
  <2>1. /\ Top(allows) \in allows
        /\ \A q \in allows : prio(q) <= prio(Top(allows))
    BY <1>7, <1>8, <1>11, TopIs DEF prio
  <2>2. answer.allowed = TRUE /\ answer.reason.top = Top(allows).id
    BY <1>5, <1>11 DEF reason
  <2>3. said = Top(allows)
    BY <1>7, <1>9, <2>1, <2>2
  <2>4. said.effect = "allow"
    BY <2>1, <2>3
  <2>6. \A p \in effective : p.effect = "allow" => prio(p) <= prio(said)
    BY <2>1, <2>3
  <2> QED BY <1>2, <1>6, <2>2, <2>4, <2>6
<1>12. CASE denies = {} /\ allows = {}
  <2>1. answer.reason.top = None
    BY <1>5, <1>12 DEF reason
  <2> QED BY <1>6, <2>1
<1> QED BY <1>10, <1>11, <1>12

\* Without a taxonomy fewer patterns match.
LEMMA MatchedByItself ==
  ASSUME NEW action, NEW patterns, NEW taxonomy
  PROVE  MatchesActionPattern(action, patterns, <<>>) => MatchesActionPattern(action, patterns, taxonomy)
<1>1. Nodes(<<>>) = {}
  BY DEF Nodes, Range
<1> QED BY <1>1 DEF MatchesActionPattern, ResolveTaxonomyActionMatches

\* When everything was logged, what is replayed is what was evaluated.
LEMMA LoggedContext ==
  ASSUME NEW ctx \in PolicyContexts, ctx.chain # <<>>, NEW policies, NEW default, NEW taxonomy
  PROVE  LET all == [actor |-> ctx.actor, res |-> ctx.res, chain |-> ctx.chain, env |-> ctx.env]
             tool == IF ctx.env.tool = Undefined THEN None ELSE ctx.env.tool[2]
         IN  ToEvaluationContext(EvaluatePolicyWithAudit(ctx, policies, default, taxonomy, tool, all),
                                 ctx.env.time) = ctx
<1> DEFINE all == [actor |-> ctx.actor, res |-> ctx.res, chain |-> ctx.chain, env |-> ctx.env]
           tool == IF ctx.env.tool = Undefined THEN None ELSE ctx.env.tool[2]
           entry == EvaluatePolicyWithAudit(ctx, policies, default, taxonomy, tool, all)
           env == [ctx.env EXCEPT !.tool = IF entry.tool = None THEN @ ELSE Str(entry.tool),
                                  !.time = ctx.env.time]
<1>1. /\ ctx = [actor |-> ctx.actor, action |-> ctx.action, type |-> ctx.type, res |-> ctx.res,
                chain |-> ctx.chain, env |-> ctx.env]
      /\ ctx.env = [role |-> ctx.env.role, project |-> ctx.env.project, tool |-> ctx.env.tool,
                    time |-> ctx.env.time]
      /\ ctx.env.tool = Undefined \/ (ctx.env.tool[2] # None /\ ctx.env.tool = Str(ctx.env.tool[2]))
  BY ContextAssumption
<1>2. /\ entry.action = ctx.action /\ entry.type = ctx.type /\ entry.tool = tool /\ entry.context = all
  BY DEF EvaluatePolicyWithAudit
<1>3. DOMAIN all = {"actor", "res", "chain", "env"}
  OBVIOUS
<1>4. all.actor = ctx.actor /\ all.res = ctx.res /\ all.chain = ctx.chain /\ all.env = ctx.env
  OBVIOUS
<1>5. ToEvaluationContext(entry, ctx.env.time) =
        [actor |-> ctx.actor, action |-> ctx.action, type |-> ctx.type, res |-> ctx.res,
         chain |-> ctx.chain, env |-> env]
  <2> HIDE DEF entry, all, tool
  <2> QED BY <1>2, <1>3, <1>4 DEF ToEvaluationContext
<1>6. env = ctx.env
  <2>1. (IF entry.tool = None THEN ctx.env.tool ELSE Str(entry.tool)) = ctx.env.tool
    <3>1. CASE ctx.env.tool = Undefined
      BY <1>2, <3>1
    <3>2. CASE ctx.env.tool # Undefined
      BY <1>1, <1>2, <3>2
    <3> QED BY <3>1, <3>2
  <2> HIDE DEF entry
  <2>2. env = [ctx.env EXCEPT !.tool = ctx.env.tool, !.time = ctx.env.time]
    BY <2>1
  <2> QED BY <1>1, <2>2
<1> QED BY <1>1, <1>5, <1>6

\* A replay that allows what was allowed finds no difference.
LEMMA ReplayOf ==
  ASSUME NEW entry, NEW time, NEW policies, NEW default, entry.allowed \in BOOLEAN,
         EvaluatePolicies(ToEvaluationContext(entry, time), policies, default, <<>>).allowed = entry.allowed
  PROVE  SimulateRecord(entry, time, policies, default).delta = "none"
  BY DEF SimulateRecord

\* A policy of the actor itself that asks nothing of attributes is matched alike
\* in any context of the same request whose chain has the actor and no other user.
LEMMA OwnPolicies ==
  ASSUME NEW ctx, NEW other, NEW own, NEW ps,
         ctx.action = other.action, ctx.type = other.type,
         own[1] = "user", own \in Range(ctx.chain) \cap Range(other.chain),
         \A s \in Range(ctx.chain) \cup Range(other.chain) : s[1] = "user" => s = own,
         \A p \in ps : p.scope = "user" /\ p.conditions = {} /\ p.inherit
  PROVE  Effective(ctx, ps, <<>>) = Effective(other, ps, <<>>)
<1>1. ASSUME NEW p \in ps PROVE PolicyMatches(p, ctx, <<>>) <=> PolicyMatches(p, other, <<>>)
  <2>1. ASSUME NEW c \in {ctx, other}
        PROVE  (\E i \in DOMAIN c.chain : c.chain[i] = <<p.scope, p.scopeId>>) <=> own = <<p.scope, p.scopeId>>
    <3>1. own \in Range(c.chain) /\ \A s \in Range(c.chain) : s[1] = "user" => s = own
      BY <2>1
    <3>2. p.scope = "user"
      OBVIOUS
    <3>3. (\E i \in DOMAIN c.chain : c.chain[i] = <<p.scope, p.scopeId>>)
             <=> <<p.scope, p.scopeId>> \in Range(c.chain)
      BY DEF Range
    <3>4. <<p.scope, p.scopeId>>[1] = "user"
      BY <3>2
    <3> QED BY <3>1, <3>3, <3>4
  <2>2. ConditionsMatch(p.conditions, ctx) /\ ConditionsMatch(p.conditions, other)
    BY DEF ConditionsMatch
  <2> QED BY <2>1, <2>2 DEF PolicyMatches
<1>2. \A p \in ps : Applies(p, ctx, <<>>) <=> Applies(p, other, <<>>)
  BY <1>1 DEF Applies, Inheritable
<1> QED BY <1>2, EffectiveIs

\* ReplayIsFaithful, for any policies and contexts.
LEMMA ReplayFaithful ==
  ASSUME asked \in PolicyQuestions
  PROVE  ReplayIsFaithful
<1> DEFINE ctx == asked.ctx
           ps == asked.policies
           all == [actor |-> ctx.actor, res |-> ctx.res, chain |-> ctx.chain, env |-> ctx.env]
           tool == IF ctx.env.tool = Undefined THEN None ELSE ctx.env.tool[2]
           entry(taxonomy, added) ==
             EvaluatePolicyWithAudit(ctx, ps, asked.default, taxonomy, tool, added)
           replay(taxonomy, added) == SimulateRecord(entry(taxonomy, added), ctx.env.time, ps, asked.default)
           own == <<"user", ctx.actor.id>>
           ownOnly == \A p \in ps : p.scope = "user" /\ p.conditions = {} /\ p.inherit
           alone(c, taxonomy) == EvaluatePolicies(c, ps, asked.default, taxonomy)
<1>1. ctx \in PolicyContexts /\ ps \in SUBSET PolicyUniverse
  BY DEF PolicyQuestions, PolicySets
<1>2. \A taxonomy, added : entry(taxonomy, added).allowed = alone(ctx, taxonomy).allowed
  BY DEF EvaluatePolicyWithAudit
<1>3. \A taxonomy : alone(ctx, taxonomy).allowed \in BOOLEAN
  <2> SUFFICES ASSUME NEW taxonomy PROVE alone(ctx, taxonomy).allowed \in BOOLEAN
    OBVIOUS
  <2> DEFINE effective == Effective(ctx, ps, taxonomy)
  <2>1. alone(ctx, taxonomy).allowed = (/\ \A p \in effective : p.effect # "deny"
                                        /\ effective # {} \/ asked.default = "allow")
    <3> HIDE DEF ctx, ps
    <3> QED BY <1>1, AllowedWhen, Zenon
  <2> QED BY <2>1
<1>4. ASSUME NEW taxonomy, NEW added,
             alone(ToEvaluationContext(entry(taxonomy, added), ctx.env.time), <<>>).allowed
               = alone(ctx, taxonomy).allowed
      PROVE  replay(taxonomy, added).delta = "none"
  <2>1. entry(taxonomy, added).allowed \in BOOLEAN
    BY <1>2, <1>3
  <2>2. alone(ToEvaluationContext(entry(taxonomy, added), ctx.env.time), <<>>).allowed
          = entry(taxonomy, added).allowed
    BY <1>2, <1>4
  <2> HIDE DEF entry
  <2> QED BY <2>1, <2>2, ReplayOf
<1>5. ctx.chain # <<>> => \A taxonomy : ToEvaluationContext(entry(taxonomy, all), ctx.env.time) = ctx
  BY <1>1, LoggedContext
<1>6. ctx.chain # <<>> => replay(<<>>, all).delta = "none"
  <2> HIDE DEF entry, all, alone, replay, ctx
  <2> QED BY <1>4, <1>5
<1>7. ASSUME ownOnly, {s \in Range(ctx.chain) : s[1] = "user"} = {own}
      PROVE  replay(<<>>, <<>>).delta = "none"
  <2> DEFINE e == entry(<<>>, <<>>)
             c == ToEvaluationContext(e, ctx.env.time)
  <2>1. e.actor = ctx.actor.id /\ e.action = ctx.action /\ e.type = ctx.type /\ e.context = <<>>
    BY DEF EvaluatePolicyWithAudit
  <2>2. c.action = ctx.action /\ c.type = ctx.type /\ c.chain = <<own>>
    <3>1. "chain" \notin DOMAIN <<>>
      OBVIOUS
    <3> HIDE DEF e
    <3> QED BY <2>1, <3>1 DEF ToEvaluationContext
  <2>3. own[1] = "user" /\ own \in Range(c.chain) /\ \A s \in Range(c.chain) : s = own
    <3>1. Range(<<own>>) = {own}
      BY DEF Range
    <3>2. own[1] = "user"
      OBVIOUS
    <3> HIDE DEF own
    <3> QED BY <2>2, <3>1, <3>2
  <2> HIDE DEF e, c, ctx, own, ps
  <2>4. Effective(ctx, ps, <<>>) = Effective(c, ps, <<>>)
    <3>1. ctx.action = c.action /\ ctx.type = c.type
      BY <2>2
    <3>2. own \in Range(ctx.chain) /\ \A s \in Range(ctx.chain) : s[1] = "user" => s = own
      BY <1>7
    <3>3. \A p \in ps : p.scope = "user" /\ p.conditions = {} /\ p.inherit
      BY <1>7
    <3>4. own \in Range(ctx.chain) \cap Range(c.chain)
      BY <2>3, <3>2
    <3>5. \A s \in Range(ctx.chain) \cup Range(c.chain) : s[1] = "user" => s = own
      BY <2>3, <3>2
    <3> QED BY <2>3, <3>1, <3>3, <3>4, <3>5, OwnPolicies
  <2>5. alone(c, <<>>).allowed = alone(ctx, <<>>).allowed
    BY <2>4, EffectiveDecides
  <2> HIDE DEF alone, replay, entry
  <2> QED BY <1>4, <2>5 DEF c, e
<1>8. ASSUME ctx.chain # <<>>, replay(asked.taxonomy, all).delta # "none"
      PROVE  \E p \in ps : ~MatchesActionPattern(ctx.action, p.actions, <<>>)
  <2> SUFFICES ASSUME \A p \in ps : MatchesActionPattern(ctx.action, p.actions, <<>>)
               PROVE  FALSE
    OBVIOUS
  <2>1. \A p \in ps : MatchesActionPattern(ctx.action, p.actions, asked.taxonomy)
    BY MatchedByItself
  <2>2. \A p \in ps : Applies(p, ctx, asked.taxonomy) <=> Applies(p, ctx, <<>>)
    BY <2>1 DEF Applies, PolicyMatches
  <2>3. Effective(ctx, ps, asked.taxonomy) = Effective(ctx, ps, <<>>)
    BY <2>2, EffectiveIs
  <2>4. alone(ctx, asked.taxonomy).allowed = alone(ctx, <<>>).allowed
    BY <2>3, EffectiveDecides
  <2> HIDE DEF entry, all, alone, replay, ctx
  <2> QED BY <1>4, <1>5, <1>8, <2>4
<1> QED BY <1>6, <1>7, <1>8 DEF ReplayIsFaithful

\* Differences of times of day, taken around midnight.
LEMMA AroundMidnight ==
  ASSUME NEW a \in 0..(DayLength - 1), NEW b \in 0..(DayLength - 1)
  PROVE  (a - b) % DayLength = IF b <= a THEN a - b ELSE a - b + DayLength
<1> DEFINE d == IF b <= a THEN a - b ELSE a - b + DayLength
           q == IF b <= a THEN 0 ELSE -1
<1>1. DayLength \in Nat /\ DayLength > 0
  BY DayAssumption
<1>2. a - b \in Int /\ d \in 0..(DayLength - 1) /\ q \in Int
  BY <1>1
<1>3. a - b = DayLength * q + d
  BY <1>1
<1> HIDE DEF d, q
<1>4. (a - b) % DayLength = d
  BY <1>1, <1>2, <1>3
<1> QED BY <1>4 DEF d

\* WindowIsAnInterval, for a day of any length.
LEMMA WindowHolds ==
  ASSUME asked \in TimeQuestions
  PROVE  WindowIsAnInterval
<1> DEFINE m == asked.minutes
           from == asked.from
           to == asked.to
<1>1. /\ m \in 0..(DayLength - 1) /\ from \in 0..(DayLength - 1) /\ to \in 0..(DayLength - 1)
      /\ DayLength \in Nat
  BY DayAssumption DEF TimeQuestions
<1>2. Num(m) # Undefined /\ Num(m)[2] = m
  BY DEF Num, Undefined
<1>3. MatchesTimeWindow(Num(m), {[from |-> from, to |-> to]}) <=>
        IF from <= to THEN m >= from /\ m <= to ELSE m >= from \/ m <= to
  BY <1>2 DEF MatchesTimeWindow
<1>4. /\ (m - from) % DayLength = (IF from <= m THEN m - from ELSE m - from + DayLength)
      /\ (to - from) % DayLength = (IF from <= to THEN to - from ELSE to - from + DayLength)
  BY <1>1, AroundMidnight
<1> SUFFICES MatchesTimeWindow(Num(m), {[from |-> from, to |-> to]}) <=>
               (m - from) % DayLength <= (to - from) % DayLength
  BY DEF WindowIsAnInterval
<1> HIDE DEF m, from, to
<1> QED BY <1>1, <1>3, <1>4

\* Whoever has roles may do what one of them lists.
LEMMA RolesAllow ==
  ASSUME NEW ctx, NEW id, NEW roles, NEW names, ctx.chain = << <<"user", id>> >>
  PROVE  EvaluatePolicies(ctx, CreateIdentityRolePolicies(id, roles, names, {ctx.type}), "deny", <<>>).allowed
           <=> \E role \in ResolveBuiltInRoles(roles) : \E p \in RolePattern(role, names) : ctx.action \in p.covers
<1> DEFINE policy(role) ==
             [id |-> <<"rbac", role>>, order |-> 0, scope |-> "user", scopeId |-> id, effect |-> "allow",
              actions |-> RolePattern(role, names), types |-> {ctx.type}, conditions |-> {},
              priority |-> 0, enabled |-> TRUE, inherit |-> TRUE, override |-> FALSE]
           ps == CreateIdentityRolePolicies(id, roles, names, {ctx.type})
           effective == Effective(ctx, ps, <<>>)
           lists(role) == \E p \in RolePattern(role, names) : ctx.action \in p.covers
           answer == EvaluatePolicies(ctx, ps, "deny", <<>>)
           denies == {p \in effective : p.effect = "deny"}
           allows == {p \in effective : p.effect = "allow"}
           reason(top, isDefault) == [top |-> top, usedDefault |-> isDefault, matched |-> effective]
<1>1. ps = {policy(role) : role \in ResolveBuiltInRoles(roles)}
  BY DEF CreateIdentityRolePolicies
<1>2. \A role : /\ policy(role).scope = "user" /\ policy(role).scopeId = id
                /\ policy(role).effect = "allow" /\ policy(role).actions = RolePattern(role, names)
                /\ policy(role).types = {ctx.type} /\ policy(role).conditions = {}
                /\ policy(role).enabled /\ policy(role).inherit /\ ~policy(role).override
  OBVIOUS
<1> HIDE DEF policy
<1>3. ASSUME NEW role PROVE Applies(policy(role), ctx, <<>>) <=> lists(role)
  <2>1. ConditionsMatch(policy(role).conditions, ctx)
    BY <1>2 DEF ConditionsMatch
  <2>2. Nodes(<<>>) = {}
    BY DEF Nodes, Range
  <2>3. MatchesActionPattern(ctx.action, policy(role).actions, <<>>) <=> lists(role)
    BY <1>2, <2>2 DEF MatchesActionPattern, ResolveTaxonomyActionMatches
  <2>4. \E i \in DOMAIN ctx.chain : ctx.chain[i] = <<policy(role).scope, policy(role).scopeId>>
    BY <1>2
  <2> QED BY <1>2, <2>1, <2>3, <2>4 DEF Applies, PolicyMatches, Inheritable
<1>4. effective = {p \in ps : Applies(p, ctx, <<>>)}
  <2>1. effective = {p \in ps : /\ Applies(p, ctx, <<>>)
                               /\ \A o \in ps : Applies(o, ctx, <<>>) /\ o.override =>
                                    GetScopePriority(p.scope) <= GetScopePriority(o.scope)}
    BY EffectiveIs
  <2>2. \A o \in ps : ~o.override
    BY <1>1, <1>2
  <2> QED BY <2>1, <2>2
<1>5. \A p \in effective : p.effect = "allow"
  BY <1>1, <1>2, <1>4
<1>6. answer = IF denies # {} THEN [allowed |-> FALSE, reason |-> reason(Top(denies).id, FALSE)]
               ELSE IF allows # {} THEN [allowed |-> TRUE, reason |-> reason(Top(allows).id, FALSE)]
               ELSE [allowed |-> "deny" = "allow", reason |-> reason(None, TRUE)]
  BY DEF EvaluatePolicies
<1>7. answer.allowed <=> effective # {}
  <2> HIDE DEF answer, effective, reason
  <2>1. denies = {} /\ allows = effective
    BY <1>5
  <2>2. CASE effective # {}
    BY <1>6, <2>1, <2>2
  <2>3. CASE effective = {}
    BY <1>6, <2>1, <2>3
  <2> QED BY <2>2, <2>3
<1>8. effective # {} <=> \E role \in ResolveBuiltInRoles(roles) : lists(role)
  <2> HIDE DEF effective, lists
  <2> QED BY <1>1, <1>3, <1>4
<1> QED BY <1>7, <1>8

\* RolesAreOrdered, for any contexts.
LEMMA RolesHold ==
  ASSUME asked \in RoleQuestions
  PROVE  RolesAreOrdered
<1> DEFINE id == asked.ctx.actor.id
           action == asked.ctx.action
           names == (UNION {RoleActions[r] : r \in DOMAIN RoleActions}) \cup {action}
           ctx == [asked.ctx EXCEPT !.chain = << <<"user", id>> >>]
           may(roles) == EvaluatePolicies(ctx, CreateIdentityRolePolicies(id, roles, names, {asked.ctx.type}),
                                          "deny", <<>>).allowed
           does(role) == \E p \in RolePattern(role, names) : action \in p.covers
           less == asked.roles \ {"guest", "viewer"}
<1>1. asked.ctx \in PolicyContexts
  BY DEF RoleQuestions
<1>2. ctx.chain = << <<"user", id>> >> /\ ctx.type = asked.ctx.type /\ ctx.action = action
  <2>1. asked.ctx = [actor |-> asked.ctx.actor, action |-> action, type |-> asked.ctx.type,
                     res |-> asked.ctx.res, chain |-> asked.ctx.chain, env |-> asked.ctx.env]
    BY <1>1, ContextAssumption
  <2>2. DOMAIN asked.ctx = {"actor", "action", "type", "res", "chain", "env"}
    BY <2>1
  <2> QED BY <2>2
<1>3. \A roles : may(roles) <=> \E role \in ResolveBuiltInRoles(roles) : does(role)
  <2> HIDE DEF ctx, id, names
  <2> QED BY <1>2, RolesAllow
<1>4. does("owner")
  <2>1. action \in names
    OBVIOUS
  <2> HIDE DEF names
  <2>2. RolePattern("owner", names) = {[covers |-> names, literal |-> None]}
    BY DEF RolePattern
  <2> DEFINE every == [covers |-> names, literal |-> None]
  <2>3. every \in RolePattern("owner", names) /\ action \in every.covers
    BY <2>1, <2>2
  <2> QED BY <2>3
<1>5. ASSUME NEW role \in {"viewer", "editor", "admin"} PROVE does(role) <=> action \in RoleActions[role]
  <2>1. role # "owner"
    OBVIOUS
  <2> HIDE DEF names
  <2>2. RolePattern(role, names) = {[covers |-> {a}, literal |-> a] : a \in RoleActions[role]}
    BY <2>1 DEF RolePattern
  <2>3. ASSUME NEW p \in RolePattern(role, names), action \in p.covers PROVE action \in RoleActions[role]
    BY <2>2, <2>3
  <2>4. ASSUME action \in RoleActions[role] PROVE \E p \in RolePattern(role, names) : action \in p.covers
    <3>1. [covers |-> {action}, literal |-> action] \in RolePattern(role, names)
      BY <2>2, <2>4
    <3> QED BY <3>1
  <2> QED BY <2>3, <2>4
<1>6. /\ RoleActions["viewer"] \subseteq RoleActions["admin"]
      /\ RoleActions["editor"] \subseteq RoleActions["admin"]
  BY DEF RoleActions
<1> HIDE DEF ctx, id, names, does, may
<1>7. does("viewer") \/ does("editor") => does("admin")
  BY <1>5, <1>6
<1>8. "owner" \in asked.roles => may(asked.roles)
  BY <1>3, <1>4 DEF ResolveBuiltInRoles
<1>9. may(asked.roles) => may(less \cup {"admin"}) \/ "owner" \in asked.roles
  BY <1>3, <1>7 DEF ResolveBuiltInRoles
<1>10. may(asked.roles) <=> may(asked.roles \ {"guest"})
  BY <1>3 DEF ResolveBuiltInRoles
<1>11. \A roles : may(roles) \in BOOLEAN
  <2> SUFFICES ASSUME NEW roles PROVE may(roles) \in BOOLEAN
    OBVIOUS
  <2> QED BY DEF may, EvaluatePolicies
<1>12. may(asked.roles) = may(asked.roles \ {"guest"})
  BY <1>10, <1>11
<1> QED BY <1>8, <1>9, <1>12 DEF RolesAreOrdered, may, ctx, id, names

\* GuardOpensOnlyKnowingly, for any rules.
LEMMA GuardHolds ==
  ASSUME asked \in GuardQuestions
  PROVE  GuardOpensOnlyKnowingly
<1> DEFINE type == asked.type
           target == asked.target
           relevant(rules) == {r \in rules : r.type = type}
           matched(rules) == {r \in relevant(rules) : target \in r.covers}
           unlocks(rules) == GuardEvaluate(rules, type, target).allowed
           ofType(rules) == {r \in rules : r.effect = "allow" /\ r.type = type}
<1>1. asked.rules \in SUBSET GuardRules
  BY DEF GuardQuestions
<1>2. \A rules : unlocks(rules) = (/\ \A r \in matched(rules) : r.effect # "deny"
                                   /\ matched(rules) # {} \/ \A r \in relevant(rules) : r.effect # "allow")
  <2> SUFFICES ASSUME NEW rules
               PROVE  unlocks(rules) = (/\ \A r \in matched(rules) : r.effect # "deny"
                                        /\ matched(rules) # {} \/ \A r \in relevant(rules) : r.effect # "allow")
    OBVIOUS
  <2>1. CASE \E r \in matched(rules) : r.effect = "deny"
    <3>1. unlocks(rules) = FALSE
      BY <2>1 DEF GuardEvaluate
    <3> QED BY <2>1, <3>1
  <2>2. CASE /\ \A r \in matched(rules) : r.effect # "deny"
             /\ matched(rules) # {} \/ \A r \in relevant(rules) : r.effect # "allow"
    <3>1. unlocks(rules) = TRUE
      BY <2>2 DEF GuardEvaluate
    <3> QED BY <2>2, <3>1
  <2>3. CASE /\ \A r \in matched(rules) : r.effect # "deny"
             /\ matched(rules) = {} /\ \E r \in relevant(rules) : r.effect = "allow"
    <3>1. unlocks(rules) = FALSE
      BY <2>3 DEF GuardEvaluate
    <3> QED BY <2>3, <3>1
  <2> QED BY <2>1, <2>2, <2>3
<1> SUFFICES ASSUME NEW r \in asked.rules
             PROVE  /\ ~unlocks(asked.rules) /\ unlocks(asked.rules \ {r}) =>
                         \/ r.effect = "deny" /\ target \in r.covers
                         \/ ofType(asked.rules) = {r}
                    /\ unlocks(asked.rules) /\ ~unlocks(asked.rules \ {r}) =>
                         r.effect = "allow" /\ target \in r.covers
  BY DEF GuardOpensOnlyKnowingly
<1>3. r.effect \in {"allow", "deny"}
  BY <1>1, GuardAssumption
<1> HIDE DEF unlocks, type, target
<1>4. ASSUME ~unlocks(asked.rules), unlocks(asked.rules \ {r}), ~(r.effect = "deny" /\ target \in r.covers)
      PROVE  ofType(asked.rules) = {r}
  <2>1. /\ \A q \in matched(asked.rules \ {r}) : q.effect # "deny"
        /\ matched(asked.rules \ {r}) # {} \/ \A q \in relevant(asked.rules \ {r}) : q.effect # "allow"
    BY <1>2, <1>4
  <2>2. \A q \in matched(asked.rules) : q.effect # "deny"
    BY <1>4, <2>1
  <2>3. matched(asked.rules) = {} /\ \E q \in relevant(asked.rules) : q.effect = "allow"
    BY <1>2, <1>4, <2>2
  <2> QED BY <2>1, <2>3
<1>5. ASSUME unlocks(asked.rules), ~unlocks(asked.rules \ {r})
      PROVE  r.effect = "allow" /\ target \in r.covers
  <2>1. /\ \A q \in matched(asked.rules) : q.effect # "deny"
        /\ matched(asked.rules) # {} \/ \A q \in relevant(asked.rules) : q.effect # "allow"
    BY <1>2, <1>5
  <2>2. matched(asked.rules \ {r}) = {} /\ \E q \in relevant(asked.rules \ {r}) : q.effect = "allow"
    BY <1>2, <1>5, <2>1
  <2>3. r \in matched(asked.rules)
    BY <2>1, <2>2
  <2> QED BY <1>3, <2>1, <2>3
<1> QED BY <1>4, <1>5

\* What may be asked.
DecisionsAsked == asked \in {NoQuestion} \cup PolicyQuestions \cup TaxonomyQuestions \cup TimeQuestions
                              \cup RoleQuestions \cup GuardQuestions \cup GlobQuestions

\* Every question that may be asked has its answer.
LEMMA DecisionsHold == ASSUME DecisionsAsked PROVE DecisionsSound
<1>1. CASE asked = NoQuestion
  BY <1>1 DEF DecisionsSound, AskedAbout, NoQuestion
<1>2. CASE asked \in TaxonomyQuestions \cup GlobQuestions
  <2>1. asked.about \in {"taxonomy", "glob"}
    BY <1>2 DEF TaxonomyQuestions, GlobQuestions
  <2> QED BY <2>1 DEF DecisionsSound, AskedAbout
<1>3. CASE asked \in PolicyQuestions
  <2>1. asked.about = "policy"
    BY <1>3 DEF PolicyQuestions
  <2> QED BY <1>3, <2>1, PushedOneWay, HigherDecides, ReplayFaithful DEF DecisionsSound, AskedAbout
<1>4. CASE asked \in TimeQuestions
  <2>1. asked.about = "time"
    BY <1>4 DEF TimeQuestions
  <2> QED BY <1>4, <2>1, WindowHolds DEF DecisionsSound, AskedAbout
<1>5. CASE asked \in RoleQuestions
  <2>1. asked.about = "roles"
    BY <1>5 DEF RoleQuestions
  <2> QED BY <1>5, <2>1, RolesHold DEF DecisionsSound, AskedAbout
<1>6. CASE asked \in GuardQuestions
  <2>1. asked.about = "guard"
    BY <1>6 DEF GuardQuestions
  <2> QED BY <1>6, <2>1, GuardHolds DEF DecisionsSound, AskedAbout
<1> QED BY <1>1, <1>2, <1>3, <1>4, <1>5, <1>6 DEF DecisionsAsked

\* What decides without a state.  Whichever policies, contexts and roles there
\* are: a denying policy only takes away and an allowing one only gives, a
\* higher scope decides unless a lower one says override, a decision that was
\* logged whole is decided alike again, no role has less than a lesser one, a
\* window is one interval, and a rule of a guard opens only what it says.
THEOREM DecisionsReach == QuestionInit /\ [][DecisionsNext]_asked => []DecisionsSound
<1>1. QuestionInit => DecisionsAsked
  BY DEF QuestionInit, DecisionsAsked
<1>2. DecisionsAsked /\ [DecisionsNext]_asked => DecisionsAsked'
  BY DEF DecisionsAsked, DecisionsNext, Ask
<1> QED BY <1>1, <1>2, DecisionsHold, PTL

-----------------------------------------------------------------------------
(* The audit trail.  What holds between and during scans.                  *)

IsApproval(e) == ApprovalStatus(e.kind) # "none"
IsDecision(e) == IsApproval(e) /\ ApprovalStatus(e.kind) # "pending"

(* The entries that the storage, or a scan, still knows of. *)
Known == atRows \cup (IF atScan = NoScan THEN {} ELSE atScan.present \cup EntriesOf(atScan.got))

(* Ids and times go together, and a decision ends the approval entries. *)
InStoringOrder ==
  /\ \A x \in Known : x.id < atNextId /\ x.at <= atNow
  /\ \A x, y \in Known : /\ x.id <= y.id => x.at <= y.at
                         /\ x.id = y.id => x = y
                         /\ IsDecision(x) /\ IsApproval(y) => y.id <= x.id
  /\ \A x \in Known : IsDecision(x) => atRequest = "decided"

BatchFits == /\ atNextId + Len(atBatch) <= MaxEntries + 1
             /\ atBatch # <<>> => Len(atBatch) = 1 /\ atBatch[1] \in EvaluationKinds

(* How far into the order the scan has read. *)
Reach == IF atScan.page = "count" THEN atScan.offset + PageSize ELSE atScan.offset

Matching == FilterEntries(atRows, atScan)

ScanWindow ==
  /\ atScan.since < atScan.to
  /\ atStorage = "memory" => atScan.page = "rows"
  /\ atScan.reader \in {"notify", "dashboard"} => atScan.past
  /\ atScan.reader = "notify" => atScan.since = atLastPoll /\ atScan.from <= atScan.since
  /\ atScan.reader = "dashboard" =>
       \A w \in LookBacks : AtLeastZero(atScan.to - w) >= atScan.from
  /\ atScan.past => atScan.to <= atNow /\ \A e \in Known : e.at < atScan.to => e \in atScan.present

(* What is archived was older than all that is left. *)
ArchivedIsOldest ==
  \A d \in atScan.present \ atRows : d.at < atNow /\ \A e \in atRows : d.at < e.at

(* The scan has read what precedes the place it is at, and what is newer than
   anything it has read. *)
ReadSoFar ==
  /\ \A e \in atScan.present \cap Matching : Place(e, Matching) <= Reach => e \in EntriesOf(atScan.got)
  /\ \A e \in EntriesOf(atScan.got), d \in atScan.present :
       Passes(d, atScan) /\ d.at > e.at => d \in EntriesOf(atScan.got)

(* In memory it has read nothing else, and what is past nothing twice. *)
ReadExactly ==
  atStorage = "memory" =>
    /\ \A e \in EntriesOf(atScan.got) : Passes(e, atScan)
    /\ atScan.past =>
         /\ EachOnce(atScan.got)
         /\ \A e \in EntriesOf(atScan.got) \cap atRows : Place(e, Matching) <= atScan.offset

ToldBefore == /\ atLastPoll <= atNow
              /\ \A n \in atNotified : n.entry.at < atLastPoll

ScanSound == /\ IsFiniteSet(atScan.present) /\ ScanWindow /\ ArchivedIsOldest
             /\ ReadSoFar /\ ReadExactly

AtInv == /\ AtTypeOK /\ IsFiniteSet(atRows) /\ InStoringOrder /\ BatchFits /\ ToldBefore
         /\ atScan # NoScan => ScanSound
         /\ AuditTrailSound

USE AtAssumption

\* What the provers need to know of an entry.
LEMMA EntryType ==
  ASSUME NEW e \in AtEntry
  PROVE  e.id \in Nat /\ e.id >= 1 /\ e.at \in Nat /\ e.kind \in Kinds /\ e.kind \in DOMAIN KindTable
  BY DEF AtEntry

LEMMA SetMembers ==
  ASSUME AtTypeOK, NEW e \in Known
  PROVE  e \in AtEntry
<1>1. CASE e \in atRows
  BY <1>1 DEF AtTypeOK
<1>2. CASE e \notin atRows
  <2>1. atScan \in AtScanning /\ (e \in atScan.present \/ e \in EntriesOf(atScan.got))
    BY <1>2 DEF AtTypeOK, Known
  <2>2. atScan.present \subseteq AtEntry /\ atScan.got \subseteq AtRead
    BY <2>1 DEF AtScanning
  <2> QED BY <2>1, <2>2 DEF EntriesOf, AtRead
<1> QED BY <1>1, <1>2

LEMMA ScanType ==
  ASSUME AtTypeOK, atScan # NoScan
  PROVE  /\ atScan \in AtScanning /\ atScan.reader \in Readers
         /\ atScan.since \in Nat /\ atScan.from \in Nat /\ atScan.to \in Nat /\ atScan.offset \in Nat
         /\ atScan.page \in {"rows", "count"} /\ atScan.got \subseteq AtRead
         /\ atScan.present \subseteq AtEntry /\ atScan.past \in BOOLEAN
         /\ EntriesOf(atScan.got) \subseteq AtEntry
<1>1. atScan \in AtScanning
  BY DEF AtTypeOK
<1>2. /\ atScan.reader \in Readers /\ atScan.page \in {"rows", "count"} /\ atScan.offset \in Nat
      /\ atScan.since \in 0..AtMaxTime /\ atScan.from \in 0..AtMaxTime
      /\ atScan.to \in 1..(AtMaxTime + 1) /\ atScan.got \subseteq AtRead
      /\ atScan.present \subseteq AtEntry /\ atScan.past \in BOOLEAN
  BY <1>1 DEF AtScanning
<1>3. EntriesOf(atScan.got) \subseteq AtEntry
  BY <1>2 DEF EntriesOf, AtRead
<1> QED BY <1>1, <1>2, <1>3

-----------------------------------------------------------------------------
(* Places.                                                                 *)

LEMMA PlaceType ==
  ASSUME NEW S, IsFiniteSet(S), NEW e
  PROVE  Place(e, S) \in Nat /\ Place(e, S) >= 1
<1>1. IsFiniteSet({d \in S : Before(d, e)})
  BY FS_Subset
<1> QED BY <1>1, FS_CardinalityType DEF Place

\* Whatever comes first has its place within the set.
LEMMA PlaceWithin ==
  ASSUME NEW S \in SUBSET AtEntry, IsFiniteSet(S), NEW e \in S
  PROVE  Place(e, S) <= Cardinality(S)
<1>1. IsFiniteSet(S \ {e}) /\ Cardinality(S \ {e}) = Cardinality(S) - 1
  BY FS_RemoveElement
<1>2. {d \in S : Before(d, e)} \subseteq S \ {e}
  BY EntryType DEF Before
<1>3. /\ IsFiniteSet({d \in S : Before(d, e)})
      /\ Cardinality({d \in S : Before(d, e)}) <= Cardinality(S \ {e})
  BY <1>1, <1>2, FS_Subset
<1>4. Cardinality(S) \in Nat /\ Cardinality({d \in S : Before(d, e)}) \in Nat
  BY <1>3, FS_CardinalityType
<1> QED BY <1>1, <1>3, <1>4 DEF Place

\* Entries that are added push others back, never forward.
LEMMA PlaceGrows ==
  ASSUME NEW S, NEW T, S \subseteq T, IsFiniteSet(T), NEW e
  PROVE  Place(e, S) <= Place(e, T)
<1>1. IsFiniteSet({d \in T : Before(d, e)})
  BY FS_Subset
<1>2. {d \in S : Before(d, e)} \subseteq {d \in T : Before(d, e)}
  OBVIOUS
<1>3. /\ IsFiniteSet({d \in S : Before(d, e)})
      /\ Cardinality({d \in S : Before(d, e)}) <= Cardinality({d \in T : Before(d, e)})
  BY <1>1, <1>2, FS_Subset
<1>4. /\ Cardinality({d \in S : Before(d, e)}) \in Nat
      /\ Cardinality({d \in T : Before(d, e)}) \in Nat
  BY <1>1, <1>3, FS_CardinalityType
<1> QED BY <1>3, <1>4 DEF Place

LEMMA PlaceBefore ==
  ASSUME NEW S \in SUBSET AtEntry, IsFiniteSet(S), NEW d \in S, NEW e \in AtEntry, Before(d, e)
  PROVE  Place(d, S) < Place(e, S)
<1> DEFINE D == {c \in S : Before(c, d)}
           E == {c \in S : Before(c, e)}
<1>1. IsFiniteSet(E) /\ d \in E
  BY FS_Subset
<1>2. IsFiniteSet(E \ {d}) /\ Cardinality(E \ {d}) = Cardinality(E) - 1
  BY <1>1, FS_RemoveElement
<1>3. D \subseteq E \ {d}
  <2> SUFFICES ASSUME NEW c \in S, Before(c, d) PROVE Before(c, e) /\ c # d
    OBVIOUS
  <2> QED BY EntryType DEF Before
<1>4. IsFiniteSet(D) /\ Cardinality(D) <= Cardinality(E \ {d})
  BY <1>2, <1>3, FS_Subset
<1>5. Cardinality(D) \in Nat /\ Cardinality(E) \in Nat
  BY <1>1, <1>4, FS_CardinalityType
<1>6. Place(d, S) = 1 + Cardinality(D) /\ Place(e, S) = 1 + Cardinality(E)
  BY DEF Place
<1> HIDE DEF D, E
<1> QED BY <1>2, <1>4, <1>5, <1>6

\* Archiving the oldest moves nothing.
LEMMA PlaceKept ==
  ASSUME NEW S \in SUBSET AtEntry, NEW t \in Nat, NEW e \in S, e.at >= t
  PROVE  Place(e, {d \in S : d.at >= t}) = Place(e, S)
<1>1. {c \in {d \in S : d.at >= t} : Before(c, e)} = {c \in S : Before(c, e)}
  BY EntryType DEF Before
<1> QED BY <1>1 DEF Place

\* What is on a page, or in reach of it.
LEMMA OnPage ==
  ASSUME NEW S, IsFiniteSet(S), NEW o \in Nat
  PROVE  /\ \A e : e \in EntriesOf(Page(S, o)) <=>
                     e \in S /\ o < Place(e, S) /\ Place(e, S) <= o + PageSize
         /\ \A r \in Page(S, o) : r.entry \in S /\ r.place = Place(r.entry, S)
         /\ \A r, s \in Page(S, o) : r.entry = s.entry => r = s
<1>1. \A e : Place(e, S) \in Nat
  BY PlaceType
<1>2. \A e : Place(e, S) \in (o + 1)..(o + PageSize) <=> o < Place(e, S) /\ Place(e, S) <= o + PageSize
  BY <1>1
<1> DEFINE Shown == {e \in S : Place(e, S) \in (o + 1)..(o + PageSize)}
<1>3. Page(S, o) = {[place |-> Place(e, S), entry |-> e] : e \in Shown}
  BY DEF Page
<1>4. \A e : e \in Shown <=> e \in S /\ o < Place(e, S) /\ Place(e, S) <= o + PageSize
  BY <1>2
<1> HIDE DEF Shown
<1>5. \A r \in Page(S, o) : r.entry \in Shown /\ r = [place |-> Place(r.entry, S), entry |-> r.entry]
  BY <1>3
<1>6. \A e : e \in EntriesOf(Page(S, o)) <=> e \in Shown
  <2>1. ASSUME NEW e \in Shown PROVE e \in EntriesOf(Page(S, o))
    <3>1. [place |-> Place(e, S), entry |-> e] \in Page(S, o)
      BY <1>3
    <3>2. [place |-> Place(e, S), entry |-> e].entry = e
      OBVIOUS
    <3> QED BY <3>1, <3>2 DEF EntriesOf
  <2> QED BY <1>5, <2>1 DEF EntriesOf
<1>7. \A r \in Page(S, o) : r.entry \in S /\ r.place = Place(r.entry, S)
  <2> SUFFICES ASSUME NEW r \in Page(S, o) PROVE r.entry \in S /\ r.place = Place(r.entry, S)
    OBVIOUS
  <2>1. PICK e \in Shown : r = [place |-> Place(e, S), entry |-> e]
    BY <1>3
  <2> QED BY <2>1, <1>4
<1>8. \A r, s \in Page(S, o) : r.entry = s.entry => r = s
  BY <1>5
<1> QED BY <1>4, <1>6, <1>7, <1>8

LEMMA EntriesOfUnion == \A R, S : EntriesOf(R \cup S) = EntriesOf(R) \cup EntriesOf(S)
  BY DEF EntriesOf

LEMMA EntriesOfReads == \A R, r : r \in R => r.entry \in EntriesOf(R)
  BY DEF EntriesOf

-----------------------------------------------------------------------------
(* Steps of the writers.                                                   *)

\* An answer is judged in the state it is given in.
LEMMA QuietlySound ==
  ASSUME Unanswered, NotifiedOnce'
  PROVE  AuditTrailSound'
<1>1. ~Answered'
  BY DEF Unanswered, Answered, NoScan
<1> QED BY <1>1 DEF AuditTrailSound, ScanMissesNothing, PastScanIsExact, SpikesAreReal,
                    OnlySameInstantMisleads

\* Entries that are forgotten disturb no order.
LEMMA OrderKept ==
  ASSUME AtTypeOK, InStoringOrder, Known' \subseteq Known, atNextId' = atNextId,
         atNow' \in Nat, atNow' >= atNow, atRequest' = atRequest
  PROVE  InStoringOrder'
<1>1. ASSUME NEW x \in Known' PROVE x.id < atNextId' /\ x.at <= atNow'
  <2>1. x \in Known /\ x \in AtEntry /\ atNow \in Nat
    BY SetMembers DEF AtTypeOK
  <2> QED BY <2>1, EntryType DEF InStoringOrder
<1> QED BY <1>1 DEF InStoringOrder, IsDecision, IsApproval

\* Entries are stored, while a scan may be between two of its pages.
LEMMA RowsAdded ==
  ASSUME AtInv, NEW N \in SUBSET AtEntry, IsFiniteSet(N),
         atRows' = atRows \cup N, AtTypeOK', BatchFits', Unanswered,
         UNCHANGED <<atStorage, atNow, atScan, atNotified, atLastPoll>>,
         \A n \in N : n.at = atNow /\ atNextId <= n.id /\ n.id < atNextId',
         \A m, n \in N : m.id = n.id => m = n,
         \A n \in N : IsApproval(n) => atRequest # "decided" /\ N = {n},
         \A n \in N : IsDecision(n) => atRequest' = "decided",
         atRequest = "decided" => atRequest' = "decided",
         atNextId' >= atNextId
  PROVE  AtInv'
<1>1. Known' = Known \cup N
  BY DEF Known
<1>2. \A e \in Known : e.id < atNextId /\ e \notin N /\ e.id \in Nat /\ e.at \in Nat /\ e.at <= atNow
  BY SetMembers, EntryType DEF AtInv, InStoringOrder, AtTypeOK
<1>3. /\ \A n \in N : n.id \in Nat /\ n.at \in Nat
      /\ atNow \in Nat /\ atNextId \in Nat /\ atNextId' \in Nat
  BY EntryType DEF AtInv, AtTypeOK
<1>4. InStoringOrder'
  <2>1. ASSUME NEW x \in Known \cup N PROVE x.id < atNextId' /\ x.at <= atNow'
    BY <1>2, <1>3
  <2>2. ASSUME NEW x \in Known \cup N, NEW y \in Known \cup N
        PROVE  /\ x.id <= y.id => x.at <= y.at
               /\ x.id = y.id => x = y
    <3>1. CASE x \in Known /\ y \in Known
      BY <3>1 DEF AtInv, InStoringOrder
    <3>2. CASE x \in Known /\ y \in N
      BY <3>2, <1>2, <1>3
    <3>3. CASE x \in N /\ y \in Known
      BY <3>3, <1>2, <1>3
    <3>4. CASE x \in N /\ y \in N
      BY <3>4, <1>3
    <3> QED BY <3>1, <3>2, <3>3, <3>4
  <2>3. ASSUME NEW x \in Known \cup N, NEW y \in Known \cup N, IsDecision(x), IsApproval(y)
        PROVE  y.id <= x.id
    <3>1. CASE x \in Known /\ y \in Known
      BY <2>3, <3>1 DEF AtInv, InStoringOrder
    <3>2. CASE x \in Known /\ y \in N
      BY <2>3, <3>2 DEF AtInv, InStoringOrder
    <3>3. CASE x \in N /\ y \in Known
      BY <3>3, <1>2, <1>3
    <3>4. CASE x \in N /\ y \in N
      BY <2>3, <3>4, <1>3
    <3> QED BY <3>1, <3>2, <3>3, <3>4
  <2>4. ASSUME NEW x \in Known \cup N, IsDecision(x) PROVE atRequest' = "decided"
    BY <2>4 DEF AtInv, InStoringOrder
  <2> QED BY <1>1, <2>1, <2>2, <2>3, <2>4 DEF InStoringOrder, IsDecision, IsApproval
<1>5. IsFiniteSet(atRows')
  BY FS_Union DEF AtInv
<1>6. ToldBefore'
  BY DEF AtInv, ToldBefore
<1>7. AuditTrailSound'
  <2>1. atLastPoll <= atNow /\ atLastPoll \in Nat
    BY DEF AtInv, ToldBefore, AtTypeOK
  <2>2. \A n \in N : ~(n.at < atLastPoll)
    BY <1>3, <2>1
  <2>3. NotifiedOnce'
    BY <2>2 DEF AtInv, AuditTrailSound, NotifiedOnce, EachOnce, EntriesOf, IsNotified
  <2> QED BY <2>3, QuietlySound
<1>8. ASSUME atScan' # NoScan PROVE ScanSound'
  <2>1. ScanSound /\ atScan # NoScan /\ AtTypeOK
    BY <1>8 DEF AtInv
  <2>2. /\ atScan.present \subseteq Known /\ EntriesOf(atScan.got) \subseteq Known /\ atRows \subseteq Known
    BY <2>1 DEF Known
  <2>3. IsFiniteSet(atScan'.present)
    BY <2>1 DEF ScanSound
  <2>4. atScan.to \in Nat /\ (atScan.past => \A n \in N : ~(n.at < atScan.to))
    BY <2>1, <1>3, ScanType DEF ScanSound, ScanWindow
  <2>5. ScanWindow'
    BY <2>1, <2>4, <1>1 DEF ScanSound, ScanWindow, AtLeastZero
  <2>6. ArchivedIsOldest'
    BY <2>1, <1>3 DEF ScanSound, ArchivedIsOldest
  <2>7. /\ IsFiniteSet(Matching) /\ IsFiniteSet(Matching') /\ Matching \subseteq Matching'
        /\ Matching' \cap Known \subseteq Matching
        /\ \A d : Passes(d, atScan)' <=> Passes(d, atScan)
    <3>1. IsFiniteSet(Matching) /\ IsFiniteSet(Matching')
      BY <1>5, FS_Subset DEF AtInv, Matching, FilterEntries
    <3>2. \A d : Passes(d, atScan)' <=> Passes(d, atScan)
      BY DEF Passes
    <3>3. Matching \subseteq Matching'
      BY <3>2 DEF Matching, FilterEntries
    <3>4. Matching' \cap Known \subseteq Matching
      BY <3>2, <1>2 DEF Matching, FilterEntries
    <3> QED BY <3>1, <3>2, <3>3, <3>4
  <2>8. Reach' = Reach
    BY DEF Reach
  <2>9. Reach \in Nat /\ atScan.offset \in Nat
    BY <2>1, ScanType DEF Reach
  <2>10. \A e : Place(e, Matching) <= Place(e, Matching') /\ Place(e, Matching) \in Nat
                /\ Place(e, Matching') \in Nat
    BY <2>7, PlaceGrows, PlaceType
  <2>11. ReadSoFar'
    <3>1. ASSUME NEW e \in atScan.present \cap Matching', Place(e, Matching') <= Reach
          PROVE  e \in EntriesOf(atScan.got)
      <4>1. e \in Matching
        BY <2>2, <2>7
      <4>2. Place(e, Matching) <= Reach
        BY <3>1, <2>9, <2>10
      <4> QED BY <4>1, <4>2, <2>1 DEF ScanSound, ReadSoFar
    <3>2. ASSUME NEW e \in EntriesOf(atScan.got), NEW d \in atScan.present, Passes(d, atScan), d.at > e.at
          PROVE  d \in EntriesOf(atScan.got)
      BY <3>2, <2>1 DEF ScanSound, ReadSoFar
    <3>3. EntriesOf(atScan.got)' = EntriesOf(atScan.got)
      BY DEF EntriesOf
    <3>4. /\ \A e \in atScan'.present \cap Matching' :
                 Place(e, Matching') <= Reach' => e \in EntriesOf(atScan'.got)
          /\ \A e \in EntriesOf(atScan'.got), d \in atScan'.present :
                 Passes(d, atScan)' /\ d.at > e.at => d \in EntriesOf(atScan'.got)
      BY <3>1, <3>2, <2>7, <2>8
    <3> QED BY <3>4 DEF ReadSoFar, Place, Before, EntriesOf
  <2>12. ReadExactly'
    <3>1. SUFFICES ASSUME atStorage = "memory" PROVE ReadExactly'
      BY DEF ReadExactly
    <3>2. ASSUME atScan.past PROVE Matching' = Matching
      <4>1. \A n \in N : ~Passes(n, atScan)
        BY <3>1, <3>2, <2>4 DEF Passes, During
      <4> QED BY <4>1, <2>7 DEF Matching, FilterEntries
    <3>3. ASSUME atScan.past, NEW e \in EntriesOf(atScan.got) \cap atRows'
          PROVE  Place(e, Matching') <= atScan.offset
      <4>1. e \in atRows
        BY <1>2, <2>2
      <4>2. Place(e, Matching) <= atScan.offset
        BY <3>1, <3>3, <4>1, <2>1 DEF ScanSound, ReadExactly
      <4>3. Matching' = Matching
        BY <3>2, <3>3
      <4> QED BY <4>2, <4>3
    <3>4. \A e \in EntriesOf(atScan.got) : Passes(e, atScan)'
      BY <3>1, <2>1, <2>7 DEF ScanSound, ReadExactly
    <3>5. atScan.past => EachOnce(atScan.got)
      BY <3>1, <2>1 DEF ScanSound, ReadExactly
    <3> QED BY <3>3, <3>4, <3>5 DEF ReadExactly, EachOnce, Place, Before, EntriesOf
  <2> QED BY <2>3, <2>5, <2>6, <2>11, <2>12 DEF ScanSound
<1> QED BY <1>4, <1>5, <1>6, <1>7, <1>8 DEF AtInv

LEMMA AtInitInv == AtInit => AtInv
<1> SUFFICES ASSUME AtInit PROVE AtInv
  OBVIOUS
<1>1. AtTypeOK
  BY DEF AtInit, AtTypeOK
<1>2. IsFiniteSet(atRows)
  BY FS_EmptySet DEF AtInit
<1>3. InStoringOrder /\ ToldBefore /\ BatchFits
  BY DEF AtInit, InStoringOrder, ToldBefore, BatchFits, Known
<1>4. AuditTrailSound
  BY DEF AtInit, AuditTrailSound, ScanMissesNothing, PastScanIsExact, SpikesAreReal,
         OnlySameInstantMisleads, NotifiedOnce, Answered, NoScan, EachOnce, EntriesOf
<1> QED BY <1>1, <1>2, <1>3, <1>4 DEF AtInv, AtInit

LEMMA AppendEntryInv ==
  ASSUME AtInv, NEW kind \in Kinds, AppendEntry(kind)
  PROVE  AtInv'
<1> DEFINE n == Stored(atNextId, kind)
<1>1. /\ atNextId \in Nat /\ atNextId >= 1 /\ atNow \in 0..AtMaxTime /\ atBatch \in Seq(Kinds)
      /\ Len(atBatch) \in Nat /\ atNextId + Len(atBatch) + 1 <= MaxEntries + 1
  BY DEF AtInv, AtTypeOK, AppendEntry, HasRoom
<1>2. n \in AtEntry /\ n.at = atNow /\ n.id = atNextId /\ n.kind = kind
  BY <1>1 DEF AtEntry, Stored
<1>3. AtTypeOK'
  BY <1>1, <1>2 DEF AtInv, AtTypeOK, AppendEntry, RequestAfter
<1>4. BatchFits'
  BY <1>1 DEF AtInv, BatchFits, AppendEntry
<1>5. /\ IsApproval(n) => atRequest # "decided"
      /\ IsDecision(n) => atRequest' = "decided"
      /\ atRequest = "decided" => atRequest' = "decided"
  BY <1>2 DEF AppendEntry, RequestAfter, IsApproval, IsDecision, ApprovalStatus
<1>6. IsFiniteSet({n})
  BY FS_Singleton
<1>7. /\ atRows' = atRows \cup {n} /\ Unanswered /\ atNextId' = atNextId + 1
      /\ UNCHANGED <<atStorage, atNow, atScan, atNotified, atLastPoll>>
  BY DEF AppendEntry
<1> HIDE DEF n
<1> QED BY <1>1, <1>2, <1>3, <1>4, <1>5, <1>6, <1>7, RowsAdded

\* What evaluations append is no part of a request for approval.
LEMMA EvaluationsInv ==
  ASSUME AtInv, NEW N \in SUBSET AtEntry, IsFiniteSet(N),
         atRows' = atRows \cup N, AtTypeOK', BatchFits', Unanswered, atNextId' >= atNextId,
         UNCHANGED <<atStorage, atNow, atScan, atNotified, atLastPoll, atRequest>>,
         \A n \in N : /\ n.at = atNow /\ atNextId <= n.id /\ n.id < atNextId'
                      /\ n.kind \in EvaluationKinds,
         \A m, n \in N : m.id = n.id => m = n
  PROVE  AtInv'
<1>1. \A n \in N : ~IsApproval(n) /\ ~IsDecision(n)
  BY DEF IsApproval, IsDecision, ApprovalStatus, EvaluationKinds
<1> QED BY <1>1, RowsAdded

LEMMA AppendBatchInv ==
  ASSUME AtInv, NEW first \in Kinds, NEW second \in Kinds, AppendBatch(first, second)
  PROVE  AtInv'
<1> DEFINE m == Stored(atNextId, first)
           n == Stored(atNextId + 1, second)
<1>1. /\ atNextId \in Nat /\ atNextId >= 1 /\ atNow \in 0..AtMaxTime
      /\ atBatch = <<>> /\ atNextId + 2 <= MaxEntries + 1
      /\ first \in EvaluationKinds /\ second \in EvaluationKinds
  BY DEF AtInv, AtTypeOK, AppendBatch, HasRoom
<1>2. /\ m \in AtEntry /\ m.at = atNow /\ m.id = atNextId /\ m.kind = first
      /\ n \in AtEntry /\ n.at = atNow /\ n.id = atNextId + 1 /\ n.kind = second
  BY <1>1 DEF AtEntry, Stored
<1>3. UNCHANGED <<atStorage, atNow, atScan, atNotified, atLastPoll, atRequest>> /\ Unanswered
  BY DEF AppendBatch
<1>4. IsFiniteSet({m}) /\ IsFiniteSet({m, n})
  <2> HIDE DEF m, n
  <2>1. IsFiniteSet({m}) /\ IsFiniteSet({n})
    BY FS_Singleton
  <2>2. {m, n} = {m} \cup {n}
    OBVIOUS
  <2>3. IsFiniteSet({m} \cup {n})
    BY <2>1, FS_Union
  <2> QED BY <2>1, <2>2, <2>3
<1>5. CASE atStorage = "sql"
  <2>1. atRows' = atRows \cup {m, n} /\ atNextId' = atNextId + 2 /\ atBatch' = <<>>
    BY <1>1, <1>5 DEF AppendBatch
  <2>2. AtTypeOK' /\ BatchFits'
    BY <1>1, <1>2, <1>3, <2>1 DEF AtInv, AtTypeOK, BatchFits
  <2> HIDE DEF m, n
  <2> QED BY <1>1, <1>2, <1>3, <1>4, <2>1, <2>2, EvaluationsInv
<1>6. CASE atStorage # "sql"
  <2>1. atRows' = atRows \cup {m} /\ atNextId' = atNextId + 1 /\ atBatch' = <<second>>
    BY <1>6 DEF AppendBatch
  <2>2. AtTypeOK' /\ BatchFits'
    BY <1>1, <1>2, <1>3, <2>1 DEF AtInv, AtTypeOK, BatchFits
  <2> HIDE DEF m, n
  <2> QED BY <1>1, <1>2, <1>3, <1>4, <2>1, <2>2, EvaluationsInv
<1> QED BY <1>5, <1>6

LEMMA AppendBatchRestInv ==
  ASSUME AtInv, AppendBatchRest
  PROVE  AtInv'
<1> DEFINE n == Stored(atNextId, Head(atBatch))
<1>1. /\ atNextId \in Nat /\ atNextId >= 1 /\ atNow \in 0..AtMaxTime /\ atBatch \in Seq(Kinds)
      /\ Len(atBatch) = 1 /\ atBatch[1] \in EvaluationKinds /\ atNextId + 1 <= MaxEntries + 1
  BY DEF AtInv, AtTypeOK, AppendBatchRest, BatchFits
<1>2. Head(atBatch) = atBatch[1] /\ Head(atBatch) \in Kinds /\ Tail(atBatch) = <<>>
  <2>1. atBatch # <<>>
    BY DEF AppendBatchRest
  <2>2. Tail(atBatch) \in Seq(Kinds) /\ Len(Tail(atBatch)) = 0
    BY <1>1, <2>1
  <2>3. \A s \in Seq(Kinds) : s # <<>> => Len(s) \in Nat \ {0}
    BY EmptySeq
  <2>4. Tail(atBatch) = <<>>
    BY <2>2, <2>3
  <2>5. Head(atBatch) = atBatch[1] /\ atBatch[1] \in Kinds
    BY <1>1, <2>1
  <2> QED BY <2>4, <2>5
<1>3. n \in AtEntry /\ n.at = atNow /\ n.id = atNextId /\ n.kind \in EvaluationKinds
  BY <1>1, <1>2 DEF AtEntry, Stored
<1>4. /\ UNCHANGED <<atStorage, atNow, atScan, atNotified, atLastPoll, atRequest>> /\ Unanswered
      /\ atRows' = atRows \cup {n} /\ atNextId' = atNextId + 1 /\ atBatch' = <<>>
  BY <1>2 DEF AppendBatchRest
<1>5. AtTypeOK' /\ BatchFits'
  BY <1>1, <1>3, <1>4 DEF AtInv, AtTypeOK, BatchFits
<1>6. IsFiniteSet({n})
  BY FS_Singleton
<1> HIDE DEF n
<1> QED BY <1>1, <1>3, <1>4, <1>5, <1>6, EvaluationsInv

LEMMA ArchiveInv ==
  ASSUME AtInv, NEW t \in 1..AtMaxTime, Archive(t)
  PROVE  AtInv'
<1>1. /\ atRows' = {e \in atRows : e.at >= t} /\ t <= atNow /\ t \in Nat /\ atNow \in Nat
      /\ UNCHANGED <<atStorage, atNextId, atNow, atBatch, atScan, atNotified, atLastPoll, atRequest>>
      /\ Unanswered
  BY DEF Archive, AtInv, AtTypeOK
<1>2. AtTypeOK'
  BY <1>1 DEF AtInv, AtTypeOK
<1>3. IsFiniteSet(atRows')
  BY <1>1, FS_Subset DEF AtInv
<1>4. Known' \subseteq Known
  BY <1>1 DEF Known
<1>5. InStoringOrder'
  BY <1>1, <1>4, OrderKept DEF AtInv
<1>6. ToldBefore' /\ BatchFits'
  BY <1>1 DEF AtInv, ToldBefore, BatchFits
<1>7. AuditTrailSound'
  <2>1. NotifiedOnce'
    BY <1>1 DEF AtInv, AuditTrailSound, NotifiedOnce, EachOnce, EntriesOf, IsNotified
  <2> QED BY <1>1, <2>1, QuietlySound
<1>8. ASSUME atScan' # NoScan PROVE ScanSound'
  <2>1. ScanSound /\ atScan # NoScan /\ AtTypeOK
    BY <1>1, <1>8 DEF AtInv
  <2>2. atScan.present \subseteq AtEntry /\ atRows \subseteq AtEntry
    BY <2>1, ScanType DEF AtTypeOK
  <2>3. ScanWindow'
    BY <1>1, <1>4, <2>1 DEF ScanSound, ScanWindow, AtLeastZero
  <2>4. ArchivedIsOldest'
    <3>1. ASSUME NEW d \in atScan.present, d \notin atRows'
          PROVE  d.at < atNow /\ \A e \in atRows' : d.at < e.at
      <4>1. CASE d \in atRows
        BY <3>1, <4>1, <1>1, <2>2, EntryType
      <4>2. CASE d \notin atRows
        BY <4>2, <1>1, <2>1 DEF ScanSound, ArchivedIsOldest
      <4> QED BY <4>1, <4>2
    <3> QED BY <3>1, <1>1 DEF ArchivedIsOldest
  <2>5. \A d : Passes(d, atScan)' <=> Passes(d, atScan)
    BY <1>1 DEF Passes
  <2>6. Matching' = {d \in Matching : d.at >= t} /\ Matching \in SUBSET AtEntry
    BY <1>1, <2>2, <2>5 DEF Matching, FilterEntries
  <2>7. \A e \in Matching' : e \in Matching /\ Place(e, Matching') = Place(e, Matching)
    BY <1>1, <2>6, PlaceKept
  <2>8. ReadSoFar'
    <3>1. /\ \A e \in atScan'.present \cap Matching' :
                 Place(e, Matching') <= Reach' => e \in EntriesOf(atScan'.got)
          /\ \A e \in EntriesOf(atScan'.got), d \in atScan'.present :
                 Passes(d, atScan)' /\ d.at > e.at => d \in EntriesOf(atScan'.got)
      BY <1>1, <2>1, <2>5, <2>7 DEF ScanSound, ReadSoFar, Reach
    <3> QED BY <3>1 DEF ReadSoFar, Place, Before, EntriesOf
  <2>9. ReadExactly'
    <3>1. SUFFICES ASSUME atStorage = "memory" PROVE ReadExactly'
      BY <1>1 DEF ReadExactly
    <3>2. ASSUME atScan.past, NEW e \in EntriesOf(atScan.got) \cap atRows'
          PROVE  Place(e, Matching') <= atScan.offset
      <4>1. e \in atRows /\ Passes(e, atScan) /\ Place(e, Matching) <= atScan.offset
        BY <3>1, <3>2, <1>1, <2>1 DEF ScanSound, ReadExactly
      <4>2. e \in Matching'
        BY <4>1, <3>2, <1>1, <2>6 DEF Matching, FilterEntries
      <4> QED BY <4>1, <4>2, <2>7
    <3>3. \A e \in EntriesOf(atScan.got) : Passes(e, atScan)'
      BY <3>1, <2>1, <2>5 DEF ScanSound, ReadExactly
    <3>4. atScan.past => EachOnce(atScan.got)
      BY <3>1, <2>1 DEF ScanSound, ReadExactly
    <3> QED BY <1>1, <3>2, <3>3, <3>4 DEF ReadExactly, EachOnce, Place, Before, EntriesOf
  <2>10. IsFiniteSet(atScan'.present)
    BY <1>1, <2>1 DEF ScanSound
  <2> QED BY <2>3, <2>4, <2>8, <2>9, <2>10 DEF ScanSound
<1> QED BY <1>2, <1>3, <1>5, <1>6, <1>7, <1>8 DEF AtInv

LEMMA AtTickInv ==
  ASSUME AtInv, AtTick
  PROVE  AtInv'
<1>1. /\ atNow \in Nat /\ atNow' = atNow + 1 /\ atNow' \in 0..AtMaxTime
      /\ UNCHANGED <<atStorage, atRows, atNextId, atBatch, atScan, atNotified, atLastPoll, atRequest>>
      /\ Unanswered
  BY DEF AtTick, AtInv, AtTypeOK
<1>2. AtTypeOK'
  BY <1>1 DEF AtInv, AtTypeOK
<1>3. Known' = Known
  BY <1>1 DEF Known
<1>4. InStoringOrder'
  BY <1>1, <1>3, OrderKept DEF AtInv
<1>5. ToldBefore' /\ BatchFits' /\ IsFiniteSet(atRows')
  BY <1>1 DEF AtInv, ToldBefore, BatchFits, AtTypeOK
<1>6. AuditTrailSound'
  <2>1. NotifiedOnce'
    BY <1>1 DEF AtInv, AuditTrailSound, NotifiedOnce, EachOnce, EntriesOf, IsNotified
  <2> QED BY <1>1, <2>1, QuietlySound
<1>7. ASSUME atScan' # NoScan PROVE ScanSound'
  <2>1. ScanSound /\ atScan # NoScan /\ AtTypeOK
    BY <1>1, <1>7 DEF AtInv
  <2>2. /\ atScan.present \subseteq AtEntry /\ atRows \subseteq AtEntry /\ atScan.to \in Nat
    BY <2>1, ScanType DEF AtTypeOK
  <2>3. ScanWindow'
    BY <1>1, <1>3, <2>1, <2>2 DEF ScanSound, ScanWindow, AtLeastZero
  <2>4. ArchivedIsOldest'
    BY <1>1, <2>1, <2>2, EntryType DEF ScanSound, ArchivedIsOldest
  <2>5. ReadSoFar' /\ ReadExactly'
    BY <1>1, <2>1 DEF ScanSound, ReadSoFar, ReadExactly, Matching, FilterEntries, Passes, Reach, Place,
                      Before, EachOnce, EntriesOf
  <2> QED BY <1>1, <2>1, <2>3, <2>4, <2>5 DEF ScanSound
<1> QED BY <1>2, <1>4, <1>5, <1>6, <1>7 DEF AtInv

-----------------------------------------------------------------------------
(* Steps of a scan.                                                        *)

LEMMA LargestWindow == MaxWindow \in LookBacks /\ \A v \in LookBacks : v <= MaxWindow
  BY DEF MaxWindow

LEMMA StartScanInv ==
  ASSUME AtInv, NEW r \in Readers, NEW from \in 0..AtMaxTime, NEW to \in 1..(AtMaxTime + 1),
         StartScan(r, from, to)
  PROVE  AtInv'
<1> DEFINE start == IF r = "notify" /\ to - MaxWindow < from THEN AtLeastZero(to - MaxWindow) ELSE from
           scan == [reader |-> r, since |-> from, to |-> to, from |-> start,
                    offset |-> 0, got |-> {}, page |-> "rows",
                    present |-> atRows, past |-> to <= atNow]
<1>1. /\ atScan' = scan /\ from < to /\ Unanswered
      /\ r \in {"notify", "dashboard"} => to = atNow
      /\ r = "dashboard" => from = AtLeastZero(to - MaxWindow)
      /\ r = "notify" => from = atLastPoll
      /\ UNCHANGED <<atStorage, atRows, atNextId, atNow, atBatch, atNotified, atLastPoll, atRequest>>
  BY DEF StartScan
<1>2. AtTypeOK /\ atNow \in Nat /\ AtMaxTime \in Nat
  BY DEF AtInv, AtTypeOK
<1>3. start \in 0..AtMaxTime /\ start <= from /\ MaxWindow \in Nat
  BY LargestWindow DEF AtLeastZero
<1>4. /\ scan.reader = r /\ scan.since = from /\ scan.to = to /\ scan.from = start /\ scan.offset = 0
      /\ scan.got = {} /\ scan.page = "rows" /\ scan.present = atRows /\ scan.past = (to <= atNow)
  OBVIOUS
<1>5. scan \in AtScanning
  BY <1>2, <1>3 DEF AtScanning, AtTypeOK
<1>6. r = "dashboard" => start = AtLeastZero(to - MaxWindow)
  BY <1>1
<1> HIDE DEF scan, start
<1>7. AtTypeOK'
  BY <1>1, <1>2, <1>5 DEF AtTypeOK
<1>8. EntriesOf(scan.got) = {}
  BY <1>4 DEF EntriesOf
<1>9. Known' = atRows /\ atRows \subseteq Known
  BY <1>1, <1>4, <1>8 DEF Known, EntriesOf
<1>10. InStoringOrder'
  BY <1>1, <1>2, <1>9, OrderKept DEF AtInv
<1>11. ToldBefore' /\ BatchFits' /\ IsFiniteSet(atRows')
  BY <1>1 DEF AtInv, ToldBefore, BatchFits
<1>12. AuditTrailSound'
  <2>1. NotifiedOnce'
    BY <1>1 DEF AtInv, AuditTrailSound, NotifiedOnce, EachOnce, EntriesOf, IsNotified
  <2> QED BY <1>1, <2>1, QuietlySound
<1>13. ScanSound'
  <2>1. ScanWindow'
    <3>1. ASSUME r = "dashboard", NEW w \in LookBacks PROVE AtLeastZero(to - w) >= start
      <4>1. w \in Nat /\ w <= MaxWindow /\ MaxWindow \in Nat /\ to \in Nat
        BY LargestWindow
      <4> QED BY <3>1, <4>1, <1>6 DEF AtLeastZero
    <3>2. scan.past <=> to <= atNow
      BY <1>4
    <3>3. scan.reader \in {"notify", "dashboard"} => scan.past
      BY <1>1, <1>2, <1>4, <3>2
    <3>4. scan.reader = "notify" => scan.since = atLastPoll /\ scan.from <= scan.since
      BY <1>1, <1>3, <1>4
    <3>5. scan.past => scan.to <= atNow /\ \A e \in atRows : e.at < scan.to => e \in scan.present
      BY <1>4, <3>2
    <3>6. scan.since < scan.to
      BY <1>1, <1>4
    <3>7. scan.reader = "dashboard" => \A w \in LookBacks : AtLeastZero(scan.to - w) >= scan.from
      BY <1>4, <3>1
    <3> QED BY <1>1, <1>4, <1>9, <3>3, <3>4, <3>5, <3>6, <3>7 DEF ScanWindow, AtLeastZero
  <2>2. ArchivedIsOldest'
    BY <1>1, <1>4 DEF ArchivedIsOldest
  <2>3. ReadSoFar'
    <3>1. IsFiniteSet(Matching')
      BY <1>1, FS_Subset DEF AtInv, Matching, FilterEntries
    <3>2. \A e : Place(e, Matching') \in Nat /\ Place(e, Matching') >= 1
      BY <3>1, PlaceType
    <3>3. \A e : ~(Place(e, Matching') <= Reach')
      BY <1>1, <1>4, <3>2 DEF Reach
    <3> QED BY <1>1, <1>4, <3>3 DEF ReadSoFar, EntriesOf, Place, Before
  <2>4. ReadExactly'
    BY <1>1, <1>4 DEF ReadExactly, EntriesOf, EachOnce
  <2>5. IsFiniteSet(atScan'.present)
    BY <1>1, <1>4 DEF AtInv
  <2> QED BY <2>1, <2>2, <2>3, <2>4, <2>5 DEF ScanSound
<1> QED BY <1>7, <1>10, <1>11, <1>12, <1>13 DEF AtInv

\* What the scan has read when it has the page at its offset.
HasRead(got) ==
  /\ got \subseteq AtRead
  /\ EntriesOf(got) \subseteq EntriesOf(atScan.got) \cup atRows
  /\ \A e \in atScan.present \cap Matching :
       Place(e, Matching) <= atScan.offset + PageSize => e \in EntriesOf(got)
  /\ \A e \in EntriesOf(got), d \in atScan.present :
       Passes(d, atScan) /\ d.at > e.at => d \in EntriesOf(got)
  /\ atStorage = "memory" =>
       /\ \A e \in EntriesOf(got) : Passes(e, atScan)
       /\ atScan.past =>
            /\ EachOnce(got)
            /\ \A e \in EntriesOf(got) \cap atRows : Place(e, Matching) <= atScan.offset + PageSize

LEMMA PageIsRead ==
  ASSUME AtInv, atScan # NoScan, atScan.page = "rows"
  PROVE  HasRead(atScan.got \cup Page(Matching, atScan.offset))
<1> DEFINE page == Page(Matching, atScan.offset)
           got == atScan.got \cup page
<1>1. /\ AtTypeOK /\ ScanSound /\ atRows \subseteq AtEntry /\ IsFiniteSet(atRows)
      /\ atScan.offset \in Nat /\ atScan.got \subseteq AtRead /\ PageSize \in Nat
      /\ atScan.present \subseteq AtEntry
  BY ScanType DEF AtInv, AtTypeOK
<1>2. /\ Matching \in SUBSET AtEntry /\ IsFiniteSet(Matching)
      /\ \A e : e \in Matching <=> e \in atRows /\ Passes(e, atScan)
  BY <1>1, FS_Subset DEF Matching, FilterEntries
<1>3. \A e : Place(e, Matching) \in Nat /\ Place(e, Matching) >= 1
  BY <1>2, PlaceType
<1>4. /\ \A e : e \in EntriesOf(page) <=>
                  /\ e \in Matching /\ atScan.offset < Place(e, Matching)
                  /\ Place(e, Matching) <= atScan.offset + PageSize
      /\ \A r \in page : r.entry \in Matching /\ r.place = Place(r.entry, Matching)
      /\ \A r, s \in page : r.entry = s.entry => r = s
  BY <1>1, <1>2, OnPage
<1>5. page \subseteq AtRead
  BY <1>2, <1>3 DEF Page, AtRead
<1>7. EntriesOf(got) = EntriesOf(atScan.got) \cup EntriesOf(page)
  BY EntriesOfUnion
<1>8. EntriesOf(page) \subseteq Matching /\ Matching \subseteq atRows
  BY <1>2, <1>4
<1> HIDE DEF page
<1>9. got \subseteq AtRead
  BY <1>1, <1>5
<1>10. ASSUME NEW e \in atScan.present \cap Matching, Place(e, Matching) <= atScan.offset + PageSize
       PROVE  e \in EntriesOf(got)
  <2>1. CASE Place(e, Matching) <= atScan.offset
    BY <1>1, <1>7, <2>1 DEF ScanSound, ReadSoFar, Reach
  <2>2. CASE atScan.offset < Place(e, Matching)
    BY <1>4, <1>7, <1>10, <2>2
  <2> QED BY <1>1, <1>3, <2>1, <2>2
<1>11. ASSUME NEW e \in EntriesOf(got), NEW d \in atScan.present, Passes(d, atScan), d.at > e.at
       PROVE  d \in EntriesOf(got)
  <2>1. CASE e \in EntriesOf(atScan.got)
    BY <1>1, <1>7, <1>11, <2>1 DEF ScanSound, ReadSoFar
  <2>2. CASE e \in EntriesOf(page)
    <3>1. e \in Matching /\ e \in atRows /\ Place(e, Matching) <= atScan.offset + PageSize
      BY <1>4, <1>8, <2>2
    <3>2. d.at \in Nat /\ e.at \in Nat /\ d \in AtEntry /\ e \in AtEntry
      BY <1>1, <3>1, EntryType
    <3>3. d \in atRows
      BY <1>1, <1>11, <3>1, <3>2 DEF ScanSound, ArchivedIsOldest
    <3>4. d \in Matching /\ Before(d, e)
      BY <1>2, <1>11, <3>3 DEF Before
    <3>5. Place(d, Matching) < Place(e, Matching)
      BY <1>2, <3>2, <3>4, PlaceBefore
    <3>6. Place(d, Matching) <= atScan.offset + PageSize
      BY <1>1, <1>3, <3>1, <3>5
    <3> QED BY <1>10, <3>4, <3>6
  <2> QED BY <1>7, <2>1, <2>2
<1>12. ASSUME atStorage = "memory"
       PROVE  /\ \A e \in EntriesOf(got) : Passes(e, atScan)
              /\ atScan.past =>
                   /\ EachOnce(got)
                   /\ \A e \in EntriesOf(got) \cap atRows : Place(e, Matching) <= atScan.offset + PageSize
  <2>1. \A e \in EntriesOf(atScan.got) : Passes(e, atScan)
    BY <1>1, <1>12 DEF ScanSound, ReadExactly
  <2>2. ASSUME atScan.past
        PROVE  /\ EachOnce(atScan.got)
               /\ \A e \in EntriesOf(atScan.got) \cap atRows : Place(e, Matching) <= atScan.offset
    BY <1>1, <1>12, <2>2 DEF ScanSound, ReadExactly
  <2>3. ASSUME atScan.past, NEW e \in EntriesOf(got) \cap atRows
        PROVE  Place(e, Matching) <= atScan.offset + PageSize
    <3>1. CASE e \in EntriesOf(atScan.got)
      BY <1>1, <1>3, <2>2, <2>3, <3>1
    <3>2. CASE e \in EntriesOf(page)
      BY <1>4, <3>2
    <3> QED BY <1>7, <2>3, <3>1, <3>2
  <2>4. ASSUME atScan.past, NEW r \in got, NEW s \in got, r.entry = s.entry
        PROVE  r = s
    <3>1. ASSUME NEW x \in atScan.got, NEW y \in page PROVE x.entry # y.entry
      <4>1. SUFFICES ASSUME x.entry = y.entry PROVE FALSE
        OBVIOUS
      <4>2. x.entry \in EntriesOf(atScan.got) /\ y.entry \in EntriesOf(page)
        BY EntriesOfReads
      <4>3. x.entry \in atRows /\ atScan.offset < Place(x.entry, Matching)
        BY <1>4, <1>8, <4>1, <4>2
      <4>4. Place(x.entry, Matching) <= atScan.offset
        BY <2>2, <2>4, <4>2, <4>3
      <4> QED BY <1>1, <1>3, <4>3, <4>4
    <3>2. CASE r \in atScan.got /\ s \in atScan.got
      BY <2>2, <2>4, <3>2 DEF EachOnce
    <3>3. CASE r \in page /\ s \in page
      BY <1>4, <2>4, <3>3
    <3> QED BY <2>4, <3>1, <3>2, <3>3
  <2>5. atScan.past => EachOnce(got)
    BY <2>4 DEF EachOnce
  <2>6. \A e \in EntriesOf(got) : Passes(e, atScan)
    BY <1>2, <1>7, <1>8, <2>1
  <2> QED BY <2>3, <2>5, <2>6
<1>13. EntriesOf(got) \subseteq EntriesOf(atScan.got) \cup atRows
  BY <1>7, <1>8
<1>14. HasRead(got)
  <2> HIDE DEF got
  <2> QED BY <1>9, <1>10, <1>11, <1>12, <1>13 DEF HasRead
<1> QED BY <1>14 DEF page

\* The scan goes on with what it has read, at an offset and for what it awaits.
LEMMA ScanGoesOn ==
  ASSUME AtInv, atScan # NoScan, NEW got, HasRead(got),
         NEW o \in Nat, NEW p \in {"rows", "count"},
         atScan' = [atScan EXCEPT !.got = got, !.offset = o, !.page = p],
         (IF p = "count" THEN o + PageSize ELSE o) = atScan.offset + PageSize,
         atStorage = "memory" => p = "rows",
         Unanswered,
         UNCHANGED <<atStorage, atRows, atNextId, atNow, atBatch, atNotified, atLastPoll, atRequest>>
  PROVE  AtInv'
<1>1. /\ AtTypeOK /\ ScanSound /\ atScan \in AtScanning /\ atNow \in Nat
      /\ got \subseteq AtRead
  BY ScanType DEF AtInv, AtTypeOK, HasRead
<1>2. /\ atScan'.got = got /\ atScan'.offset = o /\ atScan'.page = p
      /\ atScan'.reader = atScan.reader /\ atScan'.since = atScan.since /\ atScan'.from = atScan.from
      /\ atScan'.to = atScan.to /\ atScan'.present = atScan.present /\ atScan'.past = atScan.past
      /\ atScan' \in AtScanning
  BY <1>1 DEF AtScanning
<1>3. AtTypeOK'
  BY <1>1, <1>2 DEF AtTypeOK
<1>4. Known' \subseteq Known
  <2>1. Known = atRows \cup atScan.present \cup EntriesOf(atScan.got)
    BY DEF Known
  <2>2. Known' \subseteq atRows \cup atScan.present \cup EntriesOf(got)
    BY <1>2 DEF Known, EntriesOf
  <2> QED BY <2>1, <2>2 DEF HasRead
<1>5. InStoringOrder'
  BY <1>1, <1>4, OrderKept DEF AtInv
<1>6. ToldBefore' /\ BatchFits' /\ IsFiniteSet(atRows')
  BY DEF AtInv, ToldBefore, BatchFits
<1>7. AuditTrailSound'
  <2>1. NotifiedOnce'
    BY DEF AtInv, AuditTrailSound, NotifiedOnce, EachOnce, EntriesOf, IsNotified
  <2> QED BY <2>1, QuietlySound
<1>8. \A d : Passes(d, atScan)' <=> Passes(d, atScan)
  BY <1>2 DEF Passes
<1>9. Matching' = Matching
  BY <1>8 DEF Matching, FilterEntries
<1>10. Reach' = atScan.offset + PageSize
  BY <1>2 DEF Reach
<1>11. ReadSoFar'
  <2>1. /\ \A e \in atScan'.present \cap Matching' :
               Place(e, Matching') <= Reach' => e \in EntriesOf(atScan'.got)
        /\ \A e \in EntriesOf(atScan'.got), d \in atScan'.present :
               Passes(d, atScan)' /\ d.at > e.at => d \in EntriesOf(atScan'.got)
    BY <1>2, <1>8, <1>9, <1>10 DEF HasRead
  <2> QED BY <2>1 DEF ReadSoFar, Place, Before, EntriesOf
<1>12. ReadExactly'
  <2>1. SUFFICES ASSUME atStorage = "memory" PROVE ReadExactly'
    BY DEF ReadExactly
  <2>2. o = atScan.offset + PageSize
    BY <2>1
  <2>3. /\ \A e \in EntriesOf(atScan'.got) : Passes(e, atScan)'
        /\ atScan'.past =>
             /\ EachOnce(atScan'.got)
             /\ \A e \in EntriesOf(atScan'.got) \cap atRows' : Place(e, Matching') <= atScan'.offset
    BY <1>2, <1>8, <1>9, <2>1, <2>2 DEF HasRead
  <2> QED BY <2>3 DEF ReadExactly, EachOnce, Place, Before, EntriesOf
<1>13. ScanWindow'
  BY <1>1, <1>2, <1>4 DEF ScanSound, ScanWindow, AtLeastZero
<1>14. ArchivedIsOldest'
  BY <1>1, <1>2 DEF ScanSound, ArchivedIsOldest
<1>15. ScanSound'
  BY <1>1, <1>2, <1>11, <1>12, <1>13, <1>14 DEF ScanSound
<1> QED BY <1>3, <1>5, <1>6, <1>7, <1>15 DEF AtInv

\* The count of an SQL page is read after its rows.
LEMMA CountIsRead ==
  ASSUME AtInv, atScan # NoScan, atStorage = "sql", atScan.page = "count"
  PROVE  HasRead(atScan.got)
<1>1. ScanSound /\ AtTypeOK /\ atScan.got \subseteq AtRead
  BY ScanType DEF AtInv
<1> QED BY <1>1 DEF ScanSound, ReadSoFar, Reach, HasRead

-----------------------------------------------------------------------------
(* The end of a scan.                                                      *)

\* The reader's own entries of what it read.
Kept(read) == IF atScan.reader = "query" THEN {r \in read : IsEvaluation(r.entry)} ELSE read

AnswerTo(got, pending) ==
  [reader |-> atScan.reader, since |-> atScan.since, from |-> atScan.from,
   to |-> atScan.to, past |-> atScan.past, got |-> got, present |-> atScan.present,
   spikes |-> IF atScan.reader = "notify" THEN Spikes(got, atScan.since, atScan.to) ELSE {},
   pending |-> IF atScan.reader = "dashboard" THEN pending ELSE {},
   covered |-> IF atScan.reader = "compliance"
               THEN {c \in DOMAIN EvidenceOf : Evidence(c, got) # {}} ELSE {}]

\* A scan ends that has read all there is.
Ends(read) == /\ AtInv /\ atScan # NoScan /\ HasRead(read)
              /\ ~HasMore(Matching, atScan.offset) /\ Conclude(atScan, read)
              /\ UNCHANGED <<atStorage, atRows, atNextId, atNow, atBatch, atRequest>>

\* What the end of a scan starts from.
LEMMA AtTheEnd ==
  ASSUME NEW read, Ends(read)
  PROVE  /\ AtTypeOK /\ ScanSound /\ IsFiniteSet(atRows) /\ atRows \subseteq AtEntry
         /\ atScan.present \subseteq AtEntry /\ read \subseteq AtRead
         /\ \A e \in EntriesOf(read) : e \in AtEntry /\ e \in Known
         /\ \A e \in atScan.present \cup atRows : e \in Known
         /\ \A e \in atScan.present \cap atRows : Passes(e, atScan) => e \in EntriesOf(read)
         /\ Kept(read) \subseteq read /\ EntriesOf(Kept(read)) \subseteq EntriesOf(read)
         /\ atScan.since \in Nat /\ atScan.from \in Nat /\ atScan.to \in Nat /\ atScan.to >= 1
<1>1. /\ AtTypeOK /\ ScanSound /\ IsFiniteSet(atRows) /\ atRows \subseteq AtEntry
      /\ atScan.present \subseteq AtEntry /\ read \subseteq AtRead /\ atScan \in AtScanning
      /\ atScan.since \in Nat /\ atScan.from \in Nat /\ atScan.to \in Nat /\ atScan.offset \in Nat
  BY ScanType DEF Ends, AtInv, AtTypeOK, HasRead
<1>2. Known = atRows \cup atScan.present \cup EntriesOf(atScan.got)
  BY DEF Ends, Known
<1>3. \A e \in EntriesOf(read) : e \in AtEntry /\ e \in Known
  BY <1>1, <1>2 DEF Ends, HasRead, EntriesOf, AtRead
<1>4. ASSUME NEW e \in atScan.present \cap atRows, Passes(e, atScan) PROVE e \in EntriesOf(read)
  <2>1. Matching \in SUBSET AtEntry /\ IsFiniteSet(Matching) /\ e \in Matching
    BY <1>1, <1>4, FS_Subset DEF Matching, FilterEntries
  <2>2. Place(e, Matching) <= Cardinality(Matching)
    BY <2>1, PlaceWithin
  <2>3. Cardinality(Matching) \in Nat /\ Place(e, Matching) \in Nat /\ PageSize \in Nat
    BY <2>1, FS_CardinalityType, PlaceType
  <2>4. Place(e, Matching) <= atScan.offset + PageSize
    BY <1>1, <2>2, <2>3 DEF Ends, HasMore
  <2> QED BY <2>1, <2>4 DEF Ends, HasRead
<1>5. Kept(read) \subseteq read /\ EntriesOf(Kept(read)) \subseteq EntriesOf(read)
  BY DEF Kept, EntriesOf
<1>6. atScan.to >= 1
  BY <1>1 DEF AtScanning
<1> QED BY <1>1, <1>2, <1>3, <1>4, <1>5, <1>6

\* An entry that the reader wants gets through the filter.
LEMMA WantedPasses ==
  ASSUME NEW e \in AtEntry, During(e, atScan.from, atScan.to),
         atScan.reader = "query" => IsEvaluation(e)
  PROVE  Passes(e, atScan)
<1>1. \A k \in DOMAIN KindTable : KindTable[k].cat \in {"access", "security"}
  BY DEF KindTable
<1>2. \A k \in EvaluationKinds : KindTable[k].cat = "access"
  BY DEF KindTable, EvaluationKinds
<1> QED BY <1>1, <1>2, EntryType DEF Passes, CategoriesOf, IsEvaluation

\* What is told at the end of a poll.
LEMMA EndTells ==
  ASSUME NEW read, Ends(read)
  PROVE  AtTypeOK' /\ ToldBefore' /\ NotifiedOnce'
<1> DEFINE got == Kept(read)
           told == {r \in got : During(r.entry, atScan.since, atScan.to) /\ IsNotified(r.entry.kind)}
           new == {[poll |-> atScan.to, place |-> r.place, entry |-> r.entry] : r \in told}
<1>1. /\ atScan' = NoScan
      /\ UNCHANGED <<atStorage, atRows, atNextId, atNow, atBatch, atRequest>>
      /\ IF atScan.reader = "notify"
         THEN atNotified' = atNotified \cup new /\ atLastPoll' = atScan.to
         ELSE UNCHANGED <<atNotified, atLastPoll>>
  BY DEF Ends, Conclude, Kept
<1>2. /\ AtTypeOK /\ ToldBefore /\ NotifiedOnce /\ atLastPoll \in Nat /\ atNow \in Nat
      /\ atNow <= AtMaxTime
  BY DEF Ends, AtInv, AuditTrailSound, AtTypeOK
<1>3. CASE atScan.reader # "notify"
  <2>1. UNCHANGED <<atNotified, atLastPoll>> /\ atScan' = NoScan
    BY <1>1, <1>3
  <2> QED BY <1>1, <1>2, <2>1 DEF AtTypeOK, ToldBefore, NotifiedOnce, EachOnce, EntriesOf, IsNotified
<1>4. CASE atScan.reader = "notify"
  <2>1. /\ atNotified' = atNotified \cup new /\ atLastPoll' = atScan.to /\ got = read
        /\ atScan.past /\ atScan.since = atLastPoll /\ atScan.from <= atScan.since
        /\ atScan.since < atScan.to /\ atScan.to <= atNow
        /\ \A e \in Known : e.at < atScan.to => e \in atScan.present
    BY <1>1, <1>4, AtTheEnd DEF ScanSound, ScanWindow, Kept
  <2>2. atScan.to \in Nat /\ atScan.to >= 1 /\ atScan.since \in Nat /\ atScan.from \in Nat
        /\ atRows \subseteq AtEntry /\ read \subseteq AtRead
    BY AtTheEnd
  <2>3. \A r \in told : r \in read /\ r \in AtRead /\ atLastPoll <= r.entry.at /\ r.entry.at < atScan.to
    BY <2>1, <2>2 DEF During
  <2>4. \A n \in new : \E r \in told : n = [poll |-> atScan.to, place |-> r.place, entry |-> r.entry]
    OBVIOUS
  <2>5. \A r \in told : \E n \in new : n.entry = r.entry
    <3> SUFFICES ASSUME NEW r \in told PROVE \E n \in new : n.entry = r.entry
      OBVIOUS
    <3>1. [poll |-> atScan.to, place |-> r.place, entry |-> r.entry] \in new
      OBVIOUS
    <3>2. [poll |-> atScan.to, place |-> r.place, entry |-> r.entry].entry = r.entry
      OBVIOUS
    <3> QED BY <3>1, <3>2
  <2>6. \A e \in EntriesOf(read) :
          (During(e, atScan.since, atScan.to) /\ IsNotified(e.kind)) => \E n \in new : n.entry = e
    BY <2>1, <2>5 DEF EntriesOf
  <2> HIDE DEF told, new
  <2>7. new \subseteq [poll : 1..AtMaxTime, place : Nat \ {0}, entry : AtEntry]
    BY <1>2, <2>1, <2>2, <2>3, <2>4 DEF AtRead
  <2>8. AtTypeOK'
    BY <1>1, <1>2, <2>1, <2>2, <2>7 DEF AtTypeOK
  <2>9. \A n \in new : atLastPoll <= n.entry.at /\ n.entry.at < atScan.to /\ n.entry.at \in Nat
    BY <2>3, <2>4, EntryType DEF AtRead
  <2>10. \A n \in atNotified : n.entry.at < atLastPoll /\ n.entry.at \in Nat
    BY <1>2, EntryType DEF ToldBefore, AtTypeOK
  <2>11. ToldBefore'
    BY <1>1, <1>2, <2>1, <2>2, <2>9, <2>10 DEF ToldBefore
  <2>12. ASSUME atStorage = "memory" PROVE EachOnce(atNotified')
    <3> SUFFICES ASSUME NEW m \in atNotified \cup new, NEW n \in atNotified \cup new, m.entry = n.entry
                 PROVE  m = n
      BY <2>1 DEF EachOnce
    <3>1. CASE m \in new /\ n \in new
      <4>1. PICK r \in told : m = [poll |-> atScan.to, place |-> r.place, entry |-> r.entry]
        BY <2>4, <3>1
      <4>2. PICK s \in told : n = [poll |-> atScan.to, place |-> s.place, entry |-> s.entry]
        BY <2>4, <3>1
      <4>3. r.entry = s.entry /\ r \in read /\ s \in read
        BY <4>1, <4>2, <2>3
      <4>4. EachOnce(read)
        BY <2>1, <2>12 DEF Ends, HasRead
      <4>5. r = s
        BY <4>3, <4>4 DEF EachOnce
      <4> QED BY <4>1, <4>2, <4>5
    <3>2. CASE m \in atNotified /\ n \in atNotified
      BY <1>2, <2>12, <3>2 DEF NotifiedOnce, EachOnce
    <3>3. CASE m \in atNotified /\ n \in new
      BY <2>9, <2>10, <3>3, <1>2
    <3>4. CASE m \in new /\ n \in atNotified
      BY <2>9, <2>10, <3>4, <1>2
    <3> QED BY <3>1, <3>2, <3>3, <3>4
  <2>13. ASSUME atStorage = "memory", NEW e \in atRows, IsNotified(e.kind), e.at < atScan.to
         PROVE  \E n \in atNotified \cup new : n.entry = e
    <3>1. CASE e.at < atLastPoll
      BY <1>2, <2>13, <3>1 DEF NotifiedOnce, EntriesOf
    <3>2. CASE ~(e.at < atLastPoll)
      <4>1. e \in AtEntry /\ e.at \in Nat
        BY <2>2, EntryType
      <4>2. During(e, atScan.since, atScan.to) /\ During(e, atScan.from, atScan.to)
        BY <1>2, <2>1, <2>2, <2>13, <3>2, <4>1 DEF During
      <4>3. e \in atScan.present
        BY <2>1, <2>13, AtTheEnd
      <4>4. e \in EntriesOf(read)
        BY <1>4, <4>1, <4>2, <4>3, WantedPasses, AtTheEnd
      <4> QED BY <2>6, <2>13, <4>2, <4>4
    <3> QED BY <3>1, <3>2
  <2>14. NotifiedOnce'
    BY <1>1, <2>1, <2>12, <2>13 DEF NotifiedOnce, EachOnce, EntriesOf, IsNotified
  <2> QED BY <2>8, <2>11, <2>14
<1> QED BY <1>3, <1>4

\* The invariant but for what the answer is worth.
LEMMA EndKeeps ==
  ASSUME NEW read, Ends(read), AuditTrailSound'
  PROVE  AtInv'
<1>1. /\ atScan' = NoScan
      /\ UNCHANGED <<atStorage, atRows, atNextId, atNow, atBatch, atRequest>>
  BY DEF Ends, Conclude
<1>2. Known' = atRows /\ atRows \subseteq Known
  BY <1>1 DEF Known
<1>3. InStoringOrder'
  BY <1>1, <1>2, OrderKept DEF Ends, AtInv, AtTypeOK
<1>4. BatchFits' /\ IsFiniteSet(atRows')
  BY <1>1 DEF Ends, AtInv, BatchFits
<1> QED BY <1>1, <1>3, <1>4, EndTells DEF AtInv

\* Nothing is missing, and what is past is exact.
LEMMA EndIsExact ==
  ASSUME NEW read, Ends(read), NEW pending, atAnswer' = AnswerTo(Kept(read), pending)
  PROVE  ScanMissesNothing' /\ PastScanIsExact'
<1> DEFINE got == Kept(read)
<1>1. /\ atAnswer'.reader = atScan.reader /\ atAnswer'.from = atScan.from
      /\ atAnswer'.to = atScan.to /\ atAnswer'.past = atScan.past /\ atAnswer'.got = got
      /\ atAnswer'.present = atScan.present
      /\ atAnswer'.covered = IF atScan.reader = "compliance"
                             THEN {c \in DOMAIN EvidenceOf : Evidence(c, got) # {}} ELSE {}
      /\ atRows' = atRows /\ atStorage' = atStorage
  BY DEF AnswerTo, Ends
<1>2. \A e : Wanted(e)' <=> /\ During(e, atScan.from, atScan.to)
                            /\ (atScan.reader = "query" => IsEvaluation(e))
  BY <1>1 DEF Wanted, During, IsEvaluation
<1>3. \A e : e \in EntriesOf(got) <=>
               e \in EntriesOf(read) /\ (atScan.reader = "query" => IsEvaluation(e))
  BY DEF Kept, EntriesOf
<1> HIDE DEF got
<1>4. ASSUME NEW e \in atScan.present \cap atRows, During(e, atScan.from, atScan.to),
             atScan.reader = "query" => IsEvaluation(e)
      PROVE  e \in EntriesOf(got)
  BY <1>3, <1>4, AtTheEnd, WantedPasses
<1>5. ScanMissesNothing'
  BY <1>1, <1>2, <1>4 DEF ScanMissesNothing, EntriesOf
<1>6. ASSUME atScan.past, atStorage = "memory"
      PROVE  /\ \A e \in EntriesOf(got) :
                  /\ During(e, atScan.from, atScan.to)
                  /\ atScan.reader = "query" => IsEvaluation(e)
                  /\ e \in atScan.present
             /\ EachOnce(got)
  <2>1. EachOnce(read) /\ \A e \in EntriesOf(read) : Passes(e, atScan)
    BY <1>6 DEF Ends, HasRead
  <2>2. got \subseteq read
    BY AtTheEnd DEF got
  <2>3. EachOnce(got)
    BY <2>1, <2>2 DEF EachOnce
  <2>4. \A e \in EntriesOf(read) : During(e, atScan.from, atScan.to)
    BY <1>6, <2>1 DEF Passes
  <2>5. \A e \in EntriesOf(read) : e \in atScan.present
    BY <1>6, <2>4, AtTheEnd DEF ScanSound, ScanWindow, During
  <2> QED BY <1>3, <2>3, <2>4, <2>5
<1>7. ASSUME atScan.past, atStorage = "memory", NEW c \in atAnswer'.covered
      PROVE  \E e \in atScan.present :
               /\ During(e, atScan.from, atScan.to)
               /\ atScan.reader = "query" => IsEvaluation(e)
               /\ KindTable[e.kind].act \in EvidenceOf[c]
  <2>1. Evidence(c, got) # {}
    BY <1>1
  <2>2. PICK e : e \in EntriesOf(got) /\ KindTable[e.kind].act \in EvidenceOf[c]
    BY <2>1 DEF Evidence
  <2> QED BY <1>6, <1>7, <2>2
<1>8. PastScanIsExact'
  <2> SUFFICES ASSUME atScan.past, atStorage = "memory"
               PROVE  /\ \A e \in EntriesOf(atAnswer'.got) : Wanted(e)' /\ e \in atAnswer'.present
                      /\ EachOnce(atAnswer'.got)
                      /\ \A c \in atAnswer'.covered : \E e \in atAnswer'.present :
                            Wanted(e)' /\ KindTable[e.kind].act \in EvidenceOf[c]
    BY <1>1 DEF PastScanIsExact, EntriesOf, EachOnce, EvidenceOf, Approvals, KindTable
  <2> QED BY <1>1, <1>2, <1>6, <1>7
<1> QED BY <1>5, <1>8

\* A spike counts no entry twice, and none but those of its window.
LEMMA EndSpikes ==
  ASSUME NEW read, Ends(read), NEW pending, atAnswer' = AnswerTo(Kept(read), pending)
  PROVE  SpikesAreReal'
<1>1. /\ atAnswer'.to = atScan.to /\ atAnswer'.present = atScan.present
      /\ atAnswer'.spikes = IF atScan.reader = "notify"
                            THEN Spikes(Kept(read), atScan.since, atScan.to) ELSE {}
      /\ atStorage' = atStorage
  BY DEF AnswerTo, Ends
<1>2. SUFFICES ASSUME atStorage = "memory", NEW w \in atAnswer'.spikes
               PROVE  Cardinality({e \in atScan.present : /\ During(e, atScan.to - w, atScan.to)
                                                          /\ KindTable[e.kind].denial}) >= Threshold
  BY <1>1 DEF SpikesAreReal, During, KindTable
<1>3. /\ atScan.reader = "notify" /\ Kept(read) = read /\ w \in Spikes(read, atScan.since, atScan.to)
      /\ atScan.past /\ w \in Nat
  BY <1>1, <1>2, AtTheEnd DEF Kept, ScanSound, ScanWindow, Spikes
<1> DEFINE start == IF atScan.to - w < atScan.since THEN atScan.since ELSE atScan.to - w
           D == {r \in read : During(r.entry, start, atScan.to) /\ KindTable[r.entry.kind].denial}
           E == {e \in atScan.present : During(e, atScan.to - w, atScan.to) /\ KindTable[e.kind].denial}
<1>4. Cardinality(D) >= Threshold
  BY <1>3 DEF Spikes, Denials
<1>5. EachOnce(read)
  BY <1>2, <1>3 DEF Ends, HasRead
<1>6. ASSUME NEW r \in D PROVE r.entry \in E
  <2>1. /\ r.entry \in EntriesOf(read) /\ r.entry \in AtEntry /\ r.entry.at \in Nat
        /\ r.entry \in Known
    BY EntriesOfReads, AtTheEnd, EntryType
  <2>2. r.entry.at >= start /\ r.entry.at < atScan.to /\ KindTable[r.entry.kind].denial
    BY DEF During
  <2>3. start >= atScan.to - w
    BY <1>3, AtTheEnd
  <2>4. r.entry \in atScan.present
    BY <1>3, <2>1, <2>2, AtTheEnd DEF ScanSound, ScanWindow
  <2>5. start \in Int
    BY <1>3, AtTheEnd
  <2> HIDE DEF start
  <2>6. During(r.entry, atScan.to - w, atScan.to)
    BY <1>3, <2>1, <2>2, <2>3, <2>5, AtTheEnd DEF During
  <2> QED BY <2>2, <2>4, <2>6
<1>7. IsFiniteSet(E)
  BY AtTheEnd, FS_Subset DEF ScanSound
<1>8. D \subseteq read
  OBVIOUS
<1>9. /\ w \in Nat /\ atScan.to \in Nat
  BY <1>3, AtTheEnd
<1> HIDE DEF D, E
<1> DEFINE f == [r \in D |-> r.entry]
<1>10. f \in Injection(D, E)
  <2>1. f \in [D -> E]
    BY <1>6
  <2>2. \A r, s \in D : f[r] = f[s] => r = s
    BY <1>5, <1>8 DEF EachOnce
  <2> HIDE DEF f
  <2> QED BY <2>1, <2>2 DEF Injection, IsInjective
<1> HIDE DEF f
<1>11. IsFiniteSet(D) /\ Cardinality(D) <= Cardinality(E)
  BY <1>7, <1>10, FS_Injection
<1>12. Cardinality(D) \in Nat /\ Cardinality(E) \in Nat
  BY <1>7, <1>11, FS_CardinalityType
<1>13. Cardinality(E) >= Threshold
  BY <1>4, <1>11, <1>12
<1> QED BY <1>13 DEF E

\* A snapshot is only misled by entries of one instant.
LEMMA EndSnapshot ==
  ASSUME NEW read, Ends(read),
         NEW pending \in Snapshots(Relevant(EntriesOf(Kept(read))), atScan.to),
         atAnswer' = AnswerTo(Kept(read), pending)
  PROVE  OnlySameInstantMisleads'
<1> DEFINE about == {e \in Relevant(atScan.present) : e.at < atScan.to}
           relevant == Relevant(EntriesOf(Kept(read)))
<1>1. /\ atAnswer'.to = atScan.to /\ atAnswer'.present = atScan.present
      /\ atAnswer'.pending = IF atScan.reader = "dashboard" THEN pending ELSE {}
  BY DEF AnswerTo
<1>2. SUFFICES ASSUME NEW w \in atAnswer'.pending, NEW n \in about, ApprovalStatus(n.kind) # "pending"
               PROVE  \E d \in about \ {n} : d.at = n.at
  BY <1>1 DEF OnlySameInstantMisleads, Relevant, ApprovalStatus
<1>3. /\ atScan.reader = "dashboard" /\ Kept(read) = read /\ w \in pending /\ atScan.past
  BY <1>1, <1>2, AtTheEnd DEF Kept, ScanSound, ScanWindow
<1>4. relevant # {}
  BY <1>3 DEF Snapshots
<1>5. PICK last \in Lasts(relevant) : pending = PendingIn(relevant, last, atScan.to)
  BY <1>4 DEF Snapshots
<1>6. /\ ApprovalStatus(last.kind) = "pending" /\ w \in LookBacks
      /\ \E e \in Firsts(relevant) : During(e, atScan.to - w, atScan.to)
  BY <1>3, <1>5 DEF PendingIn
<1>7. PICK first \in Firsts(relevant) : During(first, atScan.to - w, atScan.to)
  BY <1>6
<1>8. /\ last \in EntriesOf(read) /\ first \in EntriesOf(read) /\ first.at <= last.at
      /\ \A e \in EntriesOf(read) : IsApproval(e) => e.at <= last.at
      /\ IsApproval(last)
  BY <1>3, <1>5 DEF Lasts, Firsts, Relevant, IsApproval
<1>9. /\ last \in Known /\ last \in AtEntry /\ first \in AtEntry /\ n \in AtEntry /\ n \in Known
      /\ n \in atScan.present /\ n.at < atScan.to /\ IsApproval(n) /\ IsDecision(n)
  BY <1>2, <1>8, AtTheEnd DEF Relevant, IsApproval, IsDecision
<1>10. last.at \in Nat /\ first.at \in Nat /\ n.at \in Nat /\ last.id \in Nat /\ n.id \in Nat
  BY <1>9, EntryType
\* A decision is the last entry of its request: the pending one is older.
<1>11. last.id <= n.id /\ last.at <= n.at /\ last # n
  BY <1>2, <1>6, <1>8, <1>9 DEF Ends, AtInv, InStoringOrder
<1>12. CASE last.at = n.at
  <2>1. last \in atScan.present
    BY <1>3, <1>9, <1>12, AtTheEnd DEF ScanSound, ScanWindow
  <2> QED BY <1>8, <1>9, <1>11, <1>12, <2>1 DEF Relevant, IsApproval
\* Otherwise the decision is newer, and was read with what is older.
<1>13. CASE last.at < n.at
  <2>1. Passes(n, atScan)
    <3>1. w \in Nat /\ atScan.to \in Nat /\ atScan.from \in Nat
      BY <1>6, AtTheEnd
    <3>2. AtLeastZero(atScan.to - w) >= atScan.from
      BY <1>3, <1>6, AtTheEnd DEF ScanSound, ScanWindow
    <3>3. n.at >= atScan.to - w
      BY <1>7, <1>8, <1>10, <1>13, <3>1 DEF During
    <3>4. n.at >= atScan.from
      BY <1>10, <3>1, <3>2, <3>3 DEF AtLeastZero
    <3>5. During(n, atScan.from, atScan.to)
      BY <1>9, <3>4 DEF During
    <3> QED BY <1>3, <1>9, <3>5, WantedPasses
  <2>2. n \in EntriesOf(read)
    BY <1>8, <1>9, <1>10, <1>13, <2>1 DEF Ends, HasRead
  <2>3. n.at <= last.at
    BY <1>8, <1>9, <2>2
  <2> QED BY <1>10, <1>13, <2>3
<1> QED BY <1>10, <1>11, <1>12, <1>13

LEMMA EndInv ==
  ASSUME NEW read, Ends(read)
  PROVE  AtInv'
<1>1. PICK pending \in Snapshots(Relevant(EntriesOf(Kept(read))), atScan.to) :
        atAnswer' = AnswerTo(Kept(read), pending)
  BY DEF Ends, Conclude, Kept, AnswerTo
<1>2. AuditTrailSound'
  BY <1>1, EndIsExact, EndSpikes, EndSnapshot, EndTells DEF AuditTrailSound
<1> QED BY <1>2, EndKeeps

LEMMA ScanInv ==
  ASSUME AtInv, ScanPage \/ ScanRows \/ ScanCount
  PROVE  AtInv'
<1>1. atScan # NoScan /\ AtTypeOK /\ ScanSound
  BY DEF ScanPage, ScanRows, ScanCount, AtInv
<1>2. /\ atScan \in AtScanning /\ atScan.offset \in Nat /\ PageSize \in Nat
      /\ atScan.page \in {"rows", "count"} /\ atStorage \in {"memory", "sql"}
  BY <1>1, ScanType DEF AtTypeOK
<1>3. FilterEntries(atRows, atScan) = Matching
  BY DEF Matching
<1>4. CASE ScanPage
  <2>1. atStorage = "memory" /\ atScan.page = "rows"
    BY <1>1, <1>4 DEF ScanPage, ScanSound, ScanWindow
  <2> DEFINE got == atScan.got \cup Page(Matching, atScan.offset)
  <2>2. HasRead(got)
    BY <1>1, <2>1, PageIsRead
  <2>3. UNCHANGED <<atStorage, atRows, atNextId, atNow, atBatch, atRequest>>
    BY <1>4 DEF ScanPage
  <2>4. CASE HasMore(Matching, atScan.offset)
    <3>1. /\ atScan' = [atScan EXCEPT !.got = got, !.offset = @ + PageSize]
          /\ UNCHANGED <<atNotified, atLastPoll>> /\ Unanswered
      BY <1>3, <1>4, <2>4 DEF ScanPage
    <3>2. [atScan EXCEPT !.got = got, !.offset = @ + PageSize] =
          [atScan EXCEPT !.got = got, !.offset = atScan.offset + PageSize, !.page = "rows"]
      BY <1>2, <2>1 DEF AtScanning
    <3>3. atScan.offset + PageSize \in Nat
      BY <1>2
    <3> HIDE DEF got
    <3> QED BY <1>1, <2>1, <2>2, <2>3, <3>1, <3>2, <3>3, ScanGoesOn
  <2>5. CASE ~HasMore(Matching, atScan.offset)
    <3>1. Conclude(atScan, got)
      BY <1>3, <1>4, <2>5 DEF ScanPage
    <3> HIDE DEF got
    <3>2. Ends(got)
      BY <1>1, <2>2, <2>3, <2>5, <3>1 DEF Ends
    <3> QED BY <3>2, EndInv
  <2> QED BY <2>4, <2>5
<1>5. CASE ScanRows
  <2> DEFINE got == atScan.got \cup Page(Matching, atScan.offset)
  <2>1. /\ atStorage = "sql" /\ atScan.page = "rows" /\ Unanswered
        /\ atScan' = [atScan EXCEPT !.got = @ \cup Page(Matching, atScan.offset), !.page = "count"]
        /\ UNCHANGED <<atStorage, atRows, atNextId, atNow, atBatch, atNotified, atLastPoll, atRequest>>
    BY <1>3, <1>5 DEF ScanRows
  <2>2. HasRead(got)
    BY <1>1, <2>1, PageIsRead
  <2>3. [atScan EXCEPT !.got = @ \cup Page(Matching, atScan.offset), !.page = "count"] =
        [atScan EXCEPT !.got = got, !.offset = atScan.offset, !.page = "count"]
    BY <1>2 DEF AtScanning
  <2> HIDE DEF got
  <2> QED BY <1>1, <1>2, <2>1, <2>2, <2>3, ScanGoesOn
<1>6. CASE ScanCount
  <2>1. /\ atStorage = "sql" /\ atScan.page = "count"
        /\ UNCHANGED <<atStorage, atRows, atNextId, atNow, atBatch, atRequest>>
    BY <1>6 DEF ScanCount
  <2>2. HasRead(atScan.got)
    BY <1>1, <2>1, CountIsRead
  <2>3. CASE HasMore(Matching, atScan.offset)
    <3>1. /\ atScan' = [atScan EXCEPT !.offset = @ + PageSize, !.page = "rows"]
          /\ UNCHANGED <<atNotified, atLastPoll>> /\ Unanswered
      BY <1>3, <1>6, <2>3 DEF ScanCount
    <3>2. [atScan EXCEPT !.offset = @ + PageSize, !.page = "rows"] =
          [atScan EXCEPT !.got = atScan.got, !.offset = atScan.offset + PageSize, !.page = "rows"]
      BY <1>2 DEF AtScanning
    <3>3. atScan.offset + PageSize \in Nat
      BY <1>2
    <3> QED BY <1>1, <2>1, <2>2, <3>1, <3>2, <3>3, ScanGoesOn
  <2>4. CASE ~HasMore(Matching, atScan.offset)
    <3>1. Conclude(atScan, atScan.got)
      BY <1>3, <1>6, <2>4 DEF ScanCount
    <3>2. Ends(atScan.got)
      BY <1>1, <2>1, <2>2, <2>4, <3>1 DEF Ends
    <3> QED BY <3>2, EndInv
  <2> QED BY <2>3, <2>4
<1> QED BY <1>4, <1>5, <1>6

-----------------------------------------------------------------------------
LEMMA AtStepInv == AtInv /\ [AtNext]_atVars => AtInv'
<1> SUFFICES ASSUME AtInv, [AtNext]_atVars PROVE AtInv'
  OBVIOUS
<1>1. ASSUME NEW kind \in Kinds, AppendEntry(kind) PROVE AtInv'
  BY <1>1, AppendEntryInv
<1>2. ASSUME NEW first \in Kinds, NEW second \in Kinds, AppendBatch(first, second) PROVE AtInv'
  BY <1>2, AppendBatchInv
<1>3. CASE AppendBatchRest
  BY <1>3, AppendBatchRestInv
<1>4. ASSUME NEW t \in 1..AtMaxTime, Archive(t) PROVE AtInv'
  BY <1>4, ArchiveInv
<1>5. CASE AtTick
  BY <1>5, AtTickInv
<1>6. ASSUME NEW r \in Readers, NEW from \in 0..AtMaxTime, NEW to \in 1..(AtMaxTime + 1),
             StartScan(r, from, to)
      PROVE  AtInv'
  BY <1>6, StartScanInv
<1>7. CASE ScanPage \/ ScanRows \/ ScanCount
  BY <1>7, ScanInv
<1>8. CASE UNCHANGED atVars
  <2>1. /\ UNCHANGED <<atStorage, atRows, atNextId, atNow, atBatch>>
        /\ UNCHANGED <<atScan, atNotified, atLastPoll, atRequest, atAnswer>>
    BY <1>8 DEF atVars
  <2>2. AtTypeOK' /\ IsFiniteSet(atRows') /\ ToldBefore' /\ BatchFits'
    BY <2>1 DEF AtInv, AtTypeOK, ToldBefore, BatchFits
  <2>3. InStoringOrder'
    BY <2>1, OrderKept DEF AtInv, Known, AtTypeOK
  <2>4. (atScan # NoScan => ScanSound)'
    <3>1. ScanWindow' <=> ScanWindow
      BY <2>1 DEF ScanWindow, Known, AtLeastZero
    <3>2. ArchivedIsOldest' <=> ArchivedIsOldest
      BY <2>1 DEF ArchivedIsOldest
    <3>3. ReadSoFar' <=> ReadSoFar
      BY <2>1 DEF ReadSoFar, Reach, Matching, FilterEntries, Passes, Place, Before, EntriesOf
    <3>4. ReadExactly' <=> ReadExactly
      BY <2>1 DEF ReadExactly, Matching, FilterEntries, Passes, Place, Before, EachOnce, EntriesOf
    <3> QED BY <2>1, <3>1, <3>2, <3>3, <3>4 DEF AtInv, ScanSound
  <2>5. AuditTrailSound'
    <3>1. ScanMissesNothing' <=> ScanMissesNothing
      BY <2>1 DEF ScanMissesNothing, Answered, Wanted, EntriesOf
    <3>2. PastScanIsExact' <=> PastScanIsExact
      BY <2>1 DEF PastScanIsExact, Answered, Wanted, EntriesOf, EachOnce
    <3>3. SpikesAreReal' <=> SpikesAreReal
      BY <2>1 DEF SpikesAreReal, Answered
    <3>4. OnlySameInstantMisleads' <=> OnlySameInstantMisleads
      BY <2>1 DEF OnlySameInstantMisleads, Answered
    <3>5. NotifiedOnce' <=> NotifiedOnce
      BY <2>1 DEF NotifiedOnce, EachOnce, EntriesOf
    <3> QED BY <3>1, <3>2, <3>3, <3>4, <3>5 DEF AtInv, AuditTrailSound
  <2> QED BY <2>2, <2>3, <2>4, <2>5 DEF AtInv
<1> QED BY <1>1, <1>2, <1>3, <1>4, <1>5, <1>6, <1>7, <1>8 DEF AtNext

LEMMA AlwaysAtInv == AtSpec => []AtInv
  BY AtInitInv, AtStepInv, PTL DEF AtSpec

\* The entries, the readers' scans and what they were told keep their types: at
\* most one scan is under way, and a batch's rest always has room (audit-storage.ts).
THEOREM AuditTypeCorrect == AtSpec => []AtTypeOK
<1>1. AtInv => AtTypeOK
  BY DEF AtInv
<1> QED BY <1>1, AlwaysAtInv, PTL

\* Whatever is appended or archived between two pages of a scan, and for any
\* page size: nothing of its range is missed, what is past is read once, spikes
\* are real, a decided request is shown as pending only by entries of one
\* instant, and polls tell of each event once (audit-storage.ts, and the
\* readers in policy).
THEOREM TrailKept == AtSpec => []AuditTrailSound
<1>1. AtInv => AuditTrailSound
  BY DEF AtInv
<1> QED BY <1>1, AlwaysAtInv, PTL

-----------------------------------------------------------------------------
(* The approval gate.                                                      *)

USE GateAssumption

LEMMA InitInv == Init => IInv
  BY DEF Init, IInv, TypeOK, Indexed, CallsKnown, ApprovedBefore,
         PendingIsIndexed, AllowedWasApproved, Status, Decision

\* What expireIfNeeded does to the requests.
LEMMA ExpireKeeps ==
  ASSUME IInv, NEW r \in Requests, ExpireIfNeeded(r)
  PROVE  /\ status' \in [Requests -> Status \cup {"none"}]
         /\ \A q \in Requests : /\ status'[q] = "none" <=> status[q] = "none"
                                /\ status'[q] = "pending" => status[q] = "pending"
                                /\ status'[q] = "approved" => status[q] = "approved"
  BY DEF IInv, TypeOK, ExpireIfNeeded, Expired, Status, Decision

\* A step that makes no request and points to none, keeps calls as they are but
\* for one that now answers what it may, and approves nothing.
LEMMA ExpiringStep ==
  ASSUME IInv, NEW r \in Requests, ExpireIfNeeded(r),
         UNCHANGED <<print, index, approved, allowed>>,
         due' = due,
         call' \in [Calls -> Call \cup {Idle}],
         \A c \in Calls : call'[c] # Idle =>
           \/ call'[c] = call[c]
           \/ /\ call'[c].id \in Requests
              /\ status[call'[c].id] # "none"
              /\ call'[c].does = "allow" => status[call'[c].id] = "approved"
  PROVE  IInv'
<1>1. TypeOK'
  BY ExpireKeeps DEF IInv, TypeOK
<1>2. Indexed'
  BY ExpireKeeps DEF IInv, TypeOK, Indexed
<1>3. CallsKnown'
  <2> SUFFICES ASSUME NEW c \in Calls, call'[c] # Idle
               PROVE  /\ status'[call'[c].id] # "none"
                      /\ call'[c].does = "allow" => call'[c].id \in approved
    BY DEF CallsKnown
  <2>1. call'[c].id \in Requests
    BY DEF IInv, TypeOK, Call
  <2>2. status[call'[c].id] # "none"
    BY DEF IInv, CallsKnown
  <2>3. call'[c].does = "allow" => call'[c].id \in approved
    BY <2>1 DEF IInv, CallsKnown, ApprovedBefore
  <2> QED BY <2>1, <2>2, <2>3, ExpireKeeps
<1>4. ApprovedBefore'
  BY ExpireKeeps DEF IInv, ApprovedBefore
<1>5. PendingIsIndexed'
  BY ExpireKeeps DEF IInv, PendingIsIndexed
<1>6. AllowedWasApproved'
  BY DEF IInv, AllowedWasApproved
<1> QED BY <1>1, <1>2, <1>3, <1>4, <1>5, <1>6 DEF IInv

\* A request is made for a fingerprint whose latest request is not pending.
LEMMA RequestingStep ==
  ASSUME IInv, NEW f \in Fingerprints, NEW r \in Requests, NewRequest(f, r),
         index[f] # NoRequest => status[index[f]] # "pending",
         UNCHANGED <<print, due, approved, allowed>>,
         call' \in [Calls -> Call \cup {Idle}],
         \A c \in Calls : call'[c] # Idle =>
           call'[c] = call[c] \/ call'[c] = [does |-> "gate", id |-> r]
  PROVE  IInv'
<1>1. /\ status' = [status EXCEPT ![r] = "pending"]
      /\ index' = [index EXCEPT ![f] = r]
      /\ status[r] = "none" /\ print[r] = f
  BY DEF NewRequest
<1>2. TypeOK'
  BY <1>1 DEF IInv, TypeOK, Status
<1>3. Indexed'
  BY <1>1 DEF IInv, TypeOK, Indexed
<1>4. CallsKnown'
  <2> SUFFICES ASSUME NEW c \in Calls, call'[c] # Idle
               PROVE  /\ status'[call'[c].id] # "none"
                      /\ call'[c].does = "allow" => call'[c].id \in approved
    BY DEF CallsKnown
  <2>1. call'[c].id \in Requests
    BY DEF IInv, TypeOK, Call
  <2> QED BY <1>1, <2>1 DEF IInv, TypeOK, CallsKnown
<1>5. ApprovedBefore'
  BY <1>1 DEF IInv, TypeOK, ApprovedBefore
<1>6. PendingIsIndexed'
  BY <1>1 DEF IInv, TypeOK, Indexed, PendingIsIndexed
<1>7. AllowedWasApproved'
  BY DEF IInv, AllowedWasApproved
<1> QED BY <1>2, <1>3, <1>4, <1>5, <1>6, <1>7 DEF IInv

LEMMA RecordStep ==
  ASSUME IInv, NEW c \in Calls, Record(c)
  PROVE  IInv'
<1> DEFINE r == call[c].id
<1>1. r \in Requests /\ status[r] # "none" /\ call[c].does \in Decision
  BY DEF IInv, TypeOK, Call, CallsKnown, Record
<1>2. /\ status' = [status EXCEPT ![r] = call[c].does]
      /\ call' = [call EXCEPT ![c] = Idle]
      /\ approved' = IF call[c].does = "approved" THEN approved \cup {r} ELSE approved
      /\ UNCHANGED <<print, index, due, allowed>>
  BY DEF Record
<1> HIDE DEF r
<1>3. TypeOK'
  BY <1>1, <1>2 DEF IInv, TypeOK, Status
<1>4. Indexed'
  BY <1>1, <1>2 DEF IInv, TypeOK, Indexed, Decision
<1>5. CallsKnown'
  BY <1>1, <1>2 DEF IInv, TypeOK, CallsKnown, Call, Decision
<1>6. ApprovedBefore'
  BY <1>1, <1>2 DEF IInv, TypeOK, ApprovedBefore, Decision
<1>7. PendingIsIndexed'
  BY <1>1, <1>2 DEF IInv, TypeOK, PendingIsIndexed, Decision
<1>8. AllowedWasApproved'
  BY <1>2 DEF IInv, AllowedWasApproved
<1> QED BY <1>3, <1>4, <1>5, <1>6, <1>7, <1>8 DEF IInv

LEMMA AnswerStep ==
  ASSUME IInv, NEW c \in Calls, Answer(c) \/ AuditFails(c)
  PROVE  IInv'
<1>1. /\ call[c] # Idle /\ call[c] \in Call
      /\ call' = [call EXCEPT ![c] = Idle]
      /\ UNCHANGED <<status, print, index, due, approved>>
  BY DEF IInv, TypeOK, Answer, AuditFails
<1>2. allowed' \subseteq approved
  BY <1>1 DEF IInv, AllowedWasApproved, CallsKnown, Answer, AuditFails
<1>3. TypeOK'
  BY <1>1, <1>2 DEF IInv, TypeOK
<1>4. CallsKnown'
  BY <1>1 DEF IInv, TypeOK, CallsKnown
<1> QED BY <1>1, <1>2, <1>3, <1>4
        DEF IInv, Indexed, ApprovedBefore, PendingIsIndexed, AllowedWasApproved

LEMMA EvaluateStep ==
  ASSUME IInv, NEW c \in Calls, NEW f \in Fingerprints, Evaluate(c, f)
  PROVE  IInv'
<1>1. CASE index[f] = NoRequest
  <2>1. PICK r \in Requests :
          /\ NewRequest(f, r)
          /\ call' = [call EXCEPT ![c] = [does |-> "gate", id |-> r]]
    BY <1>1 DEF Evaluate
  <2>2. call' \in [Calls -> Call \cup {Idle}]
    BY <2>1 DEF IInv, TypeOK, Call
  <2>3. \A d \in Calls : call'[d] # Idle =>
          call'[d] = call[d] \/ call'[d] = [does |-> "gate", id |-> r]
    BY <2>1 DEF IInv, TypeOK
  <2>4. UNCHANGED <<print, due, approved, allowed>>
    BY DEF Evaluate
  <2> QED BY <1>1, <2>1, <2>2, <2>3, <2>4, RequestingStep
<1>2. CASE index[f] # NoRequest
  <2> DEFINE r == index[f]
             e == [does |-> Enforcement(status'[r]), id |-> r]
  <2>1. r \in Requests /\ status[r] # "none"
    BY <1>2 DEF IInv, TypeOK, Indexed
  <2>2. /\ ExpireIfNeeded(r)
        /\ call' = [call EXCEPT ![c] = e]
        /\ UNCHANGED <<print, index, approved, allowed>>
        /\ due' = due
    BY <1>2 DEF Evaluate
  <2>3. /\ Enforcement(status'[r]) \in {"allow", "gate", "refuse"}
        /\ Enforcement(status'[r]) = "allow" => status'[r] = "approved"
    BY DEF Enforcement
  <2>4. e \in Call
    BY <2>1, <2>3 DEF Call
  <2>5. e.does = "allow" => status[r] = "approved"
    BY <2>1, <2>2, <2>3, ExpireKeeps
  <2>6. e.id = r
    OBVIOUS
  <2> HIDE DEF e
  <2>7. call' \in [Calls -> Call \cup {Idle}]
    BY <2>2, <2>4 DEF IInv, TypeOK
  <2>8. \A d \in Calls : call'[d] # Idle =>
          \/ call'[d] = call[d]
          \/ /\ call'[d].id \in Requests
             /\ status[call'[d].id] # "none"
             /\ call'[d].does = "allow" => status[call'[d].id] = "approved"
    BY <2>1, <2>2, <2>5, <2>6 DEF IInv, TypeOK
  <2> HIDE DEF r
  <2> QED BY <2>1, <2>2, <2>7, <2>8, ExpiringStep
<1> QED BY <1>1, <1>2

LEMMA DecideStep ==
  ASSUME IInv, NEW c \in Calls, NEW r \in Requests, NEW decision \in Decision,
         Decide(c, r, decision)
  PROVE  IInv'
<1>1. /\ status[r] # "none"
      /\ ExpireIfNeeded(r)
      /\ call' = IF status'[r] = "pending"
                 THEN [call EXCEPT ![c] = [does |-> decision, id |-> r]] ELSE call
      /\ UNCHANGED <<print, index, approved, allowed>>
      /\ due' = due
  BY DEF Decide
<1>2. call' \in [Calls -> Call \cup {Idle}]
  BY <1>1 DEF IInv, TypeOK, Call
<1>3. \A d \in Calls : call'[d] # Idle =>
        \/ call'[d] = call[d]
        \/ /\ call'[d].id \in Requests
           /\ status[call'[d].id] # "none"
           /\ call'[d].does = "allow" => status[call'[d].id] = "approved"
  BY <1>1 DEF IInv, TypeOK, Decision
<1> QED BY <1>1, <1>2, <1>3, ExpiringStep

LEMMA StepInv == IInv /\ [Next]_vars => IInv'
<1> SUFFICES ASSUME IInv, [Next]_vars
             PROVE  IInv'
  OBVIOUS
<1>1. ASSUME NEW r \in Requests, Elapse(r)
      PROVE  IInv'
  BY <1>1 DEF IInv, TypeOK, Indexed, CallsKnown, ApprovedBefore,
              PendingIsIndexed, AllowedWasApproved, Elapse
<1>2. ASSUME NEW r \in Requests, Get(r)
      PROVE  IInv'
  <2>1. call' \in [Calls -> Call \cup {Idle}] /\ call' = call
    BY <1>2 DEF IInv, TypeOK, Get
  <2> QED BY <1>2, <2>1, ExpiringStep DEF Get
<1>3. ASSUME NEW f \in Fingerprints, CreateRequest(f)
      PROVE  IInv'
  <2>1. PICK r \in Requests : NewRequest(f, r)
    BY <1>3 DEF CreateRequest
  <2>2. call' \in [Calls -> Call \cup {Idle}] /\ call' = call
    BY <1>3 DEF IInv, TypeOK, CreateRequest
  <2> QED BY <1>3, <2>1, <2>2, RequestingStep DEF CreateRequest
<1>4. CASE UNCHANGED vars
  BY <1>4 DEF vars, IInv, TypeOK, Indexed, CallsKnown, ApprovedBefore,
              PendingIsIndexed, AllowedWasApproved
<1> QED BY <1>1, <1>2, <1>3, <1>4, RecordStep, AnswerStep, EvaluateStep, DecideStep
        DEF Next

LEMMA Invariance == Spec => []IInv
  BY InitInv, StepInv, PTL DEF Spec

\* The variables of the service keep their types for any number of calls.
THEOREM TypeCorrect == Spec => []TypeOK
  BY Invariance, PTL DEF IInv

\* At most one request of a fingerprint is pending, and evaluations find it.
THEOREM PendingFound == Spec => []PendingIsIndexed
  BY Invariance, PTL DEF IInv

\* No action that requires approval is let through on a request that no approve
\* call approved.
THEOREM NoneUnapproved == Spec => []AllowedWasApproved
  BY Invariance, PTL DEF IInv

\* A decided or expired request is decided again only by a decision that was
\* under way.
THEOREM DecidedAgainByRacing == Spec => OnlyRacingDecisions
<1> DEFINE Racing(r) ==
             status[r] \in Status \ {"pending"} /\ status'[r] # status[r]
             => \E c \in Calls : call[c].id = r /\ call[c].does = status'[r]
<1>1. ASSUME IInv, [Next]_vars PROVE \A r \in Requests : Racing(r)
  <2>1. ASSUME NEW q \in Requests, ExpireIfNeeded(q) PROVE \A r \in Requests : Racing(r)
    BY <1>1, <2>1 DEF IInv, TypeOK, ExpireIfNeeded, Expired
  <2>2. ASSUME NEW f \in Fingerprints, NEW q \in Requests, NewRequest(f, q)
        PROVE  \A r \in Requests : Racing(r)
    BY <1>1, <2>2 DEF IInv, TypeOK, NewRequest, Status, Decision
  <2>3. ASSUME NEW c \in Calls, Record(c) PROVE \A r \in Requests : Racing(r)
    BY <1>1, <2>3 DEF IInv, TypeOK, Record
  <2>4. CASE UNCHANGED status
    BY <2>4
  <2>5. ASSUME NEW c \in Calls, NEW f \in Fingerprints, Evaluate(c, f)
        PROVE  \A r \in Requests : Racing(r)
    <3>1. CASE index[f] = NoRequest
      BY <2>2, <2>5, <3>1 DEF Evaluate
    <3>2. CASE index[f] # NoRequest
      BY <1>1, <2>1, <2>5, <3>2 DEF Evaluate, IInv, TypeOK
    <3> QED BY <3>1, <3>2
  <2>6. ASSUME NEW r \in Requests, Elapse(r) \/ Get(r) PROVE \A q \in Requests : Racing(q)
    BY <2>1, <2>4, <2>6 DEF Elapse, Get
  <2>7. ASSUME NEW f \in Fingerprints, CreateRequest(f) PROVE \A r \in Requests : Racing(r)
    BY <2>2, <2>7 DEF CreateRequest
  <2>8. ASSUME NEW c \in Calls, Answer(c) \/ AuditFails(c) PROVE \A r \in Requests : Racing(r)
    BY <2>4, <2>8 DEF Answer, AuditFails
  <2>9. ASSUME NEW c \in Calls, NEW q \in Requests, NEW decision \in Decision,
               Decide(c, q, decision)
        PROVE  \A r \in Requests : Racing(r)
    BY <2>1, <2>9 DEF Decide
  <2>10. CASE UNCHANGED vars
    BY <2>4, <2>10 DEF vars
  <2> QED BY <1>1, <2>3, <2>5, <2>6, <2>7, <2>8, <2>9, <2>10 DEF Next
<1>2. IInv /\ [Next]_vars => [\A r \in Requests : Racing(r)]_vars
  BY <1>1
<1> QED BY <1>2, Invariance, PTL DEF Spec, OnlyRacingDecisions

-----------------------------------------------------------------------------
(* The kill switch.                                                        *)

\* Entries of a kind that landed or are awaited.
CallsIn(calls, kind) == {c \in KsCallers : calls[c] = kind}
Written(kind) == ksLog[kind] + Cardinality(CallsIn(ksCall, kind))

\* The accounts hold while calls are under way, of what they will have written.
AccountsKept ==
  ksLost = {} =>
    Written("activate") = Written("deactivate") + (IF ks.status = "inactive" THEN 0 ELSE 1)

KsInv == KsTypeOK /\ ActiveOnlyAfterSla /\ ActivatingIsArmed /\ AccountsKept

LEMMA CallsInFinite ==
  ASSUME NEW calls, NEW kind
  PROVE  IsFiniteSet(CallsIn(calls, kind)) /\ Cardinality(CallsIn(calls, kind)) \in Nat
  BY KsAssumption, FS_Subset, FS_CardinalityType DEF CallsIn

\* What a caller's turn changes in the number of those of its kind.
LEMMA CallMoves ==
  ASSUME NEW calls, NEW after, NEW c \in KsCallers, NEW to, NEW kind,
         after[c] = to, \A d \in KsCallers : d # c => after[d] = calls[d]
  PROVE  LET old == Cardinality(CallsIn(calls, kind))
             new == Cardinality(CallsIn(after, kind))
         IN  /\ to = kind /\ calls[c] # kind => new = old + 1
             /\ to # kind /\ calls[c] = kind => new = old - 1
             /\ (to = kind <=> calls[c] = kind) => new = old
<1> DEFINE old == CallsIn(calls, kind)
           new == CallsIn(after, kind)
<1>1. IsFiniteSet(old) /\ Cardinality(old) \in Nat
  BY CallsInFinite
<1>3. c \in old <=> calls[c] = kind
  BY DEF CallsIn
<1>4. new = IF to = kind THEN old \cup {c} ELSE old \ {c}
  BY DEF CallsIn
<1> HIDE DEF old, new
<1>5. Cardinality(old \cup {c}) = IF c \in old THEN Cardinality(old) ELSE Cardinality(old) + 1
  BY <1>1, FS_AddElement
<1>6. Cardinality(old \ {c}) = IF c \in old THEN Cardinality(old) - 1 ELSE Cardinality(old)
  BY <1>1, FS_RemoveElement
<1>7. /\ to = kind /\ calls[c] # kind => Cardinality(new) = Cardinality(old) + 1
      /\ to # kind /\ calls[c] = kind => Cardinality(new) = Cardinality(old) - 1
      /\ (to = kind <=> calls[c] = kind) => Cardinality(new) = Cardinality(old)
  BY <1>1, <1>3, <1>4, <1>5, <1>6
<1> QED BY <1>7 DEF old, new

LEMMA KsStepInv ==
  ASSUME KsInv, [KsNext]_ksVars
  PROVE  KsInv'
<1> USE KsAssumption
<1>1. KsTypeOK /\ AccountsKept
  BY DEF KsInv
<1>2. \A k \in KsKinds : ksLog[k] \in Nat /\ Cardinality(CallsIn(ksCall, k)) \in Nat
  BY <1>1, CallsInFinite DEF KsTypeOK
<1>3. {"activate", "deactivate"} \subseteq KsKinds /\ KsKinds \subseteq KsCallStates
  BY DEF KsKinds, KsCallStates
<1> DEFINE Moved(c, to, kind) ==
             /\ to = kind /\ ksCall[c] # kind => Cardinality(CallsIn(ksCall', kind)) = Cardinality(CallsIn(ksCall, kind)) + 1
             /\ to # kind /\ ksCall[c] = kind => Cardinality(CallsIn(ksCall', kind)) = Cardinality(CallsIn(ksCall, kind)) - 1
             /\ (to = kind <=> ksCall[c] = kind) => Cardinality(CallsIn(ksCall', kind)) = Cardinality(CallsIn(ksCall, kind))
<1>moves. ASSUME NEW c \in KsCallers, NEW to, ksCall' = [ksCall EXCEPT ![c] = to]
       PROVE  Moved(c, to, "activate") /\ Moved(c, to, "deactivate")
  <2>1. ksCall'[c] = to /\ \A d \in KsCallers : d # c => ksCall'[d] = ksCall[d]
    BY <1>1, <1>moves DEF KsTypeOK
  <2> QED BY <2>1, CallMoves
<1> HIDE DEF Moved
<1>kinds. "activate" # "deactivate" /\ "activate" \in KsKinds /\ "deactivate" \in KsKinds
  BY DEF KsKinds
<1>4. ASSUME NEW c \in KsCallers, NEW to \in KsCallStates, ~Awaiting(c),
             to \notin {"activate", "deactivate"},
             ksCall' = [ksCall EXCEPT ![c] = to], UNCHANGED <<ks, ksLog, ksLost>>
      PROVE  AccountsKept'
  <2>1. ksCall[c] # "activate" /\ ksCall[c] # "deactivate"
    BY <1>3, <1>4 DEF Awaiting
  <2>2. /\ Cardinality(CallsIn(ksCall', "activate")) = Cardinality(CallsIn(ksCall, "activate"))
        /\ Cardinality(CallsIn(ksCall', "deactivate")) = Cardinality(CallsIn(ksCall, "deactivate"))
    BY <1>1, <1>2, <1>3, <1>4, <2>1, <1>moves, <1>kinds DEF Moved
  <2> QED BY <1>1, <1>4, <2>2 DEF AccountsKept, Written
<1>5. ASSUME NEW c \in KsCallers, Activate(c) PROVE KsInv'
  <2>1. KsTypeOK'
    BY <1>1, <1>5 DEF Activate, KsTypeOK, KsStates, KsCallStates, KsKinds,
                      ScheduleActivationFinalize
  <2>2. ActiveOnlyAfterSla' /\ ActivatingIsArmed'
    BY <1>5 DEF Activate, ActiveOnlyAfterSla, ActivatingIsArmed, ScheduleActivationFinalize
  <2>3. ksCall[c] # "activate" /\ ksCall[c] # "deactivate"
    BY <1>3, <1>5 DEF Activate, Awaiting
  <2>4. /\ Cardinality(CallsIn(ksCall', "activate")) = Cardinality(CallsIn(ksCall, "activate")) + 1
        /\ Cardinality(CallsIn(ksCall', "deactivate")) = Cardinality(CallsIn(ksCall, "deactivate"))
    BY <1>1, <1>2, <1>3, <1>5, <2>3, <1>moves, <1>kinds DEF Activate, Moved
  <2>5. AccountsKept'
    BY <1>1, <1>2, <1>3, <1>5, <2>4 DEF Activate, AccountsKept, Written
  <2> QED BY <2>1, <2>2, <2>5 DEF KsInv
<1>6. ASSUME NEW c \in KsCallers, ActivateAgain(c) PROVE KsInv'
  <2>1. KsTypeOK'
    BY <1>1, <1>6 DEF ActivateAgain, KsTypeOK, KsCallStates
  <2>2. AccountsKept'
    BY <1>4, <1>6 DEF ActivateAgain, KsCallStates
  <2> QED BY <1>6, <2>1, <2>2 DEF KsInv, ActivateAgain, ActiveOnlyAfterSla, ActivatingIsArmed
<1>7. ASSUME NEW c \in KsCallers, Deactivate(c) PROVE KsInv'
  <2> DEFINE to == IF ks.status = "inactive" THEN "redundant" ELSE "deactivate"
  <2>1. to \in KsCallStates /\ ksCall' = [ksCall EXCEPT ![c] = to]
    BY <1>7 DEF Deactivate, KsCallStates, KsKinds
  <2>2. KsTypeOK'
    BY <1>1, <1>7, <2>1 DEF Deactivate, KsTypeOK, KsStates, CancelActivationFinalize
  <2>3. ActiveOnlyAfterSla' /\ ActivatingIsArmed'
    BY <1>7 DEF Deactivate, ActiveOnlyAfterSla, ActivatingIsArmed
  <2>4. CASE ks.status = "inactive"
    <3>1. AccountsKept'
      <4>1. ksCall[c] # "activate" /\ ksCall[c] # "deactivate"
        BY <1>3, <1>7 DEF Deactivate, Awaiting
      <4>2. /\ Cardinality(CallsIn(ksCall', "activate")) = Cardinality(CallsIn(ksCall, "activate"))
            /\ Cardinality(CallsIn(ksCall', "deactivate")) = Cardinality(CallsIn(ksCall, "deactivate"))
        <5>1. ksCall' = [ksCall EXCEPT ![c] = "redundant"]
          BY <1>7, <2>4 DEF Deactivate
        <5>2. Moved(c, "redundant", "activate") /\ Moved(c, "redundant", "deactivate")
          BY <5>1, <1>moves
        <5> QED BY <1>2, <4>1, <5>2, <1>kinds DEF Moved
      <4> QED BY <1>1, <1>7, <2>4, <4>2 DEF Deactivate, AccountsKept, Written
    <3> QED BY <2>2, <2>3, <3>1 DEF KsInv
  <2>5. CASE ks.status # "inactive"
    <3>1. AccountsKept'
      <4>1. ksCall[c] # "activate" /\ ksCall[c] # "deactivate"
        BY <1>3, <1>7 DEF Deactivate, Awaiting
      <4>2. /\ Cardinality(CallsIn(ksCall', "activate")) = Cardinality(CallsIn(ksCall, "activate"))
            /\ Cardinality(CallsIn(ksCall', "deactivate")) = Cardinality(CallsIn(ksCall, "deactivate")) + 1
        <5>1. ksCall' = [ksCall EXCEPT ![c] = "deactivate"]
          BY <1>7, <2>5 DEF Deactivate
        <5>2. Moved(c, "deactivate", "activate") /\ Moved(c, "deactivate", "deactivate")
          BY <5>1, <1>moves
        <5> QED BY <1>2, <4>1, <5>2, <1>kinds DEF Moved
      <4> QED BY <1>1, <1>2, <1>3, <1>7, <2>5, <4>2 DEF Deactivate, AccountsKept, Written
    <3> QED BY <2>2, <2>3, <3>1 DEF KsInv
  <2> QED BY <2>4, <2>5
<1>8. ASSUME NEW c \in KsCallers, NEW a \in KsActions, EnforceBlocks(c, a) \/ EnforcePasses(c, a)
      PROVE  KsInv'
  <2>1. PICK to \in {"block", "passed"} : ksCall' = [ksCall EXCEPT ![c] = to]
    BY <1>8 DEF EnforceBlocks, EnforcePasses
  <2>2. to \in KsCallStates /\ to \notin {"activate", "deactivate"}
    BY DEF KsCallStates, KsKinds
  <2>3. ~Awaiting(c) /\ UNCHANGED <<ks, ksTimer, ksClock, ksLog, ksLost>>
    BY <1>8 DEF EnforceBlocks, EnforcePasses
  <2>4. ksOps' \in 0..KsMaxOps
    BY <1>1, <1>8 DEF EnforceBlocks, EnforcePasses, KsTypeOK
  <2>5. KsTypeOK'
    BY <1>1, <2>1, <2>2, <2>3, <2>4 DEF KsTypeOK
  <2>6. AccountsKept'
    BY <1>4, <2>1, <2>2, <2>3
  <2> QED BY <2>3, <2>5, <2>6 DEF KsInv, ActiveOnlyAfterSla, ActivatingIsArmed
<1>9. ASSUME NEW c \in KsCallers, AuditLands(c) PROVE KsInv'
  <2> DEFINE kind == ksCall[c]
             to == IF kind = "block" THEN "blocked" ELSE "done"
  <2>1. /\ kind \in KsKinds /\ to \in KsCallStates /\ to \notin {"activate", "deactivate"}
        /\ ksCall' = [ksCall EXCEPT ![c] = to]
        /\ ksLog' = [ksLog EXCEPT ![kind] = @ + 1]
        /\ UNCHANGED <<ks, ksTimer, ksClock, ksLost, ksOps>>
    BY <1>9 DEF AuditLands, Awaiting, KsCallStates
  <2>2. KsTypeOK'
    BY <1>1, <2>1 DEF KsTypeOK
  <2>3. \A k \in {"activate", "deactivate"} : Written(k)' = Written(k)
    <3> SUFFICES ASSUME NEW k \in {"activate", "deactivate"} PROVE Written(k)' = Written(k)
      OBVIOUS
    <3>1. Cardinality(CallsIn(ksCall', k)) = Cardinality(CallsIn(ksCall, k)) - (IF kind = k THEN 1 ELSE 0)
      <4>1. Moved(c, to, k)
        BY <2>1, <1>moves
      <4> HIDE DEF to
      <4> QED BY <1>2, <1>kinds, <2>1, <4>1 DEF Moved
    <3>2. ksLog'[k] = ksLog[k] + (IF kind = k THEN 1 ELSE 0)
      BY <1>1, <1>2, <1>3, <2>1 DEF KsTypeOK
    <3> QED BY <1>2, <1>3, <3>1, <3>2 DEF Written
  <2>4. AccountsKept'
    BY <1>1, <2>1, <2>3 DEF AccountsKept
  <2> QED BY <2>1, <2>2, <2>4 DEF KsInv, ActiveOnlyAfterSla, ActivatingIsArmed
<1>10. ASSUME NEW c \in KsCallers, EventAuditFails(c) PROVE KsInv'
  <2>1. KsTypeOK'
    BY <1>1, <1>10 DEF EventAuditFails, KsTypeOK, Awaiting, KsCallStates
  <2>2. AccountsKept'
    BY <1>10 DEF EventAuditFails, AccountsKept
  <2> QED BY <1>10, <2>1, <2>2 DEF KsInv, EventAuditFails, ActiveOnlyAfterSla, ActivatingIsArmed
<1>11. CASE FinalizeActivation
  <2>1. KsTypeOK'
    BY <1>1, <1>11 DEF FinalizeActivation, KsTypeOK, KsStates
  <2>2. ActiveOnlyAfterSla' /\ ActivatingIsArmed'
    BY <1>1, <1>11 DEF KsInv, FinalizeActivation, ActiveOnlyAfterSla, ActivatingIsArmed, KsTypeOK, KsStates
  <2>3. ks'.status = "inactive" <=> ks.status = "inactive"
    BY <1>1, <1>11 DEF FinalizeActivation, KsTypeOK, KsStates
  <2>4. AccountsKept'
    BY <1>1, <1>11, <2>3 DEF FinalizeActivation, AccountsKept, Written, CallsIn
  <2> QED BY <2>1, <2>2, <2>4 DEF KsInv
<1>12. CASE KsTick
  BY <1>1, <1>12 DEF KsInv, KsTick, KsTypeOK, KsStates, ActiveOnlyAfterSla, ActivatingIsArmed, AccountsKept,
                     Written, CallsIn
<1>13. CASE UNCHANGED ksVars
  BY <1>1, <1>13 DEF KsInv, ksVars, KsTypeOK, ActiveOnlyAfterSla, ActivatingIsArmed, AccountsKept,
                     Written, CallsIn
<1> QED
  BY <1>5, <1>6, <1>7, <1>8, <1>9, <1>10, <1>11, <1>12, <1>13 DEF KsNext

LEMMA KsInitInv == KsInit => KsInv
<1> SUFFICES ASSUME KsInit PROVE KsInv
  OBVIOUS
<1>1. KsTypeOK
  BY KsAssumption DEF KsInit, KsTypeOK, KsStates, KsCallStates
<1>2. CallsIn(ksCall, "activate") = {} /\ CallsIn(ksCall, "deactivate") = {}
  BY DEF KsInit, CallsIn
<1>3. ksLog["activate"] = 0 /\ ksLog["deactivate"] = 0
  BY DEF KsInit, KsKinds
<1> QED
  BY <1>1, <1>2, <1>3, FS_EmptySet
     DEF KsInit, KsInv, ActiveOnlyAfterSla, ActivatingIsArmed, AccountsKept, Written

LEMMA AlwaysKsInv == KsSpec => []KsInv
  BY KsInitInv, KsStepInv, PTL DEF KsSpec

\* The kill switch keeps the types of its state.
THEOREM KillSwitchTypeCorrect == KsSpec => []KsTypeOK
  BY AlwaysKsInv, PTL DEF KsInv

\* Timers, calls and entries in any order leave no activating switch without
\* its timer, activate none before its SLA and account for each change.
THEOREM KillSwitchKept == KsSpec => []KillSwitchSound
<1>1. KsInv => ActivationsAccounted
  <2> SUFFICES ASSUME KsInv, ksLost = {}, \A c \in KsCallers : ~Awaiting(c)
               PROVE  ksLog["activate"] = ksLog["deactivate"] + (IF ks.status = "inactive" THEN 0 ELSE 1)
    BY DEF ActivationsAccounted
  <2>1. CallsIn(ksCall, "activate") = {} /\ CallsIn(ksCall, "deactivate") = {}
    BY DEF CallsIn, Awaiting, KsKinds
  <2>2. ksLog["activate"] \in Nat /\ ksLog["deactivate"] \in Nat
    BY DEF KsInv, KsTypeOK, KsKinds
  <2>3. Written("activate") = ksLog["activate"] /\ Written("deactivate") = ksLog["deactivate"]
    BY <2>1, <2>2, FS_EmptySet DEF Written
  <2> QED BY <2>3 DEF KsInv, AccountsKept
<1>2. KsInv => KillSwitchSound
  BY <1>1 DEF KsInv, KillSwitchSound
<1> QED BY <1>2, AlwaysKsInv, PTL

-----------------------------------------------------------------------------
(* The hooks of an action.                                                 *)

\* The entries that announce the first n hooks, in their order.
Announced(n) ==
  [m \in 1..n |-> IF m <= PreCount THEN <<"pre", "evaluate", m>>
                  ELSE <<"post", "evaluate", m - PreCount>>]

\* The log ends with an entry of a hook that vetoed or failed.
EndedBy(n, phase, event, i) == hkLog = Append(Announced(n), <<phase, event, i>>)

\* What the log holds in each part of the call, before the action ran ...
BeforeAction ==
  \/ hk.pc = "preEvaluate" /\ hk.i <= PreCount /\ hkLog = Announced(hk.i - 1)
  \/ hk.pc \in {"preRun", "preVeto", "preFailure"} /\ hk.i <= PreCount /\ hkLog = Announced(hk.i)
  \/ hk.pc = "execute" /\ hkLog = Announced(PreCount)
  \/ hk.pc = "vetoed" /\ hk.i <= PreCount /\ EndedBy(hk.i, "pre", "veto", hk.i)
  \/ hk.pc = "hookFailed" /\ hk.i <= PreCount /\ EndedBy(hk.i, "pre", "failure", hk.i)
  \/ hk.pc = "auditFailed" /\ \E n \in 0..PreCount : hkLog = Announced(n)

\* ... and after.
AfterAction ==
  \/ hk.pc = "postEvaluate" /\ hk.i <= PostCount /\ hkLog = Announced(PreCount + hk.i - 1)
  \/ hk.pc \in {"postRun", "postFailure"} /\ hk.i <= PostCount /\ hkLog = Announced(PreCount + hk.i)
  \/ /\ hk.pc = (IF hkAction = "done" THEN "resolved" ELSE "actionFailed")
     /\ hkLog = Announced(PreCount + PostCount)
  \/ hk.pc = "hookFailed" /\ hk.i <= PostCount /\ EndedBy(PreCount + hk.i, "post", "failure", hk.i)
  \/ hk.pc = "auditFailed" /\ \E n \in PreCount..(PreCount + PostCount) : hkLog = Announced(n)

HkInv ==
  /\ hk \in [pc : HookPcs, i : 1..(PreCount + PostCount + 1)]
  /\ hkAction \in {"no", "done", "failed"}
  /\ IF hkAction = "no" THEN BeforeAction ELSE AfterAction

Hooks == PreCount + PostCount

LEMMA AnnouncedType ==
  ASSUME NEW n \in 0..Hooks
  PROVE  /\ Announced(n) \in Seq(HookEvents)
         /\ Len(Announced(n)) = n
         /\ DOMAIN Announced(n) = 1..n
<1> USE HookAssumption
<1>1. \A m \in 1..n : Announced(n)[m] \in HookEvents
  BY DEF Announced, HookEvents, Hooks
<1>2. n \in Nat
  BY DEF Hooks
<1> QED BY <1>1, <1>2 DEF Announced

\* The next hook's entry.
LEMMA AnnouncedNext ==
  ASSUME NEW n \in 0..(Hooks - 1)
  PROVE  Append(Announced(n),
                IF n + 1 <= PreCount THEN <<"pre", "evaluate", n + 1>>
                ELSE <<"post", "evaluate", n + 1 - PreCount>>) = Announced(n + 1)
<1> USE HookAssumption
<1> DEFINE e == IF n + 1 <= PreCount THEN <<"pre", "evaluate", n + 1>>
                ELSE <<"post", "evaluate", n + 1 - PreCount>>
<1>1. n \in Nat /\ n \in 0..Hooks /\ n + 1 \in 0..Hooks
  BY DEF Hooks
<1>2. Announced(n) \in Seq(HookEvents) /\ Len(Announced(n)) = n
  BY <1>1, AnnouncedType
<1>3. e \in HookEvents
  BY <1>1 DEF HookEvents, Hooks
<1> HIDE DEF e
<1>4. /\ Append(Announced(n), e) \in Seq(HookEvents) /\ Len(Append(Announced(n), e)) = n + 1
      /\ Append(Announced(n), e)[n + 1] = e
      /\ \A m \in 1..n : Append(Announced(n), e)[m] = Announced(n)[m]
  BY <1>1, <1>2, <1>3
<1>5. \A m \in 1..(n + 1) : Append(Announced(n), e)[m] = Announced(n + 1)[m]
  <2>1. \A m \in 1..n : Announced(n)[m] = Announced(n + 1)[m]
    BY <1>1 DEF Announced
  <2>2. Announced(n + 1)[n + 1] = e
    BY <1>1 DEF e, Announced
  <2> QED BY <1>1, <1>4, <2>1, <2>2
<1>6. Announced(n + 1) \in Seq(HookEvents) /\ Len(Announced(n + 1)) = n + 1
  BY <1>1, AnnouncedType
<1>7. Append(Announced(n), e) = Announced(n + 1)
  BY <1>4, <1>5, <1>6, SeqEqual
<1> QED BY <1>7 DEF e

LEMMA HkInitInv == HkInit => HkInv
<1> SUFFICES ASSUME HkInit PROVE HkInv
  OBVIOUS
<1> USE HookAssumption
<1>1. Announced(0) = <<>>
  BY DEF Announced
<1> QED BY <1>1 DEF HkInit, HkInv, AtPre, BeforeAction, HookPcs

LEMMA HkStepInv ==
  ASSUME HkInv, [HkNext]_hkVars
  PROVE  HkInv'
<1> USE HookAssumption
<1> DEFINE Typed == /\ hk \in [pc : HookPcs, i : 1..(PreCount + PostCount + 1)]
                    /\ hkAction \in {"no", "done", "failed"}
<1>1. Typed
  BY DEF HkInv
<1>2. CASE PreEvaluated
  <2>1. hkAction = "no" /\ BeforeAction
    BY <1>1, <1>2 DEF PreEvaluated, HkInv, AfterAction
  <2>2. hk.i \in 1..PreCount /\ hkLog = Announced(hk.i - 1)
    BY <1>1, <1>2, <2>1 DEF PreEvaluated, BeforeAction
  <2>3. hkLog' = Append(Announced(hk.i - 1), <<"pre", "evaluate", hk.i>>)
    BY <1>2, <2>2 DEF PreEvaluated, Landed, Phase
  <2>4. hkLog' = Announced(hk.i)
    <3> DEFINE n == hk.i - 1
    <3>1. n \in 0..(Hooks - 1) /\ n + 1 = hk.i /\ n + 1 <= PreCount
      BY <2>2 DEF Hooks
    <3>2. hkLog' = Append(Announced(n), <<"pre", "evaluate", n + 1>>)
      BY <2>3, <3>1
    <3> HIDE DEF n
    <3>3. hkLog' = Announced(n + 1)
      BY <3>1, <3>2, AnnouncedNext
    <3> QED BY <3>1, <3>3
  <2>5. hk'.pc = "preRun" /\ hk'.i = hk.i /\ hk' \in [pc : HookPcs, i : 1..(PreCount + PostCount + 1)]
    BY <1>1, <1>2 DEF PreEvaluated, HkGoto, HookPcs
  <2> QED BY <1>2, <2>1, <2>2, <2>4, <2>5 DEF PreEvaluated, HkInv, BeforeAction
<1>3. CASE PreAllows
  <2>1. hkAction = "no" /\ BeforeAction
    BY <1>1, <1>3 DEF PreAllows, HkInv, AfterAction
  <2>2. hk.i \in 1..PreCount /\ hkLog = Announced(hk.i)
    BY <1>1, <1>3, <2>1 DEF PreAllows, BeforeAction
  <2>3. CASE hk.i + 1 <= PreCount
    <3>1. hk' = [pc |-> "preEvaluate", i |-> hk.i + 1]
      BY <1>3, <2>3 DEF PreAllows, AtPre
    <3> QED BY <1>3, <2>1, <2>2, <2>3, <3>1 DEF PreAllows, HkInv, BeforeAction, HookPcs
  <2>4. CASE ~(hk.i + 1 <= PreCount)
    <3>1. hk' = [pc |-> "execute", i |-> 1] /\ hk.i = PreCount
      BY <1>3, <2>2, <2>4 DEF PreAllows, AtPre
    <3> QED BY <1>3, <2>1, <2>2, <3>1 DEF PreAllows, HkInv, BeforeAction, HookPcs
  <2> QED BY <2>3, <2>4
<1>4. CASE PreVetoes \/ PreThrows \/ VetoAuditFails
  <2>1. hkAction = "no" /\ BeforeAction /\ hk.pc \in {"preRun", "preVeto"}
    BY <1>1, <1>4 DEF PreVetoes, PreThrows, VetoAuditFails, HkInv, AfterAction
  <2>2. hk.i <= PreCount /\ hkLog = Announced(hk.i)
    BY <2>1 DEF BeforeAction
  <2>3. /\ hk'.pc \in {"preVeto", "preFailure"} /\ hk'.i = hk.i
        /\ hk' \in [pc : HookPcs, i : 1..(PreCount + PostCount + 1)]
        /\ UNCHANGED <<hkAction, hkLog>>
    BY <1>1, <1>4 DEF PreVetoes, PreThrows, VetoAuditFails, HkGoto, HookPcs
  <2> QED BY <2>1, <2>2, <2>3 DEF HkInv, BeforeAction
<1>5. CASE VetoAudited
  <2>1. hkAction = "no" /\ BeforeAction
    BY <1>1, <1>5 DEF VetoAudited, HkInv, AfterAction
  <2>2. hk.i <= PreCount /\ hkLog = Announced(hk.i)
    BY <1>5, <2>1 DEF VetoAudited, BeforeAction
  <2>3. hkLog' = Append(Announced(hk.i), <<"pre", "veto", hk.i>>)
    BY <1>5, <2>2 DEF VetoAudited, Landed, Phase
  <2>4. /\ hk'.pc = "vetoed" /\ hk'.i = hk.i
        /\ hk' \in [pc : HookPcs, i : 1..(PreCount + PostCount + 1)]
        /\ UNCHANGED hkAction
    BY <1>1, <1>5 DEF VetoAudited, HkGoto, HookPcs
  <2> QED BY <2>1, <2>2, <2>3, <2>4 DEF HkInv, BeforeAction, EndedBy
<1>6. CASE FailureAudited
  <2>1. /\ hk'.pc = "hookFailed" /\ hk'.i = hk.i
        /\ hk' \in [pc : HookPcs, i : 1..(PreCount + PostCount + 1)]
        /\ UNCHANGED hkAction
    BY <1>1, <1>6 DEF FailureAudited, HkGoto, HookPcs
  <2>2. CASE hkAction = "no"
    <3>1. hk.pc = "preFailure" /\ hk.i <= PreCount /\ hkLog = Announced(hk.i)
      BY <1>6, <2>2 DEF FailureAudited, HkInv, BeforeAction
    <3>2. hkLog' = Append(Announced(hk.i), <<"pre", "failure", hk.i>>)
      BY <1>6, <3>1 DEF FailureAudited, Landed, Phase
    <3> QED BY <1>1, <2>1, <2>2, <3>1, <3>2 DEF HkInv, BeforeAction, EndedBy
  <2>3. CASE hkAction # "no"
    <3>1. hk.pc = "postFailure" /\ hk.i <= PostCount /\ hkLog = Announced(PreCount + hk.i)
      BY <1>6, <2>3 DEF FailureAudited, HkInv, AfterAction
    <3>2. hkLog' = Append(Announced(PreCount + hk.i), <<"post", "failure", hk.i>>)
      BY <1>6, <3>1 DEF FailureAudited, Landed, Phase
    <3> QED BY <1>1, <2>1, <2>3, <3>1, <3>2 DEF HkInv, AfterAction, EndedBy
  <2> QED BY <2>2, <2>3
<1>7. ASSUME NEW outcome \in {"done", "failed"}, Execute(outcome) PROVE HkInv'
  <2>1. hkLog = Announced(PreCount)
    BY <1>7 DEF Execute, HkInv, BeforeAction, AfterAction
  <2>2. hkAction' = outcome /\ hkLog' = hkLog
    BY <1>7 DEF Execute
  <2>3. CASE 1 <= PostCount
    <3>1. hk' = [pc |-> "postEvaluate", i |-> 1]
      BY <1>7, <2>3 DEF Execute, AtPost
    <3>2. PreCount + 1 - 1 = PreCount
      OBVIOUS
    <3> QED BY <2>1, <2>2, <2>3, <3>1, <3>2 DEF HkInv, AfterAction, HookPcs
  <2>4. CASE ~(1 <= PostCount)
    <3>1. /\ hk' = [pc |-> IF outcome = "done" THEN "resolved" ELSE "actionFailed", i |-> 1]
          /\ PreCount + PostCount = PreCount
      BY <1>7, <2>4 DEF Execute, AtPost
    <3> QED BY <2>1, <2>2, <3>1 DEF HkInv, AfterAction, HookPcs
  <2> QED BY <2>3, <2>4
<1>8. CASE PostEvaluated
  <2>1. hkAction # "no" /\ AfterAction
    BY <1>1, <1>8 DEF PostEvaluated, HkInv, BeforeAction
  <2>2. hk.i \in 1..PostCount /\ hkLog = Announced(PreCount + hk.i - 1)
    BY <1>1, <1>8, <2>1 DEF PostEvaluated, AfterAction
  <2>3. hkLog' = Append(Announced(PreCount + hk.i - 1), <<"post", "evaluate", hk.i>>)
    BY <1>8, <2>2 DEF PostEvaluated, Landed, Phase
  <2>4. hkLog' = Announced(PreCount + hk.i)
    <3> DEFINE n == PreCount + hk.i - 1
    <3>1. /\ n \in 0..(Hooks - 1) /\ n + 1 = PreCount + hk.i
          /\ ~(n + 1 <= PreCount) /\ n + 1 - PreCount = hk.i
      BY <2>2 DEF Hooks
    <3>2. hkLog' = Append(Announced(n), <<"post", "evaluate", n + 1 - PreCount>>)
      BY <2>3, <3>1
    <3> HIDE DEF n
    <3>3. hkLog' = Announced(n + 1)
      BY <3>1, <3>2, AnnouncedNext
    <3> QED BY <3>1, <3>3
  <2>5. hk'.pc = "postRun" /\ hk'.i = hk.i /\ hk' \in [pc : HookPcs, i : 1..(PreCount + PostCount + 1)]
    BY <1>1, <1>8 DEF PostEvaluated, HkGoto, HookPcs
  <2> QED BY <1>1, <1>8, <2>1, <2>2, <2>4, <2>5 DEF PostEvaluated, HkInv, AfterAction
<1>9. CASE PostRuns
  <2>1. hkAction # "no" /\ AfterAction
    BY <1>1, <1>9 DEF PostRuns, HkInv, BeforeAction
  <2>2. hk.i \in 1..PostCount /\ hkLog = Announced(PreCount + hk.i)
    BY <1>1, <1>9, <2>1 DEF PostRuns, AfterAction
  <2>3. CASE hk.i + 1 <= PostCount
    <3>1. hk' = [pc |-> "postEvaluate", i |-> hk.i + 1]
      BY <1>9, <2>3 DEF PostRuns, AtPost
    <3>2. PreCount + (hk.i + 1) - 1 = PreCount + hk.i
      BY <2>2
    <3> QED BY <1>1, <1>9, <2>1, <2>2, <2>3, <3>1, <3>2 DEF PostRuns, HkInv, AfterAction, HookPcs
  <2>4. CASE ~(hk.i + 1 <= PostCount)
    <3>1. /\ hk' = [pc |-> IF hkAction = "done" THEN "resolved" ELSE "actionFailed", i |-> hk.i + 1]
          /\ hk.i = PostCount
      BY <1>9, <2>2, <2>4 DEF PostRuns, AtPost
    <3> QED BY <1>1, <1>9, <2>1, <2>2, <3>1 DEF PostRuns, HkInv, AfterAction, HookPcs
  <2> QED BY <2>3, <2>4
<1>10. CASE PostThrows
  <2>1. hkAction # "no" /\ AfterAction
    BY <1>1, <1>10 DEF PostThrows, HkInv, BeforeAction
  <2>2. hk.i <= PostCount /\ hkLog = Announced(PreCount + hk.i)
    BY <1>10, <2>1 DEF PostThrows, AfterAction
  <2>3. /\ hk'.pc = "postFailure" /\ hk'.i = hk.i
        /\ hk' \in [pc : HookPcs, i : 1..(PreCount + PostCount + 1)]
        /\ UNCHANGED <<hkAction, hkLog>>
    BY <1>1, <1>10 DEF PostThrows, HkGoto, HookPcs
  <2> QED BY <1>1, <2>1, <2>2, <2>3 DEF HkInv, AfterAction
<1>11. CASE HookAuditFails
  <2>1. /\ hk'.pc = "auditFailed" /\ UNCHANGED <<hkAction, hkLog>>
        /\ hk' \in [pc : HookPcs, i : 1..(PreCount + PostCount + 1)]
    BY <1>1, <1>11 DEF HookAuditFails, HkGoto, HookPcs
  <2>2. CASE hkAction = "no"
    <3>1. \E n \in 0..PreCount : hkLog = Announced(n)
      BY <1>1, <1>11, <2>2 DEF HookAuditFails, HkInv, BeforeAction
    <3> QED BY <1>1, <2>1, <2>2, <3>1 DEF HkInv, BeforeAction
  <2>3. CASE hkAction # "no"
    <3>1. \E n \in PreCount..(PreCount + PostCount) : hkLog = Announced(n)
      BY <1>1, <1>11, <2>3 DEF HookAuditFails, HkInv, AfterAction
    <3> QED BY <1>1, <2>1, <2>3, <3>1 DEF HkInv, AfterAction
  <2> QED BY <2>2, <2>3
<1>12. CASE UNCHANGED hkVars
  BY <1>12 DEF hkVars, HkInv, BeforeAction, AfterAction, EndedBy
<1> QED
  BY <1>2, <1>3, <1>4, <1>5, <1>6, <1>7, <1>8, <1>9, <1>10, <1>11, <1>12 DEF HkNext

LEMMA AlwaysHkInv == HkSpec => []HkInv
  BY HkInitInv, HkStepInv, PTL DEF HkSpec

\* The hooks keep the types of the call and of its entries.
THEOREM HooksTypeCorrect == HkSpec => []HkTypeOK
<1>1. HkInv => HkTypeOK
  <2> SUFFICES ASSUME HkInv PROVE hkLog \in Seq(HookEvents)
    BY DEF HkInv, HkTypeOK
  <2> USE HookAssumption
  <2>1. hk.i \in 1..(PreCount + PostCount + 1)
    BY DEF HkInv
  <2>2. PICK n \in 0..Hooks : \/ hkLog = Announced(n)
                              \/ /\ hk.i <= Hooks
                                 /\ \E phase \in {"pre", "post"}, event \in {"veto", "failure"} :
                                      EndedBy(n, phase, event, hk.i)
    <3>1. CASE hkAction = "no"
      BY <2>1, <3>1 DEF HkInv, BeforeAction, Hooks
    <3>2. CASE hkAction # "no"
      BY <2>1, <3>2 DEF HkInv, AfterAction, Hooks
    <3> QED BY <3>1, <3>2
  <2>3. Announced(n) \in Seq(HookEvents)
    BY AnnouncedType
  <2>4. ASSUME NEW phase \in {"pre", "post"}, NEW event \in {"veto", "failure"},
               EndedBy(n, phase, event, hk.i), hk.i <= Hooks
        PROVE  hkLog \in Seq(HookEvents)
    <3>1. <<phase, event, hk.i>> \in HookEvents
      BY <2>1, <2>4 DEF HookEvents, Hooks
    <3> QED BY <2>3, <2>4, <3>1 DEF EndedBy
  <2> QED BY <2>2, <2>3, <2>4
<1> QED BY <1>1, AlwaysHkInv, PTL

\* What the log is made of: announcements, and at its end perhaps the entry of
\* the hook that vetoed or failed.
HkLogMadeOf(n) ==
  /\ DOMAIN hkLog \in {1..n, 1..(n + 1)}
  /\ \A m \in 1..n : hkLog[m] = Announced(n)[m]
  /\ n + 1 \in DOMAIN hkLog => /\ hkLog[n + 1][2] \in {"veto", "failure"}
                               /\ hkAction # "no" => hkLog[n + 1][1] = "post"

LEMMA LogMadeOf ==
  ASSUME HkInv
  PROVE  \E n \in 0..Hooks : HkLogMadeOf(n) /\ (hkAction # "no" => n >= PreCount)
<1> USE HookAssumption
<1>1. hk.i \in 1..(PreCount + PostCount + 1)
  BY DEF HkInv
<1>2. PICK n \in 0..Hooks :
        /\ hkAction # "no" => n >= PreCount
        /\ \/ hkLog = Announced(n)
           \/ \E phase \in {"pre", "post"}, event \in {"veto", "failure"} :
                EndedBy(n, phase, event, hk.i) /\ (hkAction # "no" => phase = "post")
  <2>1. CASE hkAction = "no"
    BY <1>1, <2>1 DEF HkInv, BeforeAction, Hooks
  <2>2. CASE hkAction # "no"
    BY <1>1, <2>2 DEF HkInv, AfterAction, Hooks
  <2> QED BY <2>1, <2>2
<1>3. /\ Announced(n) \in Seq(HookEvents) /\ Len(Announced(n)) = n
      /\ DOMAIN Announced(n) = 1..n
  BY AnnouncedType
<1>4. CASE hkLog = Announced(n)
  <2>1. n + 1 \notin 1..n
    BY DEF Hooks
  <2> QED BY <1>2, <1>3, <1>4, <2>1 DEF HkLogMadeOf
<1>5. ASSUME NEW phase \in {"pre", "post"}, NEW event \in {"veto", "failure"},
             EndedBy(n, phase, event, hk.i), hkAction # "no" => phase = "post"
      PROVE  HkLogMadeOf(n)
  <2> DEFINE e == <<phase, event, hk.i>>
  <2>1. e[1] = phase /\ e[2] = event
    OBVIOUS
  <2>2. e \in {"pre", "post"} \X {"veto", "failure"} \X (1..(PreCount + PostCount + 1))
    BY <1>1
  <2>3. hkLog = Append(Announced(n), e) /\ Announced(n) \in Seq(HookEvents \cup {e})
    BY <1>3, <1>5 DEF EndedBy
  <2> HIDE DEF e
  <2>4. /\ Len(hkLog) = n + 1 /\ hkLog[n + 1] = e
        /\ \A m \in 1..n : hkLog[m] = Announced(n)[m]
        /\ DOMAIN hkLog = 1..(n + 1)
    BY <1>3, <2>3
  <2> QED BY <1>5, <2>1, <2>4 DEF HkLogMadeOf
<1> QED BY <1>2, <1>4, <1>5

\* What a list of announcements says.
LEMMA AnnouncedEntries ==
  ASSUME NEW n \in 0..Hooks, NEW m \in 1..n
  PROVE  /\ Announced(n)[m][2] = "evaluate"
         /\ m <= PreCount => Announced(n)[m] = <<"pre", "evaluate", m>>
         /\ m > PreCount => Announced(n)[m] = <<"post", "evaluate", m - PreCount>>
BY HookAssumption DEF Announced, Hooks

\* The evaluations in the log are the announcements.
LEMMA EvaluationsInLog ==
  ASSUME HkInv, NEW n \in 0..Hooks, HkLogMadeOf(n)
  PROVE  /\ n >= PreCount => Evaluated("pre") = 1..PreCount
         /\ n = Hooks => Evaluated("post") = 1..PostCount
<1> USE HookAssumption
<1>1. ASSUME NEW m \in DOMAIN hkLog, hkLog[m][2] = "evaluate" PROVE m \in 1..n
  BY <1>1 DEF HkLogMadeOf, Hooks
<1>2. n >= PreCount => Evaluated("pre") = 1..PreCount
  <2> SUFFICES ASSUME n >= PreCount PROVE Evaluated("pre") = 1..PreCount
    OBVIOUS
  <2>1. ASSUME NEW i \in Evaluated("pre") PROVE i \in 1..PreCount
    <3>1. PICK m \in DOMAIN hkLog : hkLog[m] = <<"pre", "evaluate", i>>
      BY <2>1 DEF Evaluated
    <3>2. m \in 1..n /\ Announced(n)[m] = <<"pre", "evaluate", i>>
      BY <1>1, <3>1 DEF HkLogMadeOf
    <3>3. m <= PreCount
      BY <3>2, AnnouncedEntries DEF Hooks
    <3>4. Announced(n)[m] = <<"pre", "evaluate", m>>
      BY <3>2, <3>3, AnnouncedEntries
    <3> QED BY <3>2, <3>3, <3>4
  <2>2. ASSUME NEW i \in 1..PreCount PROVE i \in Evaluated("pre")
    <3>1. i \in 1..n /\ i \in 1..(PreCount + PostCount) /\ i <= PreCount
      BY DEF Hooks
    <3>2. Announced(n)[i] = <<"pre", "evaluate", i>>
      BY <3>1, AnnouncedEntries
    <3>3. i \in DOMAIN hkLog /\ hkLog[i] = <<"pre", "evaluate", i>>
      BY <3>1, <3>2 DEF HkLogMadeOf, Hooks
    <3> QED BY <3>1, <3>3 DEF Evaluated
  <2> QED BY <2>1, <2>2
<1>3. n = Hooks => Evaluated("post") = 1..PostCount
  <2> SUFFICES ASSUME n = Hooks PROVE Evaluated("post") = 1..PostCount
    OBVIOUS
  <2>1. ASSUME NEW i \in Evaluated("post") PROVE i \in 1..PostCount
    <3>1. PICK m \in DOMAIN hkLog : hkLog[m] = <<"post", "evaluate", i>>
      BY <2>1 DEF Evaluated
    <3>2. m \in 1..n /\ Announced(n)[m] = <<"post", "evaluate", i>>
      BY <1>1, <3>1 DEF HkLogMadeOf
    <3>3. m > PreCount
      BY <3>2, AnnouncedEntries DEF Hooks
    <3>4. Announced(n)[m] = <<"post", "evaluate", m - PreCount>>
      BY <3>2, <3>3, AnnouncedEntries
    <3>5. i = m - PreCount
      BY <3>2, <3>4
    <3> QED BY <3>2, <3>3, <3>5 DEF Hooks
  <2>2. ASSUME NEW i \in 1..PostCount PROVE i \in Evaluated("post")
    <3>1. /\ PreCount + i \in 1..n /\ i \in 1..(PreCount + PostCount)
          /\ PreCount + i > PreCount /\ PreCount + i - PreCount = i
      BY DEF Hooks
    <3>2. Announced(n)[PreCount + i] = <<"post", "evaluate", i>>
      BY <3>1, AnnouncedEntries
    <3>3. PreCount + i \in DOMAIN hkLog /\ hkLog[PreCount + i] = <<"post", "evaluate", i>>
      BY <3>1, <3>2 DEF HkLogMadeOf, Hooks
    <3> QED BY <3>1, <3>3 DEF Evaluated
  <2> QED BY <2>1, <2>2
<1> QED BY <1>2, <1>3

\* Whatever hook vetoes or fails, and whichever entry cannot be written: the
\* action runs only behind all its pre hooks, the caller is told what happened,
\* and no hook is announced twice.
THEOREM HooksKept == HkSpec => []HooksSound
<1> USE HookAssumption
<1>1. ASSUME HkInv PROVE ExecutedBehindHooks
  <2> SUFFICES ASSUME hkAction # "no"
               PROVE  /\ Evaluated("pre") = 1..PreCount
                      /\ \A m \in DOMAIN hkLog : hkLog[m][1] = "pre" => hkLog[m][2] = "evaluate"
    BY DEF ExecutedBehindHooks
  <2>1. PICK n \in 0..Hooks : HkLogMadeOf(n) /\ n >= PreCount
    BY <1>1, LogMadeOf
  <2>2. Evaluated("pre") = 1..PreCount
    BY <1>1, <2>1, EvaluationsInLog
  <2>3. ASSUME NEW m \in DOMAIN hkLog, hkLog[m][1] = "pre" PROVE hkLog[m][2] = "evaluate"
    <3>1. m \in 1..n
      BY <2>1, <2>3 DEF HkLogMadeOf, Hooks
    <3> QED BY <2>1, <3>1, AnnouncedEntries DEF HkLogMadeOf
  <2> QED BY <2>2, <2>3
<1>2. ASSUME HkInv PROVE OutcomeTold
  <2>1. hk.i \in 1..(PreCount + PostCount + 1)
    BY <1>2 DEF HkInv
  <2>2. ASSUME hk.pc \in {"resolved", "actionFailed"}
        PROVE  /\ hkAction = (IF hk.pc = "resolved" THEN "done" ELSE "failed")
               /\ Evaluated("post") = 1..PostCount
    <3>1. hkAction # "no" /\ hkLog = Announced(Hooks)
      BY <1>2, <2>2 DEF HkInv, BeforeAction, AfterAction, Hooks
    <3>2. hkAction = (IF hk.pc = "resolved" THEN "done" ELSE "failed")
      BY <1>2, <2>2, <3>1 DEF HkInv, AfterAction
    <3>3. HkLogMadeOf(Hooks)
      <4>1. Hooks \in 0..Hooks /\ Hooks + 1 \notin 1..Hooks
        BY DEF Hooks
      <4> QED BY <3>1, <4>1, AnnouncedType DEF HkLogMadeOf
    <3>4. Hooks \in 0..Hooks
      BY DEF Hooks
    <3> QED BY <1>2, <3>2, <3>3, <3>4, EvaluationsInLog
  <2>3. ASSUME hk.pc \in {"vetoed", "hookFailed"}
        PROVE  /\ hk.pc = "vetoed" => hkAction = "no"
               /\ hkLog[Len(hkLog)][2] = (IF hk.pc = "vetoed" THEN "veto" ELSE "failure")
    <3> DEFINE event == IF hk.pc = "vetoed" THEN "veto" ELSE "failure"
    <3>1. PICK n \in 0..Hooks, phase \in {"pre", "post"} : EndedBy(n, phase, event, hk.i)
      <4>1. CASE hkAction = "no"
        BY <1>2, <2>1, <2>3, <4>1 DEF HkInv, BeforeAction, Hooks
      <4>2. CASE hkAction # "no"
        BY <1>2, <2>1, <2>3, <4>2 DEF HkInv, AfterAction, Hooks
      <4> QED BY <4>1, <4>2
    <3>2. hk.pc = "vetoed" => hkAction = "no"
      BY <1>2 DEF HkInv, AfterAction
    <3>3. hkLog[Len(hkLog)][2] = event
      <4> DEFINE e == <<phase, event, hk.i>>
      <4>1. e[2] = event
        OBVIOUS
      <4> HIDE DEF e
      <4>2. hkLog = Append(Announced(n), e) /\ Announced(n) \in Seq(HookEvents \cup {e})
        BY <3>1, AnnouncedType DEF EndedBy, e
      <4>3. hkLog[Len(hkLog)] = e
        BY <4>2
      <4> QED BY <4>1, <4>3
    <3> QED BY <3>2, <3>3
  <2> QED BY <2>2, <2>3 DEF OutcomeTold
<1>3. ASSUME HkInv PROVE EachHookOnce
  <2>1. PICK n \in 0..Hooks : HkLogMadeOf(n)
    BY <1>3, LogMadeOf
  <2>2. ASSUME NEW k \in 1..n, NEW m \in 1..n, hkLog[k] = hkLog[m] PROVE k = m
    <3>1. Announced(n)[k] = Announced(n)[m]
      BY <2>1, <2>2 DEF HkLogMadeOf
    <3>2. k <= PreCount <=> m <= PreCount
      BY <3>1, AnnouncedEntries DEF Hooks
    <3>3. CASE k <= PreCount
      BY <3>1, <3>2, <3>3, AnnouncedEntries
    <3>4. CASE ~(k <= PreCount)
      <4>1. k > PreCount /\ m > PreCount
        BY <3>2, <3>4 DEF Hooks
      <4>2. k - PreCount = m - PreCount
        BY <3>1, <4>1, AnnouncedEntries
      <4> QED BY <4>2 DEF Hooks
    <3> QED BY <3>3, <3>4
  <2>3. ASSUME NEW k \in 1..n, n + 1 \in DOMAIN hkLog PROVE hkLog[k] # hkLog[n + 1]
    <3>1. hkLog[k][2] = "evaluate"
      BY <2>1, AnnouncedEntries DEF HkLogMadeOf
    <3> QED BY <2>1, <2>3, <3>1 DEF HkLogMadeOf
  <2>4. \A k \in DOMAIN hkLog : k \in 1..n \/ k = n + 1
    BY <2>1 DEF HkLogMadeOf, Hooks
  <2> QED BY <2>2, <2>3, <2>4 DEF EachHookOnce
<1>4. HkInv => HooksSound
  BY <1>1, <1>2, <1>3 DEF HooksSound
<1> QED BY <1>4, AlwaysHkInv, PTL

-----------------------------------------------------------------------------
(* The rate limiter.  What it takes of its rules, one after the other.     *)

USE RlAssumption

\* g[m] is what is taken of the first m rules of RulesConsumed, up to n.
AreTaken(g, n, ctx) ==
  g = [m \in 0..n |-> IF m = 0 THEN [counters |-> rlCounters, exceeded |-> FALSE]
                      ELSE RuleTaken(g[m - 1], Rule(m), ctx)]

LEMMA TakenExists ==
  ASSUME NEW ctx, NEW n \in Nat
  PROVE  \E g : AreTaken(g, n, ctx)
<1> DEFINE T == {m \in Nat : \E g : AreTaken(g, m, ctx)}
<1>1. 0 \in T
  <2> DEFINE g == [m \in 0..0 |-> [counters |-> rlCounters, exceeded |-> FALSE]]
  <2>1. AreTaken(g, 0, ctx)
    BY DEF AreTaken
  <2> QED BY <2>1
<1>2. ASSUME NEW m \in T PROVE m + 1 \in T
  <2>1. PICK g : AreTaken(g, m, ctx)
    OBVIOUS
  <2> DEFINE h == [i \in 0..(m + 1) |->
                     IF i = m + 1 THEN RuleTaken(g[m], Rule(m + 1), ctx) ELSE g[i]]
  <2>2. \A i \in 0..m : g[i] = IF i = 0 THEN [counters |-> rlCounters, exceeded |-> FALSE]
                               ELSE RuleTaken(g[i - 1], Rule(i), ctx)
    BY <2>1 DEF AreTaken
  <2>3. \A i \in 0..m : h[i] = g[i]
    OBVIOUS
  <2>4. ASSUME NEW i \in 0..m
        PROVE  h[i] = IF i = 0 THEN [counters |-> rlCounters, exceeded |-> FALSE]
                      ELSE RuleTaken(h[i - 1], Rule(i), ctx)
    <3>1. CASE i = 0
      BY <2>2, <2>3, <3>1
    <3>2. CASE i # 0
      <4>1. i - 1 \in 0..m
        BY <3>2
      <4> HIDE DEF h
      <4> QED BY <2>2, <2>3, <3>2, <4>1
    <3> QED BY <3>1, <3>2
  <2>5. h[m + 1] = RuleTaken(h[m], Rule(m + 1), ctx)
    BY <2>3
  <2>6. \A i \in 0..(m + 1) :
          h[i] = IF i = 0 THEN [counters |-> rlCounters, exceeded |-> FALSE]
                 ELSE RuleTaken(h[i - 1], Rule(i), ctx)
    <3> HIDE DEF h
    <3> TAKE i \in 0..(m + 1)
    <3>1. CASE i \in 0..m
      BY <2>4, <3>1
    <3>2. CASE i = m + 1
      <4>1. i # 0 /\ i - 1 = m
        BY <3>2
      <4> QED BY <2>5, <3>2, <4>1
    <3> QED BY <3>1, <3>2
  <2>7. AreTaken(h, m + 1, ctx)
    BY <2>6 DEF AreTaken
  <2> QED BY <2>7
<1>3. T = Nat
  <2> HIDE DEF T
  <2> QED BY <1>1, <1>2, Induction DEF T
<1> QED BY <1>3

LEMMA ConsumedIsTaken ==
  ASSUME NEW ctx
  PROVE  \E g : AreTaken(g, Len(Rules), ctx) /\ RulesConsumed(ctx) = g[Len(Rules)]
<1> DEFINE f == CHOOSE g : AreTaken(g, Len(Rules), ctx)
<1>1. \E g : AreTaken(g, Len(Rules), ctx)
  <2>1. Len(Rules) \in Nat
    BY RlAssumption
  <2> QED BY <2>1, TakenExists
<1>2. AreTaken(CHOOSE g : AreTaken(g, Len(Rules), ctx), Len(Rules), ctx)
  BY <1>1
<1>3. RulesConsumed(ctx) = f[Len(Rules)]
  BY DEF RulesConsumed, AreTaken
<1> QED BY <1>2, <1>3

-----------------------------------------------------------------------------
\* The rules that share their counters with no other, and their keys.
Unshared == {n \in DOMAIN Rules : ~Shared(n)}
KeysOf(n) == {CounterKey(Rule(n), ctx) : ctx \in Contexts}

LEMMA KeysApart ==
  ASSUME NEW n \in Unshared, NEW m \in DOMAIN Rules, m # n, NEW c, NEW d
  PROVE  CounterKey(Rule(n), c) # CounterKey(Rule(m), d)
<1> SUFFICES ASSUME CounterKey(Rule(n), c) = CounterKey(Rule(m), d) PROVE FALSE
  OBVIOUS
<1>1. Rules[n].id = Rules[m].id
  BY DEF CounterKey, Rule, NormalizeRule
<1>2. [x \in Rules[n].dims |-> c[x]] = [x \in Rules[m].dims |-> d[x]]
  BY DEF CounterKey, Rule, NormalizeRule
<1>3. Rules[n].dims = Rules[m].dims
  BY <1>2
<1> QED BY <1>1, <1>3 DEF Unshared, Shared

LEMMA RuleType ==
  ASSUME NEW n \in DOMAIN Rules
  PROVE  Rule(n).limit \in Nat \ {0} /\ Rule(n).window \in Nat \ {0}
BY DEF Rule, NormalizeRule, AtLeastOne

LEMMA KeysKnown ==
  ASSUME NEW n \in DOMAIN Rules, NEW ctx \in Contexts
  PROVE  CounterKey(Rule(n), ctx) \in RlKeys
BY DEF RlKeys

Counters == [RlKeys -> CounterSet \cup {NoCounter}]

\* A counter after a unit of the rule r was taken.
Counted(old, r) == IF old = NoCounter \/ IsWindowExpired(old, r)
                   THEN [count |-> 1, start |-> rlClock]
                   ELSE [count |-> old.count + 1, start |-> old.start]

LEMMA ConsumeOne ==
  ASSUME NEW counters \in Counters, rlClock \in 0..RlMaxTime,
         NEW r, NEW ctx, CounterKey(r, ctx) \in RlKeys
  PROVE  /\ ConsumeRule(counters, r, ctx) \in Counters
         /\ \A k \in RlKeys : ConsumeRule(counters, r, ctx)[k] =
              IF k = CounterKey(r, ctx) THEN Counted(counters[k], r) ELSE counters[k]
<1> DEFINE k == CounterKey(r, ctx)
           old == counters[k]
           base == IF old = NoCounter \/ IsWindowExpired(old, r)
                   THEN [count |-> 0, start |-> rlClock] ELSE old
<1>1. old \in CounterSet \cup {NoCounter}
  BY DEF Counters
<1>2. [base EXCEPT !.count = @ + 1] = Counted(old, r)
  <2>1. CASE old = NoCounter \/ IsWindowExpired(old, r)
    BY <2>1 DEF Counted
  <2>2. CASE ~(old = NoCounter \/ IsWindowExpired(old, r))
    BY <1>1, <2>2 DEF Counted, CounterSet
  <2> QED BY <2>1, <2>2
<1>3. Counted(old, r) \in CounterSet
  BY <1>1 DEF Counted, CounterSet
<1>4. ConsumeRule(counters, r, ctx) = [counters EXCEPT ![k] = Counted(old, r)]
  BY <1>2 DEF ConsumeRule
<1> QED BY <1>3, <1>4 DEF Counters

-----------------------------------------------------------------------------
\* What the first n rules have made of the counters.
TakenUpTo(acc, n, ctx) ==
  /\ acc.counters \in Counters
  /\ acc.exceeded \in BOOLEAN
  /\ \A m \in Unshared : \A k \in KeysOf(m) :
       acc.counters[k] =
         IF m <= n /\ MatchesAction(Rule(m), ctx) /\ k = CounterKey(Rule(m), ctx)
         THEN Counted(rlCounters[k], Rule(m)) ELSE rlCounters[k]
  /\ acc.exceeded => \E m \in 1..n :
       /\ MatchesAction(Rule(m), ctx)
       /\ Shared(m) \/ acc.counters[CounterKey(Rule(m), ctx)].count > Rule(m).limit
  /\ \A m \in Unshared :
       /\ m <= n /\ MatchesAction(Rule(m), ctx)
       /\ acc.counters[CounterKey(Rule(m), ctx)].count > Rule(m).limit
       => acc.exceeded

LEMMA OneMoreTaken ==
  ASSUME rlClock \in 0..RlMaxTime, NEW ctx \in Contexts,
         NEW n \in 0..(Len(Rules) - 1), NEW acc, TakenUpTo(acc, n, ctx)
  PROVE  TakenUpTo(RuleTaken(acc, Rule(n + 1), ctx), n + 1, ctx)
<1> DEFINE q == Rule(n + 1)
           key == CounterKey(q, ctx)
           next == ConsumeRule(acc.counters, q, ctx)
           new == RuleTaken(acc, q, ctx)
<1>0. n + 1 \in DOMAIN Rules /\ DOMAIN Rules = 1..Len(Rules)
  OBVIOUS
<1>1. CASE ~MatchesAction(q, ctx)
  <2>1. new = acc
    BY <1>1 DEF RuleTaken
  <2>2. ASSUME NEW m \in Unshared, MatchesAction(Rule(m), ctx) PROVE (m <= n + 1) <=> (m <= n)
    BY <1>0, <1>1, <2>2 DEF Unshared
  <2>3. \A m \in 1..n : m \in 1..(n + 1)
    OBVIOUS
  <2>4. \A m \in Unshared : \A k \in KeysOf(m) :
          acc.counters[k] =
            IF m <= n + 1 /\ MatchesAction(Rule(m), ctx) /\ k = CounterKey(Rule(m), ctx)
            THEN Counted(rlCounters[k], Rule(m)) ELSE rlCounters[k]
    BY <2>2 DEF TakenUpTo
  <2>5. acc.exceeded => \E m \in 1..(n + 1) :
          /\ MatchesAction(Rule(m), ctx)
          /\ Shared(m) \/ acc.counters[CounterKey(Rule(m), ctx)].count > Rule(m).limit
    BY <2>3 DEF TakenUpTo
  <2>6. \A m \in Unshared :
          /\ m <= n + 1 /\ MatchesAction(Rule(m), ctx)
          /\ acc.counters[CounterKey(Rule(m), ctx)].count > Rule(m).limit
          => acc.exceeded
    BY <2>2 DEF TakenUpTo
  <2>7. TakenUpTo(acc, n + 1, ctx)
    BY <2>4, <2>5, <2>6 DEF TakenUpTo
  <2> QED BY <2>1, <2>7
<1>2. CASE MatchesAction(q, ctx)
  <2>1. new = [counters |-> next, exceeded |-> acc.exceeded \/ Exceeds(next, q, ctx)]
    BY <1>2 DEF RuleTaken
  <2>2. /\ key \in RlKeys /\ next \in Counters
        /\ \A k \in RlKeys : next[k] = IF k = key THEN Counted(acc.counters[k], q)
                                       ELSE acc.counters[k]
    BY <1>0, KeysKnown, ConsumeOne DEF TakenUpTo
  <2>3. new.counters = next /\ new.exceeded = (acc.exceeded \/ next[key].count > q.limit)
    BY <2>1 DEF Exceeds
  <2>4. ASSUME NEW m \in Unshared, NEW k \in KeysOf(m)
        PROVE  next[k] = IF m <= n + 1 /\ MatchesAction(Rule(m), ctx) /\ k = CounterKey(Rule(m), ctx)
                         THEN Counted(rlCounters[k], Rule(m)) ELSE rlCounters[k]
    <3>0. m \in DOMAIN Rules
      BY DEF Unshared
    <3>1. k \in RlKeys
      BY <3>0, KeysKnown DEF KeysOf
    <3>2. CASE m = n + 1
      <4>1. acc.counters[k] = rlCounters[k]
        BY <3>2 DEF TakenUpTo
      <4>2. next[k] = IF k = key THEN Counted(rlCounters[k], q) ELSE rlCounters[k]
        BY <2>2, <3>1, <4>1
      <4> QED BY <1>2, <3>2, <4>2
    <3>3. CASE m # n + 1
      <4>1. PICK c \in Contexts : k = CounterKey(Rule(m), c)
        BY DEF KeysOf
      <4>2. k # key
        BY <1>0, <3>3, <4>1, KeysApart
      <4>3. next[k] = acc.counters[k]
        BY <2>2, <3>1, <4>2
      <4>4. (m <= n + 1) <=> (m <= n)
        BY <1>0, <3>0, <3>3
      <4> QED BY <4>3, <4>4 DEF TakenUpTo
    <3> QED BY <3>2, <3>3
  <2>5. ASSUME NEW m \in Unshared, m # n + 1
        PROVE  next[CounterKey(Rule(m), ctx)] = acc.counters[CounterKey(Rule(m), ctx)]
    <3>1. CounterKey(Rule(m), ctx) # key /\ CounterKey(Rule(m), ctx) \in RlKeys
      BY <1>0, <2>5, KeysApart, KeysKnown DEF Unshared
    <3> QED BY <2>2, <3>1
  <2>6. ASSUME new.exceeded
        PROVE  \E m \in 1..(n + 1) :
                 /\ MatchesAction(Rule(m), ctx)
                 /\ Shared(m) \/ next[CounterKey(Rule(m), ctx)].count > Rule(m).limit
    <3>1. CASE next[key].count > q.limit
      <4>1. n + 1 \in 1..(n + 1)
        OBVIOUS
      <4> QED BY <1>2, <3>1, <4>1
    <3>2. CASE acc.exceeded
      <4>1. PICK m \in 1..n :
              /\ MatchesAction(Rule(m), ctx)
              /\ Shared(m) \/ acc.counters[CounterKey(Rule(m), ctx)].count > Rule(m).limit
        BY <3>2 DEF TakenUpTo
      <4>2. m \in 1..(n + 1) /\ m \in DOMAIN Rules /\ m # n + 1
        BY <1>0
      <4>3. CASE Shared(m)
        BY <4>1, <4>2, <4>3
      <4>4. CASE ~Shared(m)
        <5>1. m \in Unshared
          BY <4>2, <4>4 DEF Unshared
        <5>2. next[CounterKey(Rule(m), ctx)] = acc.counters[CounterKey(Rule(m), ctx)]
          BY <2>5, <4>2, <5>1
        <5> HIDE DEF next
        <5> QED BY <4>1, <4>2, <4>4, <5>2
      <4> QED BY <4>3, <4>4
    <3> QED BY <2>3, <2>6, <3>1, <3>2
  <2>7. ASSUME NEW m \in Unshared, m <= n + 1, MatchesAction(Rule(m), ctx),
               next[CounterKey(Rule(m), ctx)].count > Rule(m).limit
        PROVE  new.exceeded
    <3>1. CASE m = n + 1
      BY <2>3, <2>7, <3>1
    <3>2. CASE m # n + 1
      <4>1. m <= n
        BY <1>0, <2>7, <3>2 DEF Unshared
      <4>2. acc.counters[CounterKey(Rule(m), ctx)].count > Rule(m).limit
        BY <2>5, <2>7, <3>2
      <4>3. acc.exceeded
        BY <2>7, <4>1, <4>2 DEF TakenUpTo
      <4> QED BY <2>3, <4>3
    <3> QED BY <3>1, <3>2
  <2>8. new.exceeded \in BOOLEAN
    BY <2>3 DEF TakenUpTo
  <2>9. new.counters = next
    BY <2>3
  <2>10. next \in Counters
    BY <2>2
  <2> HIDE DEF new, next
  <2>11. TakenUpTo(new, n + 1, ctx)
    BY <2>9, <2>10, <2>4, <2>6, <2>7, <2>8 DEF TakenUpTo
  <2> QED BY <2>11 DEF new
<1> QED BY <1>1, <1>2

\* What consume makes of the counters: the counters of a rule that shares them
\* with no other go up by one where it matches, and otherwise stay.
LEMMA ConsumedOnce ==
  ASSUME rlCounters \in Counters, rlClock \in 0..RlMaxTime, NEW ctx \in Contexts
  PROVE  TakenUpTo(RulesConsumed(ctx), Len(Rules), ctx)
<1>1. PICK g : AreTaken(g, Len(Rules), ctx) /\ RulesConsumed(ctx) = g[Len(Rules)]
  BY ConsumedIsTaken
<1>2. \A m \in 0..Len(Rules) :
        g[m] = IF m = 0 THEN [counters |-> rlCounters, exceeded |-> FALSE]
               ELSE RuleTaken(g[m - 1], Rule(m), ctx)
  BY <1>1 DEF AreTaken
<1> DEFINE T == {m \in Nat : m <= Len(Rules) => TakenUpTo(g[m], m, ctx)}
<1>3. 0 \in T
  <2>1. g[0] = [counters |-> rlCounters, exceeded |-> FALSE]
    <3>1. 0 \in 0..Len(Rules)
      OBVIOUS
    <3> QED BY <1>2, <3>1
  <2>2. \A m \in Unshared : ~(m <= 0)
    BY DEF Unshared
  <2>3. g[0].counters = rlCounters /\ g[0].exceeded = FALSE
    BY <2>1
  <2>4. TakenUpTo(g[0], 0, ctx)
    BY <2>2, <2>3 DEF TakenUpTo
  <2> QED BY <2>4
<1>4. ASSUME NEW m \in T PROVE m + 1 \in T
  <2>1. CASE m + 1 <= Len(Rules)
    <3>1. m \in 0..(Len(Rules) - 1) /\ m + 1 \in 0..Len(Rules) /\ m + 1 # 0 /\ (m + 1) - 1 = m
      BY <2>1
    <3>2. TakenUpTo(g[m], m, ctx)
      BY <3>1
    <3>3. g[m + 1] = RuleTaken(g[m], Rule(m + 1), ctx)
      BY <1>2, <3>1
    <3>4. TakenUpTo(g[m + 1], m + 1, ctx)
      BY <3>1, <3>2, <3>3, OneMoreTaken
    <3> QED BY <3>4
  <2>2. CASE ~(m + 1 <= Len(Rules))
    BY <2>2
  <2> QED BY <2>1, <2>2
<1>5. T = Nat
  <2> HIDE DEF T
  <2> QED BY <1>3, <1>4, Induction DEF T
<1>6. Len(Rules) \in T
  <2> HIDE DEF T
  <2> QED BY <1>5
<1> QED BY <1>1, <1>6

-----------------------------------------------------------------------------
\* The decisions of s on calls of the key k that the rule r matches, since from.
Own(s, r, k, from) ==
  {i \in DOMAIN s : /\ s[i].at >= from
                    /\ MatchesAction(r, s[i].ctx) /\ CounterKey(r, s[i].ctx) = k}

\* Those allowed from one moment and before another: what AllowedIn counts.
Hits(s, r, k, from, to) ==
  {i \in DOMAIN s : /\ s[i].allowed /\ s[i].at >= from /\ s[i].at < to
                    /\ MatchesAction(r, s[i].ctx) /\ CounterKey(r, s[i].ctx) = k}

\* The counter c of the key k tells what was decided for it in its window, and
\* nothing was decided for it after.
CounterTrue(s, c, r, k) ==
  IF c = NoCounter THEN Own(s, r, k, 0) = {}
  ELSE /\ \A i \in Own(s, r, k, 0) : s[i].at < c.start + r.window
       /\ Cardinality(Own(s, r, k, c.start)) = c.count

\* No more than the limit in the window of the counter c, nor in as much time
\* before it, nor more than twice as much in any time so long.
WithinLimits(s, c, r, k) ==
  /\ c # NoCounter =>
       /\ Cardinality(Hits(s, r, k, c.start, c.start + r.window)) <= r.limit
       /\ Cardinality(Hits(s, r, k, c.start - r.window, c.start)) <= r.limit
  /\ \A from \in Int : Cardinality(Hits(s, r, k, from, from + r.window)) <= 2 * r.limit

LEMMA Finite ==
  ASSUME NEW s \in Seq(Decisions), NEW S \in SUBSET (DOMAIN s)
  PROVE  IsFiniteSet(S) /\ Cardinality(S) \in Nat
<1>1. IsFiniteSet(1..Len(s))
  <2>1. 1 \in Int /\ Len(s) \in Int
    OBVIOUS
  <2> QED BY <2>1, FS_Interval
<1>2. S \in SUBSET (1..Len(s))
  OBVIOUS
<1>3. IsFiniteSet(S)
  BY <1>1, <1>2, FS_Subset
<1> QED BY <1>3, FS_CardinalityType

LEMMA DecidedAt ==
  ASSUME NEW s \in Seq(Decisions), NEW i \in DOMAIN s
  PROVE  s[i].at \in Nat
<1>1. s[i] \in Decisions
  OBVIOUS
<1> QED BY <1>1 DEF Decisions

LEMMA AppendedTo ==
  ASSUME NEW s \in Seq(Decisions), NEW d \in Decisions
  PROVE  /\ Append(s, d) \in Seq(Decisions)
         /\ Len(s) + 1 \notin DOMAIN s
         /\ DOMAIN Append(s, d) = DOMAIN s \cup {Len(s) + 1}
         /\ Append(s, d)[Len(s) + 1] = d
         /\ \A i \in DOMAIN s : Append(s, d)[i] = s[i]
  OBVIOUS

\* A decision on another key, or that the rule does not match, counts for nothing.
LEMMA OtherDecision ==
  ASSUME NEW s \in Seq(Decisions), NEW c \in CounterSet \cup {NoCounter}, NEW r, NEW k,
         CounterTrue(s, c, r, k), WithinLimits(s, c, r, k),
         NEW d \in Decisions, ~(MatchesAction(r, d.ctx) /\ CounterKey(r, d.ctx) = k)
  PROVE  CounterTrue(Append(s, d), c, r, k) /\ WithinLimits(Append(s, d), c, r, k)
<1> DEFINE t == Append(s, d)
           N == Len(s) + 1
<1>1. N \notin DOMAIN s /\ DOMAIN t = DOMAIN s \cup {N} /\ t[N] = d
  BY AppendedTo
<1>2. \A i \in DOMAIN s : t[i] = s[i]
  BY AppendedTo
<1> HIDE DEF t, N
<1>3. ASSUME NEW from PROVE Own(t, r, k, from) = Own(s, r, k, from)
  BY <1>1, <1>2 DEF Own
<1>4. ASSUME NEW from, NEW to PROVE Hits(t, r, k, from, to) = Hits(s, r, k, from, to)
  BY <1>1, <1>2 DEF Hits
<1>5. CounterTrue(t, c, r, k)
  <2>1. \A i \in Own(s, r, k, 0) : t[i] = s[i]
    BY <1>2 DEF Own
  <2> QED BY <1>3, <2>1 DEF CounterTrue
<1>6. WithinLimits(t, c, r, k)
  BY <1>4 DEF WithinLimits
<1> QED BY <1>5, <1>6 DEF t

\* A decision on its own key, made now with the counter c counted up to c2.
LEMMA OwnDecision ==
  ASSUME NEW s \in Seq(Decisions), NEW c \in CounterSet \cup {NoCounter}, NEW r, NEW k,
         r.limit \in Nat \ {0}, r.window \in Nat \ {0},
         CounterTrue(s, c, r, k), WithinLimits(s, c, r, k),
         NEW d \in Decisions, MatchesAction(r, d.ctx), CounterKey(r, d.ctx) = k,
         \A i \in DOMAIN s : s[i].at <= d.at,
         c # NoCounter => c.start <= d.at,
         NEW c2 \in CounterSet,
         c2 = IF c = NoCounter \/ d.at - c.start >= r.window
              THEN [count |-> 1, start |-> d.at]
              ELSE [count |-> c.count + 1, start |-> c.start],
         d.allowed => c2.count <= r.limit
  PROVE  CounterTrue(Append(s, d), c2, r, k) /\ WithinLimits(Append(s, d), c2, r, k)
<1> DEFINE t == Append(s, d)
           N == Len(s) + 1
           W == r.window
<1>1. /\ N \notin DOMAIN s /\ DOMAIN t = DOMAIN s \cup {N} /\ t[N] = d
      /\ t \in Seq(Decisions)
  BY AppendedTo
<1>2. \A i \in DOMAIN s : t[i] = s[i]
  BY AppendedTo
<1>3. /\ \A i \in DOMAIN s : s[i].at \in Nat
      /\ d.at \in Nat /\ W \in Nat \ {0} /\ r.limit \in Nat \ {0}
      /\ c2.start \in Nat /\ c2.count \in Nat \ {0} /\ c2 # NoCounter
      /\ c # NoCounter => c.start \in Nat /\ c.count \in Nat
  <2>1. d.at \in Nat /\ \A i \in DOMAIN s : s[i].at \in Nat
    <3>1. \A e \in Decisions : e.at \in Nat
      BY DEF Decisions
    <3>2. \A i \in DOMAIN s : s[i] \in Decisions
      OBVIOUS
    <3> QED BY <3>1, <3>2
  <2>2. c2.start \in Nat /\ c2.count \in Nat \ {0}
    BY DEF CounterSet
  <2>3. c2 # NoCounter
    BY <2>2 DEF NoCounter
  <2>4. c # NoCounter => c.start \in Nat /\ c.count \in Nat
    BY DEF CounterSet
  <2> QED BY <2>1, <2>2, <2>3, <2>4
<1>4. \A i \in DOMAIN t : t[i].at \in Nat /\ t[i].at <= d.at
  BY <1>1, <1>2, <1>3
<1> HIDE DEF t, N, W
<1>5. ASSUME NEW from \in Int
      PROVE  /\ Own(t, r, k, from) = IF d.at >= from THEN Own(s, r, k, from) \cup {N}
                                     ELSE Own(s, r, k, from)
             /\ d.at >= from => Cardinality(Own(t, r, k, from)) = Cardinality(Own(s, r, k, from)) + 1
  <2>1. Own(t, r, k, from) = IF d.at >= from THEN Own(s, r, k, from) \cup {N}
                             ELSE Own(s, r, k, from)
    BY <1>1, <1>2, <1>3 DEF Own
  <2>2. Own(s, r, k, from) \in SUBSET (DOMAIN s) /\ N \notin Own(s, r, k, from)
    BY <1>1 DEF Own
  <2>3. IsFiniteSet(Own(s, r, k, from))
    BY <2>2, Finite
  <2>4. Cardinality(Own(s, r, k, from) \cup {N}) = Cardinality(Own(s, r, k, from)) + 1
    BY <2>2, <2>3, FS_AddElement
  <2> QED BY <2>1, <2>4
<1>6. ASSUME NEW from \in Int, NEW to \in Int
      PROVE  Hits(t, r, k, from, to) = IF d.allowed /\ d.at >= from /\ d.at < to
                                       THEN Hits(s, r, k, from, to) \cup {N}
                                       ELSE Hits(s, r, k, from, to)
  BY <1>1, <1>2, <1>3 DEF Hits
<1>7. ASSUME NEW from, NEW to
      PROVE  /\ IsFiniteSet(Hits(t, r, k, from, to)) /\ Cardinality(Hits(t, r, k, from, to)) \in Nat
             /\ IsFiniteSet(Hits(s, r, k, from, to)) /\ Cardinality(Hits(s, r, k, from, to)) \in Nat
             /\ N \notin Hits(s, r, k, from, to)
  <2>1. Hits(t, r, k, from, to) \in SUBSET (DOMAIN t) /\ Hits(s, r, k, from, to) \in SUBSET (DOMAIN s)
    BY DEF Hits
  <2> QED BY <1>1, <2>1, Finite
\* The counter, in a new window and in the one it has.
<1>8. c2.start <= d.at /\ d.at < c2.start + W
  BY <1>3 DEF W
<1>9. CounterTrue(t, c2, r, k)
  <2>1. Cardinality(Own(t, r, k, c2.start)) = c2.count
    <3>1. CASE c = NoCounter \/ d.at - c.start >= W
      <4>1. c2 = [count |-> 1, start |-> d.at]
        BY <3>1 DEF W
      <4>2. Own(s, r, k, d.at) = {}
        <5>1. Own(s, r, k, d.at) \subseteq Own(s, r, k, 0)
          BY <1>3 DEF Own
        <5>2. CASE c = NoCounter
          BY <5>1, <5>2 DEF CounterTrue
        <5>3. CASE c # NoCounter
          <6>1. \A i \in Own(s, r, k, 0) : i \in DOMAIN s /\ s[i].at < c.start + W
            BY <5>3 DEF CounterTrue, W, Own
          <6>2. \A i \in Own(s, r, k, d.at) : i \in DOMAIN s /\ s[i].at >= d.at
            BY DEF Own
          <6>3. c.start + W <= d.at
            BY <1>3, <3>1, <5>3
          <6>4. ASSUME NEW i \in Own(s, r, k, d.at) PROVE FALSE
            <7>1. i \in DOMAIN s /\ s[i].at < c.start + W /\ s[i].at >= d.at
              BY <5>1, <6>1, <6>2
            <7> QED BY <1>3, <5>3, <6>3, <7>1
          <6> QED BY <6>4
        <5> QED BY <5>2, <5>3
      <4>3. Cardinality(Own(t, r, k, d.at)) = Cardinality(Own(s, r, k, d.at)) + 1
        BY <1>3, <1>5
      <4> QED BY <4>1, <4>2, <4>3, FS_EmptySet
    <3>2. CASE ~(c = NoCounter \/ d.at - c.start >= W)
      <4>1. c2 = [count |-> c.count + 1, start |-> c.start] /\ c # NoCounter
        BY <3>2 DEF W
      <4>2. Cardinality(Own(t, r, k, c.start)) = Cardinality(Own(s, r, k, c.start)) + 1
        BY <1>3, <1>5, <4>1
      <4> QED BY <4>1, <4>2 DEF CounterTrue
    <3> QED BY <3>1, <3>2
  <2>2. \A i \in Own(t, r, k, 0) : t[i].at < c2.start + W
    BY <1>3, <1>4, <1>8 DEF Own
  <2> QED BY <1>3, <2>1, <2>2 DEF CounterTrue, W
<1>10. Cardinality(Hits(t, r, k, c2.start, c2.start + W)) <= r.limit
  <2>1. CASE d.allowed
    <3>1. Hits(t, r, k, c2.start, c2.start + W) \subseteq Own(t, r, k, c2.start)
      BY DEF Hits, Own
    <3>2. Own(t, r, k, c2.start) \in SUBSET (DOMAIN t)
      BY DEF Own
    <3>3. IsFiniteSet(Own(t, r, k, c2.start))
      BY <1>1, <3>2, Finite
    <3>4. Cardinality(Hits(t, r, k, c2.start, c2.start + W)) <= Cardinality(Own(t, r, k, c2.start))
      BY <3>1, <3>3, FS_Subset
    <3>5. Cardinality(Own(t, r, k, c2.start)) = c2.count
      BY <1>3, <1>9 DEF CounterTrue
    <3>6. c2.count <= r.limit
      BY <2>1
    <3> QED BY <1>3, <1>7, <3>4, <3>5, <3>6
  <2>2. CASE ~d.allowed
    <3>1. Hits(t, r, k, c2.start, c2.start + W) = Hits(s, r, k, c2.start, c2.start + W)
      <4>1. c2.start \in Int /\ c2.start + W \in Int
        BY <1>3
      <4> QED BY <1>6, <2>2, <4>1
    <3>2. CASE c = NoCounter \/ d.at - c.start >= W
      <4>1. c2.start = d.at
        BY <3>2 DEF W
      <4>2. Hits(s, r, k, c2.start, c2.start + W) = {}
        <5>1. CASE c = NoCounter
          <6>1. Hits(s, r, k, c2.start, c2.start + W) \subseteq Own(s, r, k, 0)
            BY <1>3 DEF Hits, Own
          <6> QED BY <5>1, <6>1 DEF CounterTrue
        <5>2. CASE c # NoCounter
          <6>1. \A i \in Hits(s, r, k, c2.start, c2.start + W) : i \in Own(s, r, k, 0) /\ s[i].at >= d.at /\ i \in DOMAIN s
            BY <1>3, <4>1 DEF Hits, Own
          <6>2. \A i \in Own(s, r, k, 0) : s[i].at < c.start + W
            BY <5>2 DEF CounterTrue, W
          <6>3. c.start + W <= d.at
            BY <1>3, <3>2, <5>2
          <6>4. ASSUME NEW i \in Hits(s, r, k, c2.start, c2.start + W) PROVE FALSE
            <7>1. i \in DOMAIN s /\ s[i].at < c.start + W /\ s[i].at >= d.at
              BY <6>1, <6>2
            <7> QED BY <1>3, <5>2, <6>3, <7>1
          <6> QED BY <6>4
        <5> QED BY <5>1, <5>2
      <4>3. Cardinality(Hits(t, r, k, c2.start, c2.start + W)) = 0
        BY <3>1, <4>2, FS_EmptySet
      <4> QED BY <1>3, <4>3
    <3>3. CASE ~(c = NoCounter \/ d.at - c.start >= W)
      <4>1. c2.start = c.start /\ c # NoCounter
        BY <3>3 DEF W
      <4> QED BY <3>1, <4>1 DEF WithinLimits, W
    <3> QED BY <3>2, <3>3
  <2> QED BY <2>1, <2>2
<1>11. Cardinality(Hits(t, r, k, c2.start - W, c2.start)) <= r.limit
  <2>1. Hits(t, r, k, c2.start - W, c2.start) = Hits(s, r, k, c2.start - W, c2.start)
    <3>1. c2.start - W \in Int /\ c2.start \in Int /\ ~(d.at < c2.start)
      BY <1>3, <1>8
    <3> QED BY <1>6, <3>1
  <2>2. CASE c = NoCounter
    <3>1. Hits(s, r, k, c2.start - W, c2.start) \subseteq Own(s, r, k, 0)
      BY <1>3 DEF Hits, Own
    <3>2. Hits(s, r, k, c2.start - W, c2.start) = {}
      BY <2>2, <3>1 DEF CounterTrue
    <3>3. Cardinality(Hits(t, r, k, c2.start - W, c2.start)) = 0
      BY <2>1, <3>2, FS_EmptySet
    <3> QED BY <1>3, <3>3
  <2>3. CASE c # NoCounter /\ d.at - c.start >= W
    <3>1. c2.start = d.at
      BY <2>3 DEF W
    <3>2. \A i \in Own(s, r, k, 0) : s[i].at < c.start + W
      BY <2>3 DEF CounterTrue, W
    <3>3. Hits(s, r, k, c2.start - W, c2.start) \subseteq Hits(s, r, k, c.start, c.start + W)
      <4> SUFFICES ASSUME NEW i \in Hits(s, r, k, c2.start - W, c2.start)
                   PROVE  i \in Hits(s, r, k, c.start, c.start + W)
        OBVIOUS
      <4>2. /\ i \in DOMAIN s /\ s[i].allowed /\ s[i].at >= c2.start - W
            /\ MatchesAction(r, s[i].ctx) /\ CounterKey(r, s[i].ctx) = k
        BY DEF Hits
      <4>3. i \in Own(s, r, k, 0)
        BY <1>3, <4>2 DEF Own
      <4>4. s[i].at < c.start + W
        BY <3>2, <4>3
      <4>5. s[i].at >= c.start
        BY <1>3, <2>3, <3>1, <4>2
      <4> QED BY <4>2, <4>4, <4>5 DEF Hits
    <3>4. Cardinality(Hits(s, r, k, c2.start - W, c2.start)) <= Cardinality(Hits(s, r, k, c.start, c.start + W))
      BY <1>7, <3>3, FS_Subset
    <3>5. Cardinality(Hits(s, r, k, c.start, c.start + W)) <= r.limit
      BY <2>3 DEF WithinLimits, W
    <3> QED BY <1>3, <1>7, <2>1, <3>4, <3>5
  <2>4. CASE ~(c = NoCounter \/ d.at - c.start >= W)
    <3>1. c2.start = c.start /\ c # NoCounter
      BY <2>4 DEF W
    <3> QED BY <2>1, <3>1 DEF WithinLimits, W
  <2> QED BY <2>2, <2>3, <2>4
<1>12. ASSUME NEW from \in Int
       PROVE  Cardinality(Hits(t, r, k, from, from + W)) <= 2 * r.limit
  <2>0. from + W \in Int
    BY <1>3
  <2>1. CASE d.at >= from /\ d.at < from + W
    <3> DEFINE A == Hits(t, r, k, c2.start - W, c2.start)
               B == Hits(t, r, k, c2.start, c2.start + W)
               H == Hits(t, r, k, from, from + W)
    <3>1. from > c2.start - W
      BY <1>3, <1>8, <2>1
    <3>2. H \subseteq A \cup B
      <4> SUFFICES ASSUME NEW i \in H PROVE i \in A \cup B
        OBVIOUS
      <4>2. /\ i \in DOMAIN t /\ t[i].allowed /\ t[i].at >= from
            /\ MatchesAction(r, t[i].ctx) /\ CounterKey(r, t[i].ctx) = k
        BY DEF Hits
      <4>3. t[i].at \in Nat /\ t[i].at <= d.at
        BY <1>4, <4>2
      <4>4. t[i].at >= c2.start - W /\ t[i].at < c2.start + W
        <5>1. W \in Int /\ c2.start \in Int /\ d.at \in Int /\ t[i].at \in Int
          BY <1>3, <4>3
        <5>2. t[i].at >= c2.start - W
          BY <3>1, <4>2, <5>1
        <5>3. t[i].at < c2.start + W
          BY <1>8, <4>3, <5>1
        <5> QED BY <5>2, <5>3
      <4>5. CASE t[i].at < c2.start
        BY <4>2, <4>4, <4>5 DEF Hits
      <4>6. CASE ~(t[i].at < c2.start)
        <5>1. t[i].at >= c2.start
          BY <1>3, <4>3, <4>6
        <5> QED BY <4>2, <4>4, <5>1 DEF Hits
      <4> QED BY <4>5, <4>6
    <3>3. /\ IsFiniteSet(A) /\ Cardinality(A) \in Nat /\ Cardinality(A) <= r.limit
          /\ IsFiniteSet(B) /\ Cardinality(B) \in Nat /\ Cardinality(B) <= r.limit
          /\ Cardinality(H) \in Nat
      BY <1>7, <1>10, <1>11
    <3> HIDE DEF A, B, H
    <3>4. /\ IsFiniteSet(A \cup B)
          /\ Cardinality(A \cup B) = Cardinality(A) + Cardinality(B) - Cardinality(A \cap B)
      BY <3>3, FS_Union
    <3>5. IsFiniteSet(A \cap B)
      BY <3>3, FS_Intersection
    <3>6. Cardinality(A \cap B) \in Nat
      BY <3>5, FS_CardinalityType
    <3>7. Cardinality(H) <= Cardinality(A \cup B)
      BY <3>2, <3>4, FS_Subset
    <3>8. Cardinality(H) <= 2 * r.limit
      BY <1>3, <3>3, <3>4, <3>6, <3>7
    <3> QED BY <3>8 DEF H
  <2>2. CASE ~(d.at >= from /\ d.at < from + W)
    <3>1. Hits(t, r, k, from, from + W) = Hits(s, r, k, from, from + W)
      BY <1>6, <2>0, <2>2
    <3> QED BY <3>1 DEF WithinLimits, W
  <2> QED BY <2>1, <2>2
<1>13. WithinLimits(t, c2, r, k)
  BY <1>10, <1>11, <1>12 DEF WithinLimits, W
<1> QED BY <1>9, <1>13 DEF t

-----------------------------------------------------------------------------
\* DeniedHadSpent, of the decisions s.
Spent(s, i, r) ==
  {j \in 1..i : /\ s[i].at - s[j].at < r.window
                /\ MatchesAction(r, s[j].ctx)
                /\ CounterKey(r, s[j].ctx) = CounterKey(r, s[i].ctx)}

HadSpent(s, i) ==
  \E n \in DOMAIN Rules : /\ MatchesAction(Rule(n), s[i].ctx)
                          /\ Shared(n) \/ Cardinality(Spent(s, i, Rule(n))) > Rule(n).limit

RlInv ==
  /\ RlTypeOK
  /\ \A i \in DOMAIN rlDecided : rlDecided[i].at <= rlClock
  /\ \A n \in Unshared : \A k \in KeysOf(n) :
       /\ rlCounters[k] # NoCounter => rlCounters[k].start <= rlClock
       /\ CounterTrue(rlDecided, rlCounters[k], Rule(n), k)
       /\ WithinLimits(rlDecided, rlCounters[k], Rule(n), k)
  /\ \A i \in DOMAIN rlDecided : ~rlDecided[i].allowed => HadSpent(rlDecided, i)

LEMMA NothingDecided ==
  ASSUME NEW r, NEW k, r.limit \in Nat \ {0}
  PROVE  CounterTrue(<<>>, NoCounter, r, k) /\ WithinLimits(<<>>, NoCounter, r, k)
<1>1. \A from, to : Own(<<>>, r, k, from) = {} /\ Hits(<<>>, r, k, from, to) = {}
  BY DEF Own, Hits
<1>2. Cardinality({}) = 0 /\ 0 <= 2 * r.limit
  BY FS_EmptySet
<1> QED BY <1>1, <1>2 DEF CounterTrue, WithinLimits

NothingCounted == rlCounters = [k \in RlKeys |-> NoCounter] /\ rlDecided = <<>>

LEMMA NoneCounted == RlTypeOK /\ NothingCounted => RlInv
<1> SUFFICES ASSUME RlTypeOK, NothingCounted PROVE RlInv
  OBVIOUS
<1>1. ASSUME NEW n \in Unshared, NEW k \in KeysOf(n)
      PROVE  /\ rlCounters[k] = NoCounter
             /\ CounterTrue(<<>>, NoCounter, Rule(n), k)
             /\ WithinLimits(<<>>, NoCounter, Rule(n), k)
  <2>1. n \in DOMAIN Rules
    BY DEF Unshared
  <2>2. k \in RlKeys
    BY <2>1, KeysKnown DEF KeysOf
  <2> QED BY <2>1, <2>2, NothingDecided, RuleType DEF NothingCounted
<1> QED BY <1>1 DEF RlInv, NothingCounted

LEMMA RlInitInv == RlInit => RlInv
<1> SUFFICES ASSUME RlInit PROVE RlInv
  OBVIOUS
<1>1. RlTypeOK
  BY DEF RlInit, RlTypeOK
<1> QED BY <1>1, NoneCounted DEF RlInit, NothingCounted

\* A call, which decides by all the rules that match it.
LEMMA ConsumeKeeps ==
  ASSUME RlInv, NEW c \in RlCallers, NEW ctx \in Contexts, Consume(c, ctx)
  PROVE  RlInv'
<1> DEFINE out == RulesConsumed(ctx)
           d == [at |-> rlClock, ctx |-> ctx, allowed |-> ~out.exceeded]
           N == Len(rlDecided) + 1
<1>1. /\ rlDecided \in Seq(Decisions) /\ rlCounters \in Counters /\ rlClock \in 0..RlMaxTime
      /\ rlClock' = rlClock /\ rlCounters' = out.counters /\ rlDecided' = Append(rlDecided, d)
  BY DEF RlInv, RlTypeOK, Counters, Consume
<1>2. TakenUpTo(out, Len(Rules), ctx)
  BY <1>1, ConsumedOnce
<1>3. out.counters \in Counters /\ out.exceeded \in BOOLEAN
  BY <1>2 DEF TakenUpTo
<1>4. d \in Decisions /\ d.at = rlClock /\ d.ctx = ctx /\ d.allowed = ~out.exceeded
  BY <1>1, <1>3 DEF Decisions
<1> HIDE DEF out, d
<1>5. /\ N \notin DOMAIN rlDecided /\ DOMAIN rlDecided' = DOMAIN rlDecided \cup {N}
      /\ rlDecided'[N] = d /\ rlDecided' \in Seq(Decisions)
      /\ \A i \in DOMAIN rlDecided : rlDecided'[i] = rlDecided[i]
  BY <1>1, <1>4, AppendedTo
<1>6. RlTypeOK'
  <2>1. rlCall' \in [RlCallers -> {"none", "allow", "deny", "allowed", "denied", "failed"}]
    BY DEF RlInv, RlTypeOK, Consume
  <2>2. Len(rlDecided') <= MaxConsumes
    <3>1. Len(rlDecided) < MaxConsumes
      BY DEF Consume
    <3>2. Len(rlDecided') = Len(rlDecided) + 1
      BY <1>1, <1>4
    <3> QED BY <1>1, <3>1, <3>2
  <2> QED BY <1>1, <1>3, <1>5, <2>1, <2>2 DEF RlTypeOK, Counters
<1>7. \A i \in DOMAIN rlDecided' : rlDecided'[i].at <= rlClock'
  BY <1>1, <1>4, <1>5 DEF RlInv
<1>8. ASSUME NEW n \in Unshared, NEW k \in KeysOf(n)
      PROVE  /\ rlCounters'[k] # NoCounter => rlCounters'[k].start <= rlClock
             /\ CounterTrue(rlDecided', rlCounters'[k], Rule(n), k)
             /\ WithinLimits(rlDecided', rlCounters'[k], Rule(n), k)
             /\ MatchesAction(Rule(n), ctx) /\ k = CounterKey(Rule(n), ctx)
                => rlCounters'[k] \in CounterSet
  <2>0. n \in DOMAIN Rules
    BY DEF Unshared
  <2>1. /\ Rule(n).limit \in Nat \ {0} /\ Rule(n).window \in Nat \ {0}
        /\ n <= Len(Rules)
    BY <2>0, RuleType
  <2>2. k \in RlKeys
    BY <2>0, KeysKnown DEF KeysOf
  <2>3. /\ rlCounters[k] \in CounterSet \cup {NoCounter}
        /\ rlCounters[k] # NoCounter => rlCounters[k].start <= rlClock
        /\ CounterTrue(rlDecided, rlCounters[k], Rule(n), k)
        /\ WithinLimits(rlDecided, rlCounters[k], Rule(n), k)
    BY <1>1, <2>2 DEF RlInv, Counters
  <2>4. CASE MatchesAction(Rule(n), ctx) /\ k = CounterKey(Rule(n), ctx)
    <3>1. rlCounters'[k] = Counted(rlCounters[k], Rule(n))
      BY <1>1, <1>2, <2>1, <2>4 DEF TakenUpTo
    <3>2. rlCounters'[k] =
            IF rlCounters[k] = NoCounter \/ d.at - rlCounters[k].start >= Rule(n).window
            THEN [count |-> 1, start |-> d.at]
            ELSE [count |-> rlCounters[k].count + 1, start |-> rlCounters[k].start]
      BY <1>4, <3>1 DEF Counted, IsWindowExpired
    <3>3. rlCounters'[k] \in CounterSet
      <4>1. CASE rlCounters[k] = NoCounter \/ d.at - rlCounters[k].start >= Rule(n).window
        BY <1>1, <1>4, <3>2, <4>1 DEF CounterSet
      <4>2. CASE ~(rlCounters[k] = NoCounter \/ d.at - rlCounters[k].start >= Rule(n).window)
        BY <2>3, <3>2, <4>2 DEF CounterSet
      <4> QED BY <4>1, <4>2
    <3>4. d.allowed => rlCounters'[k].count <= Rule(n).limit
      <4>1. rlCounters'[k].count > Rule(n).limit => out.exceeded
        BY <1>1, <1>2, <2>1, <2>4 DEF TakenUpTo
      <4>2. rlCounters'[k].count \in Nat
        BY <3>3 DEF CounterSet
      <4>3. d.allowed => ~out.exceeded
        BY <1>4
      <4>4. ~(rlCounters'[k].count > Rule(n).limit) => rlCounters'[k].count <= Rule(n).limit
        BY <2>1, <4>2
      <4> QED BY <4>1, <4>3, <4>4, Zenon
    <3>5. \A i \in DOMAIN rlDecided : rlDecided[i].at <= d.at
      BY <1>4 DEF RlInv
    <3>6. rlCounters[k] # NoCounter => rlCounters[k].start <= d.at
      BY <1>4, <2>3
    <3>7. MatchesAction(Rule(n), d.ctx) /\ CounterKey(Rule(n), d.ctx) = k
      BY <1>4, <2>4
    <3>8. /\ CounterTrue(Append(rlDecided, d), rlCounters'[k], Rule(n), k)
          /\ WithinLimits(Append(rlDecided, d), rlCounters'[k], Rule(n), k)
      BY <1>1, <1>4, <2>1, <2>3, <3>2, <3>3, <3>4, <3>5, <3>6, <3>7, OwnDecision
    <3>9. rlCounters'[k].start <= rlClock
      BY <1>1, <1>4, <2>3, <3>2
    <3> QED BY <1>1, <3>3, <3>8, <3>9
  <2>5. CASE ~(MatchesAction(Rule(n), ctx) /\ k = CounterKey(Rule(n), ctx))
    <3>1. rlCounters'[k] = rlCounters[k]
      BY <1>1, <1>2, <2>5 DEF TakenUpTo
    <3>2. ~(MatchesAction(Rule(n), d.ctx) /\ CounterKey(Rule(n), d.ctx) = k)
      BY <1>4, <2>5
    <3>3. /\ CounterTrue(Append(rlDecided, d), rlCounters[k], Rule(n), k)
          /\ WithinLimits(Append(rlDecided, d), rlCounters[k], Rule(n), k)
      BY <1>1, <1>4, <2>3, <3>2, OtherDecision
    <3> QED BY <1>1, <2>3, <2>5, <3>1, <3>3
  <2> QED BY <2>4, <2>5
<1>9. ASSUME NEW i \in DOMAIN rlDecided', ~rlDecided'[i].allowed
      PROVE  HadSpent(rlDecided', i)
  <2>1. CASE i \in DOMAIN rlDecided
    <3>1. HadSpent(rlDecided, i) /\ i \in 1..Len(rlDecided)
      BY <1>1, <1>5, <1>9, <2>1 DEF RlInv
    <3>2. \A j \in 1..i : j \in DOMAIN rlDecided
      BY <1>1, <3>1
    <3>3. ASSUME NEW r PROVE Spent(rlDecided', i, r) = Spent(rlDecided, i, r)
      BY <1>5, <2>1, <3>2 DEF Spent
    <3> QED BY <1>5, <2>1, <3>1, <3>3 DEF HadSpent
  <2>2. CASE i = N
    <3>1. out.exceeded
      BY <1>3, <1>4, <1>5, <1>9, <2>2
    <3>2. PICK n \in 1..Len(Rules) :
            /\ MatchesAction(Rule(n), ctx)
            /\ Shared(n) \/ out.counters[CounterKey(Rule(n), ctx)].count > Rule(n).limit
      BY <1>2, <3>1 DEF TakenUpTo
    <3>3. n \in DOMAIN Rules
      OBVIOUS
    <3>4. CASE Shared(n)
      BY <1>4, <1>5, <2>2, <3>2, <3>3, <3>4 DEF HadSpent
    <3>5. CASE ~Shared(n)
      <4> DEFINE r == Rule(n)
                 k == CounterKey(r, ctx)
                 c2 == rlCounters'[k]
      <4>1. n \in Unshared /\ k \in KeysOf(n)
        BY <3>3, <3>5 DEF Unshared, KeysOf
      <4>2. /\ c2 \in CounterSet /\ CounterTrue(rlDecided', c2, r, k)
            /\ c2.start <= rlClock \/ c2 = NoCounter
        BY <1>8, <3>2, <4>1
      <4>3. c2.count > r.limit
        BY <1>1, <3>2, <3>5
      <4>4. r.window \in Nat \ {0} /\ r.limit \in Nat \ {0}
        BY <3>3, RuleType
      <4>5. rlDecided'[N].at = rlClock /\ rlDecided'[N].ctx = ctx
        BY <1>4, <1>5
      <4>6. MatchesAction(r, ctx)
        BY <3>2
      <4> HIDE DEF c2
      <4>7. c2.start \in Nat /\ c2.count \in Nat \ {0} /\ c2 # NoCounter
        BY <4>2 DEF CounterSet, NoCounter
      <4>8. N \in Own(rlDecided', r, k, 0)
        BY <1>1, <1>5, <4>5, <4>6 DEF Own
      <4>9. rlClock < c2.start + r.window
        BY <4>2, <4>5, <4>7, <4>8 DEF CounterTrue
      <4>10. Cardinality(Own(rlDecided', r, k, c2.start)) = c2.count
        BY <4>2, <4>7 DEF CounterTrue
      <4>11. Own(rlDecided', r, k, c2.start) \subseteq Spent(rlDecided', N, r)
        <5> SUFFICES ASSUME NEW j \in Own(rlDecided', r, k, c2.start)
                     PROVE  j \in Spent(rlDecided', N, r)
          OBVIOUS
        <5>1. /\ j \in DOMAIN rlDecided' /\ rlDecided'[j].at >= c2.start
              /\ MatchesAction(r, rlDecided'[j].ctx) /\ CounterKey(r, rlDecided'[j].ctx) = k
          BY DEF Own
        <5>2. j \in 1..N
          BY <1>1, <1>5, <5>1
        <5>3. rlDecided'[j].at \in Nat
          BY <1>5, <5>1, DecidedAt
        <5>4. rlClock - rlDecided'[j].at < r.window
          <6>1. rlClock \in Nat
            BY <1>1
          <6> QED BY <4>4, <4>7, <4>9, <5>1, <5>3, <6>1
        <5> QED BY <4>5, <5>1, <5>2, <5>4 DEF Spent
      <4>12. IsFiniteSet(Spent(rlDecided', N, r)) /\ Cardinality(Spent(rlDecided', N, r)) \in Nat
        <5>1. Spent(rlDecided', N, r) \in SUBSET (DOMAIN rlDecided')
          BY <1>1, <1>5 DEF Spent
        <5> QED BY <1>5, <5>1, Finite
      <4>13. c2.count <= Cardinality(Spent(rlDecided', N, r))
        BY <4>10, <4>11, <4>12, FS_Subset
      <4>14. Cardinality(Spent(rlDecided', N, r)) > r.limit
        BY <4>3, <4>4, <4>7, <4>12, <4>13 DEF c2
      <4> QED BY <2>2, <3>3, <4>5, <4>6, <4>14 DEF HadSpent
    <3> QED BY <3>4, <3>5
  <2> QED BY <1>5, <2>1, <2>2
<1> QED BY <1>1, <1>6, <1>7, <1>8, <1>9 DEF RlInv

LEMMA RlNextInv == RlInv /\ [RlNext]_rlVars => RlInv'
<1> SUFFICES ASSUME RlInv, [RlNext]_rlVars PROVE RlInv'
  OBVIOUS
<1>1. ASSUME NEW c \in RlCallers, NEW ctx \in Contexts, Consume(c, ctx) PROVE RlInv'
  BY <1>1, ConsumeKeeps
<1>2. ASSUME NEW c \in RlCallers, DecisionAudited(c) \/ DecisionAuditFails(c) PROVE RlInv'
  <2>1. UNCHANGED <<rlCounters, rlClock, rlDecided>>
    BY <1>2 DEF DecisionAudited, DecisionAuditFails
  <2>2. RlTypeOK'
    BY <1>2, <2>1 DEF RlInv, RlTypeOK, DecisionAudited, DecisionAuditFails
  <2> QED BY <2>1, <2>2 DEF RlInv
<1>3. CASE RlReset
  <2>1. RlTypeOK'
    BY <1>3 DEF RlInv, RlTypeOK, RlReset
  <2>2. NothingCounted'
    BY <1>3 DEF RlReset, NothingCounted
  <2> QED BY <2>1, <2>2, NoneCounted, PTL
<1>4. CASE RlTick
  <2>1. UNCHANGED <<rlCounters, rlDecided>> /\ rlClock' = rlClock + 1 /\ rlClock \in Nat
    BY <1>4 DEF RlTick, RlInv, RlTypeOK
  <2>2. RlTypeOK'
    BY <1>4 DEF RlInv, RlTypeOK, RlTick
  <2>3. \A i \in DOMAIN rlDecided' : rlDecided'[i].at <= rlClock'
    <3>1. \A i \in DOMAIN rlDecided : rlDecided[i].at \in Nat /\ rlDecided[i].at <= rlClock
      BY DecidedAt DEF RlInv, RlTypeOK
    <3> QED BY <2>1, <3>1
  <2>4. ASSUME NEW n \in Unshared, NEW k \in KeysOf(n), rlCounters[k] # NoCounter
        PROVE  rlCounters[k].start <= rlClock'
    <3>1. k \in RlKeys
      BY KeysKnown DEF KeysOf, Unshared
    <3>2. rlCounters[k] \in CounterSet /\ rlCounters[k].start <= rlClock
      BY <2>4, <3>1 DEF RlInv, RlTypeOK
    <3>3. rlCounters[k].start \in Nat
      BY <3>2 DEF CounterSet
    <3> QED BY <2>1, <3>2, <3>3
  <2> QED BY <2>1, <2>2, <2>3, <2>4 DEF RlInv
<1>5. CASE UNCHANGED rlVars
  BY <1>5 DEF RlInv, rlVars, RlTypeOK
<1> QED BY <1>1, <1>2, <1>3, <1>4, <1>5 DEF RlNext

LEMMA RlInvSound == RlInv => RateLimiterSound
<1> SUFFICES ASSUME RlInv PROVE RateLimiterSound
  OBVIOUS
<1>1. LimitsHold
  <2> SUFFICES ASSUME NEW n \in {m \in DOMAIN Rules : ~Shared(m)}, NEW ctx \in Contexts
               PROVE  LET r == Rule(n)
                          key == CounterKey(r, ctx)
                          start == rlCounters[key].start
                      IN  /\ start >= 0 => AllowedIn(r, key, start, start + r.window) <= r.limit
                          /\ \A from \in 0..rlClock :
                               AllowedIn(r, key, from, from + r.window) <= 2 * r.limit
    BY DEF LimitsHold
  <2> DEFINE r == Rule(n)
             key == CounterKey(r, ctx)
  <2>1. n \in Unshared /\ key \in KeysOf(n)
    BY DEF Unshared, KeysOf
  <2>2. WithinLimits(rlDecided, rlCounters[key], r, key)
    BY <2>1 DEF RlInv
  <2>3. \A from, to : AllowedIn(r, key, from, to) = Cardinality(Hits(rlDecided, r, key, from, to))
    BY DEF AllowedIn, Hits
  <2>4. \A from \in 0..rlClock : from \in Int
    BY DEF RlInv, RlTypeOK
  <2>5. rlCounters[key].start >= 0 => rlCounters[key] # NoCounter
    BY DEF NoCounter
  <2> HIDE DEF r, key
  <2>6. rlCounters[key].start >= 0
        => AllowedIn(r, key, rlCounters[key].start, rlCounters[key].start + r.window) <= r.limit
    BY <2>2, <2>3, <2>5 DEF WithinLimits
  <2>7. \A from \in 0..rlClock : AllowedIn(r, key, from, from + r.window) <= 2 * r.limit
    BY <2>2, <2>3, <2>4 DEF WithinLimits
  <2> QED BY <2>6, <2>7 DEF r, key
<1>2. DeniedHadSpent
  <2> SUFFICES ASSUME NEW i \in DOMAIN rlDecided, ~rlDecided[i].allowed
               PROVE  \E n \in DOMAIN Rules :
                        /\ MatchesAction(Rule(n), rlDecided[i].ctx)
                        /\ \/ Shared(n)
                           \/ Cardinality(Spent(rlDecided, i, Rule(n))) > Rule(n).limit
    BY DEF DeniedHadSpent, Spent
  <2> QED BY DEF RlInv, HadSpent
<1> QED BY <1>1, <1>2 DEF RateLimiterSound

\* The counters, the clock and the history have their types.
THEOREM RateLimiterTypeCorrect == RlSpec => []RlTypeOK
<1>1. RlInv => RlTypeOK
  BY DEF RlInv
<1> QED BY <1>1, RlInitInv, RlNextInv, PTL DEF RlSpec

\* Whatever rules are configured and however calls overlap, no key of a rule that
\* shares its counters with no other is allowed more than the limit in the
\* counter's window, or twice the limit in any time so long, and nobody is denied
\* for the calls of another key.
THEOREM LimitsKept == RlSpec => []RateLimiterSound
  BY RlInitInv, RlNextInv, RlInvSound, PTL DEF RlSpec
=============================================================================
