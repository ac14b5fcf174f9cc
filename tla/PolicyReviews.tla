----------------------------- MODULE PolicyReviews -----------------------------
(***************************************************************************)
(* What packages/core/src/policy computes about policies and their use:    *)
(* deployment plans from documents in a repository (policy-as-code.ts) and *)
(* anomalies in the audited evaluations (permission-anomaly.ts).           *)
(*                                                                         *)
(* A rule is its id and a body that stands for the rest; a document is its *)
(* sequence of rules.  Rates are compared by cross-multiplication.         *)
(***************************************************************************)
EXTENDS Integers, FiniteSets, SequencesExt, Questions

CONSTANTS RuleIds,      \* a set of naturals: their order is the order of ids
          RuleBodies,
          DocumentLength, \* bound on the rules of a document
          Files,        \* how many files the repository has, in path order
          Windows,      \* records of a duration and a baseline duration
          Thresholds,   \* of the anomaly detector
          Actors,       \* actor names, as sequences of what "::" separates
          Tools,        \* tool names, likewise
          ReportedAt,   \* the moment a report is made
          Entries       \* bound on the evaluations looked at

ASSUME ReviewsAssumption ==
  /\ RuleIds \subseteq Nat /\ {DocumentLength, Files, ReportedAt, Entries} \subseteq Nat
  /\ \A w \in Windows : w.duration \in Nat \ {0} /\ w.baseline \in Nat \ {0}
  /\ Actors \cup Tools \subseteq Seq(STRING)

(* The rate of no evaluations is not asked for: multiplied across, rates are
   compared as the code compares them only where there are some. *)
ASSUME ThresholdsAssumption ==
  Thresholds \in [spike : [minCurrent : Nat \ {0}, minBaseline : Nat \ {0}, multiplier : Nat,
                          rate : Nat, rateOf : Nat, increase : Nat, increaseOf : Nat],
                 burst : [minEvents : Nat, multiplier : Nat, increase : Nat],
                 deviation : [minCurrent : Nat, ratio : Nat, minDelta : Nat]]

-----------------------------------------------------------------------------
(* Documents *)

PolicyRule == [id : RuleIds, body : RuleBodies]

(* The schema asks for one rule at least; two rules of one id pass it.  The
   empty document also stands for one that cannot be read or parsed. *)
ValidatePolicyDocument(doc) == doc # <<>>

DuplicateRuleIds(doc) ==
  {doc[i].id : i \in {j \in DOMAIN doc : \E k \in 1..(j-1) : doc[k].id = doc[j].id}}

(* Of several rules of one id the last remains. *)
LastById(rules) ==
  {rules[i] : i \in {j \in DOMAIN rules :
                       \A k \in (j+1)..Len(rules) : rules[k].id # rules[j].id}}

RuleById(ruleSet, id) == CHOOSE r \in ruleSet : r.id = id
IdsOf(ruleSet) == {r.id : r \in ruleSet}
SortedById(ruleSet) ==
  CHOOSE q \in [1..Cardinality(ruleSet) -> ruleSet] : \A i, j \in DOMAIN q : i < j => q[i].id < q[j].id

(* A repository path is the set of the files it leads to: a file reached twice
   is read once, in path order.  What cannot be read or is not valid is
   reported, and the rest is used. *)
CollectPolicyFiles(paths) == UNION paths

InPathOrder(files) ==
  CHOOSE q \in [1..Cardinality(files) -> files] : \A i, j \in DOMAIN q : i < j => q[i] < q[j]

LoadPolicyDocumentsFromPaths(paths, contents) ==
  LET files == CollectPolicyFiles(paths)
      good == InPathOrder({f \in files : ValidatePolicyDocument(contents[f])})
  IN  [documents |-> [i \in DOMAIN good |-> contents[good[i]]],
       failed |-> {f \in files : ~ValidatePolicyDocument(contents[f])}]

SetRules(byId, doc) == {r \in byId : r.id \notin IdsOf(Range(doc))} \cup LastById(doc)

MergePolicyDocuments(documents) ==
  LET byId[n \in 0..Len(documents)] == IF n = 0 THEN {} ELSE SetRules(byId[n - 1], documents[n])
  IN  SortedById(byId[Len(documents)])

EmptyChanges == [add |-> {}, remove |-> {}, update |-> {}, unchanged |-> {}]

CreatePolicyDeploymentPlan(current, candidate, dryRun) ==
  LET before == LastById(current)
      after == LastById(candidate)
      both == IdsOf(before) \cap IdsOf(after)
      same == {id \in both : RuleById(before, id) = RuleById(after, id)}
      changes == [add |-> {r \in after : r.id \notin IdsOf(before)},
                  remove |-> {r \in before : r.id \notin IdsOf(after)},
                  update |-> {RuleById(after, id) : id \in both \ same},
                  unchanged |-> same]
      ok == /\ ValidatePolicyDocument(current) /\ ValidatePolicyDocument(candidate)
            /\ DuplicateRuleIds(candidate) = {}
  IN  [ok |-> ok, dryRun |-> dryRun, current |-> current,
       next |-> IF ok THEN SortedById(after) ELSE current,
       changes |-> IF ok THEN changes ELSE EmptyChanges]

ApplyPolicyDeploymentPlan(plan) ==
  IF plan.ok /\ ~plan.dryRun
  THEN [applied |-> TRUE, document |-> plan.next]
  ELSE [applied |-> FALSE, document |-> plan.current]

-----------------------------------------------------------------------------
(* Anomalies: entries are records [at, actor, tool, denied] *)

Count(S) == Cardinality(S)

(* Entries at the end of a range belong to the next one. *)
InRange(entries, from, to) == {i \in DOMAIN entries : entries[i].at >= from /\ entries[i].at < to}

Current(entries, w, end) == InRange(entries, end - w.duration, end)
Baseline(entries, w, end) == InRange(entries, end - w.duration - w.baseline, end - w.duration)

Larger(a, b) == IF a > b THEN a ELSE b

DenyRateSpike(entries, w, end) ==
  LET now == Current(entries, w, end) past == Baseline(entries, w, end)
      denied(S) == Count({i \in S : entries[i].denied})
      t == Thresholds.spike
  IN  /\ Count(now) >= t.minCurrent /\ Count(past) >= t.minBaseline
      /\ t.rateOf * denied(now) >= t.rate * Count(now)
      /\ denied(now) * Count(past) >= t.multiplier * denied(past) * Count(now)
      /\ t.increaseOf * (denied(now) * Count(past) - denied(past) * Count(now))
           >= t.increase * Count(now) * Count(past)

(* Evaluations are counted under the actor and the tool with "::" between. *)
CountKey(e) == e.actor \o e.tool

Bursts(entries, w, end) ==
  LET now == Current(entries, w, end) past == Baseline(entries, w, end)
      ofKey(S, k) == Count({i \in S : CountKey(entries[i]) = k})
      t == Thresholds.burst
      scaled(k) == ofKey(past, k) * w.duration    \* the expected count times w.baseline
  IN  {k \in {CountKey(entries[i]) : i \in now} :
         /\ ofKey(now, k) >= t.minEvents
         /\ ofKey(now, k) * w.baseline >= Larger(scaled(k) * t.multiplier,
                                                 scaled(k) + t.increase * w.baseline)}

(* The report reads the actor and the tool back from the key. *)
ReportedBursts(entries, w, end) == {<<k[1], k[2]>> : k \in Bursts(entries, w, end)}

DeviationOfAny(entries, w, end) ==
  LET delta == Count(Current(entries, w, end)) * w.baseline
                 - Count(Baseline(entries, w, end)) * w.duration
      size == IF delta < 0 THEN -delta ELSE delta
  IN  size >= Thresholds.deviation.minDelta * w.baseline

BaselineDeviation(entries, w, end) ==
  LET count == Count(Current(entries, w, end))
      scaled == Count(Baseline(entries, w, end)) * w.duration
      delta == count * w.baseline - scaled
      size == IF delta < 0 THEN -delta ELSE delta
      t == Thresholds.deviation
  IN  /\ count >= t.minCurrent
      /\ size >= t.minDelta * w.baseline
      /\ size >= t.ratio * Larger(scaled, w.baseline)

-----------------------------------------------------------------------------
(* Questions *)

Documents == UNION {[1..n -> PolicyRule] : n \in 0..DocumentLength}

PlanQuestions == [about : {"plan"}, current : Documents, candidate : Documents, dryRun : BOOLEAN]

RepositoryQuestions ==
  [about : {"repository"}, contents : [1..Files -> Documents],
   paths : {P \in SUBSET ((SUBSET (1..Files)) \ {{}}) : UNION P = 1..Files}, deployed : Documents]

Evaluations == [at : 0..ReportedAt, actor : Actors, tool : Tools, denied : BOOLEAN]

AnomalyQuestions ==
  {q \in [about : {"anomaly"}, entries : SeqOf(Evaluations, Entries), window : Windows] :
     \A i, j \in DOMAIN q.entries : i < j => q.entries[i].at <= q.entries[j].at}

(* The changes a plan lists lead from the deployed rules to what applying it
   deploys, each rule in one of them only; a plan that is not ok or a dry run
   deploys what was deployed, and planning again after it finds nothing. *)
PlanExplainsDeployment ==
  LET plan == CreatePolicyDeploymentPlan(asked.current, asked.candidate, asked.dryRun)
      c == plan.changes
      result == ApplyPolicyDeploymentPlan(plan)
      again == CreatePolicyDeploymentPlan(result.document, asked.candidate, asked.dryRun)
      deployed == LastById(asked.current)
  IN  /\ result.applied =>
           /\ Range(result.document) =
                {r \in deployed : r.id \notin IdsOf(c.remove \cup c.update)} \cup c.add \cup c.update
           /\ c.unchanged \cup IdsOf(c.add \cup c.update \cup c.remove)
                = IdsOf(deployed) \cup IdsOf(Range(asked.candidate))
           /\ again.ok /\ again.changes = [EmptyChanges EXCEPT !.unchanged = IdsOf(Range(result.document))]
      /\ ~result.applied => result.document = asked.current

(* Deploying what a repository holds removes no rule that a file of it has, and
   deploys each rule as the last of the files that have it does, unless that
   file was reported as failed: it then takes its rules out of the plan. *)
OnlyFailedFilesLoseRules ==
  LET load == LoadPolicyDocumentsFromPaths(asked.paths, asked.contents)
      merged == MergePolicyDocuments(load.documents)
      plan == CreatePolicyDeploymentPlan(asked.deployed, merged, FALSE)
      ofFile(f) == LastById(asked.contents[f])
      holders(id) == {f \in (1..Files) \ load.failed : id \in IdsOf(ofFile(f))}
  IN  plan.ok => \A id \in RuleIds : holders(id) # {} =>
        LET last == CHOOSE f \in holders(id) : \A g \in holders(id) : g <= f
        IN  /\ id \notin IdsOf(plan.changes.remove)
            /\ RuleById(ofFile(last), id) \in Range(plan.next)

(* One more denial in the window never clears a spike of denials; one more
   evaluation in the window never clears a burst; a reported deviation is
   always a rise, with a ratio of one and a first evaluation asked for, although
   the report has words for a fall; and the pair reported as bursting is one
   that evaluated that often unless a name holds the separator. *)
AnomaliesSound ==
    LET w == asked.window
        now == Current(asked.entries, w, ReportedAt)
        past == Baseline(asked.entries, w, ReportedAt)
        plain == \A i \in DOMAIN asked.entries : /\ Len(asked.entries[i].actor) = 1
                                                 /\ Len(asked.entries[i].tool) = 1
        more(i) == Append(asked.entries, asked.entries[i])
    IN  /\ DenyRateSpike(asked.entries, w, ReportedAt) =>
             \A i \in now : DenyRateSpike([asked.entries EXCEPT ![i].denied = TRUE], w, ReportedAt)
        /\ \A i \in now : Bursts(asked.entries, w, ReportedAt) \subseteq Bursts(more(i), w, ReportedAt)
        /\ BaselineDeviation(asked.entries, w, ReportedAt)
             /\ Thresholds.deviation.ratio >= 1 /\ Thresholds.deviation.minCurrent >= 1 =>
               Count(now) * w.baseline > Count(past) * w.duration
        /\ plain => \A pair \in ReportedBursts(asked.entries, w, ReportedAt) :
             Thresholds.burst.minEvents <=
               Count({i \in now : asked.entries[i].actor = <<pair[1]>> /\ asked.entries[i].tool = <<pair[2]>>})
        /\ now \cap past = {}

(* Deployment plans say what they do and do what they say, and reports of
   anomalies are about what happened. *)
PolicyReviewsSound == /\ AskedAbout("plan") => PlanExplainsDeployment
                      /\ AskedAbout("repository") => OnlyFailedFilesLoseRules
                      /\ AskedAbout("anomaly") => AnomaliesSound

ReviewsNext == Ask(PlanQuestions) \/ Ask(RepositoryQuestions) \/ Ask(AnomalyQuestions)
=============================================================================
