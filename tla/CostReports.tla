------------------------------ MODULE CostReports ------------------------------
(***************************************************************************)
(* What is made of the usage that was collected: the attribution the       *)
(* collector gives (usage-collector.ts), the filters, summaries and        *)
(* buckets of InMemoryUsageStorage, the costs of cost-schema.ts and        *)
(* cost-conversion.ts, and the reports over them: cost-dashboard.ts,       *)
(* cost-attribution-report.ts, chargeback-report.ts, cost-anomaly.ts and   *)
(* cost-routing-recommendations.ts.                                        *)
(*                                                                         *)
(* A name is a sequence of parts: joining two with "::" is appending them, *)
(* so that names which hold the separator can be mistaken.  Prices are per *)
(* token.                                                                  *)
(***************************************************************************)
EXTENDS Questions, Integers, FiniteSetsExt, SequencesExt, Functions

CONSTANTS UsageSamples,   \* the events reports are made of
          UsageInputs,    \* attributions given to the collector
          Prices,         \* price lists: functions from models to prices
          Mappings,       \* sequences of chargeback rules
          InfraRecords,   \* infrastructure costs: amount, start and end
          AnomalyFactor,  \* thresholdMultiplier
          ReportSpan      \* length of the periods reported on, in units of time

Unknown == <<"unknown">>
Dims == {"developer", "team", "skill"}

-----------------------------------------------------------------------------
(* Attribution *)

NormalizeAttribution(a) == [a EXCEPT !.developer = OrElse(a.developer, a.user),
                                     !.user = OrElse(a.user, a.developer)]

(* defaults, then what the adapter says, then what the call says *)
Overlaid(a, b) == [d \in DOMAIN a |-> OrElse(b[d], a[d])]

Collected(default, given, type, dataSkill) ==
  LET a == NormalizeAttribution(Overlaid(NormalizeAttribution(default), given))
  IN  [a EXCEPT !.skill = IF type = "skill" THEN OrElse(a.skill, dataSkill) ELSE @]

SkillOf(e) == OrElse(OrElse(e.attribution.skill, IF e.type = "skill" THEN e.dataSkill ELSE None), Unknown)

(* getAttributionValue of usage-storage.ts *)
ValueOf(e, dim) ==
  CASE dim = "developer" -> OrElse(OrElse(e.attribution.developer, e.attribution.user), Unknown)
    [] dim = "user" -> OrElse(OrElse(e.attribution.user, e.attribution.developer), Unknown)
    [] dim = "skill" -> SkillOf(e)
    [] OTHER -> OrElse(e.attribution[dim], Unknown)

(* filterEvents for one dimension; "user" looks at the developer first. *)
PassesFilter(e, dim, value) ==
  IF dim \in {"developer", "user"} THEN OrElse(e.attribution.developer, e.attribution.user) = value
  ELSE e.attribution[dim] = value

-----------------------------------------------------------------------------
(* Costs *)

Priced(e, prices) == e.type = "llm" /\ e.model \in DOMAIN prices

TokenCost(e, price) == e.input * price.input + e.output * price.output

CalculateLlmCost(e, price) ==
  TokenCost(e, price) + IF price.cached = None THEN 0 ELSE e.cached * price.cached

EventCost(e, prices) == IF Priced(e, prices) THEN CalculateLlmCost(e, prices[e.model]) ELSE 0

Tokens(e) == IF e.type = "llm" THEN e.input + e.output ELSE 0

Sum(events, own, of(_)) == MapThenSumSet(LAMBDA i : of(events[i]), own)

(* aggregateUsageBy..., summarize...: one row per key of an event. *)
Grouped(events, prices, keys) ==
  [k \in Range(keys) |->
     LET own == {i \in DOMAIN events : keys[i] = k}
     IN  [cost |-> Sum(events, own, LAMBDA e : EventCost(e, prices)),
          tokens |-> Sum(events, own, Tokens), count |-> Cardinality(own)]]

Column(rows, field) == MapThenSumSet(LAMBDA k : rows[k][field], DOMAIN rows)

TotalCost(events, prices) == Sum(events, DOMAIN events, LAMBDA e : EventCost(e, prices))

Joined(e, dims) == FlattenSeq([i \in DOMAIN dims |-> ValueOf(e, dims[i])])

ByDimensions(events, prices, dims) ==
  Grouped(events, prices, [i \in DOMAIN events |-> Joined(events[i], dims)])

(* The dashboard's summary has models only where there is a price. *)
ByModel(events, prices) ==
  LET priced == {i \in DOMAIN events : Priced(events[i], prices)}
  IN  [m \in {events[i].model : i \in priced} |->
         Sum(events, {i \in priced : events[i].model = m}, LAMBDA e : EventCost(e, prices))]

(* CostConversionService with strategy "zero" *)
ConvertEvents(events, prices, fallback) ==
  LET missing == {i \in DOMAIN events : events[i].type = "llm" /\ ~Priced(events[i], prices)}
  IN  [total |-> TotalCost(events, prices)
                 + Sum(events, missing, LAMBDA e : CalculateLlmCost(e, fallback)),
       missing |-> Cardinality(missing)]

-----------------------------------------------------------------------------
(* Chargeback: the first rule that matches says whose cost it is. *)
MatchesAttribution(attribution, match) == \A d \in DOMAIN match : attribution[d] = match[d]

(* A mistake in Mapping. *)
LastMapping(e, rules) ==
  LET fits == SelectSeq(rules, LAMBDA r : MatchesAttribution(e.attribution, r.match))
  IN  IF fits = <<>> THEN None ELSE Last(fits)

Mapping(e, rules) ==
  LET fits == SelectSeq(rules, LAMBDA r : MatchesAttribution(e.attribution, r.match))
  IN  IF fits = <<>> THEN None ELSE Head(fits)

ChargedTo(e, rules) ==
  LET rule == Mapping(e, rules)
      center == OrElse(e.attribution.center, <<"unmapped">>)
  IN  IF rule = None THEN <<center, "costCenter", center>> ELSE <<rule.center, rule.type, rule.group>>

ChargebackKey(e, rules) ==
  LET to == ChargedTo(e, rules) IN to[1] \o <<to[2]>> \o to[3]

ChargebackRows(events, prices, rules) ==
  Grouped(events, prices, [i \in DOMAIN events |-> ChargebackKey(events[i], rules)])

-----------------------------------------------------------------------------
(* The dashboard *)

InPeriod(events, from, to) == SelectSeq(events, LAMBDA e : e.time >= from /\ e.time < to)

Infrastructure(records, from, to) ==
  MapThenSumSet(LAMBDA r : r.amount, {r \in records : r.end > from /\ r.start < to})

(* buildHistory: points of one unit up to now *)
Point(events, prices, records, i) ==
  [application |-> TotalCost(InPeriod(events, i - 1, i), prices), infrastructure |-> Infrastructure(records, i - 1, i)]

History(events, prices, records, now, points) ==
  [i \in (now - points + 1)..now |-> Point(events, prices, records, i)]

-----------------------------------------------------------------------------
(* findAnomalies: a window of one unit against the count units before it *)
TokensOf(events, subject, from, to) ==
  LET own == SelectSeq(InPeriod(events, from, to), LAMBDA e : OrElse(e.attribution.developer, Unknown) = subject)
  IN  Sum(own, DOMAIN own, Tokens)

Anomaly(events, subject, now, count) ==
  LET current == TokensOf(events, subject, now - 1, now)
      baseline == TokensOf(events, subject, now - 1 - count, now - 1)
  IN  CASE baseline = 0 \/ current * count < AnomalyFactor * baseline -> "none"
        [] baseline > 0 /\ current * count >= 2 * AnomalyFactor * baseline -> "critical"
        [] OTHER -> "warning"

-----------------------------------------------------------------------------
(* generateModelRoutingRecommendations; what was cached is not looked at. *)

TaskOf(e) == OrElse(OrElse(e.attribution.category, e.attribution.skill), <<"general">>)

Patterns(events) ==
  {[model |-> e.model, task |-> TaskOf(e)] : e \in {d \in Range(events) : d.type = "llm"}}

UsesOf(events, pattern) ==
  SelectSeq(events, LAMBDA e : e.type = "llm" /\ e.model = pattern.model /\ TaskOf(e) = pattern.task)

EstimateCost(uses, price) == Sum(uses, DOMAIN uses, LAMBDA e : TokenCost(e, price))

(* A mistake in CheaperModels. *)
AnyCheaperModel(uses, pattern, prices) ==
  {m \in DOMAIN prices : EstimateCost(uses, prices[m]) < EstimateCost(uses, prices[pattern.model])}

(* of the same provider *)
CheaperModels(uses, pattern, prices) ==
  {m \in DOMAIN prices : /\ m[1] = pattern.model[1]
                         /\ EstimateCost(uses, prices[m]) < EstimateCost(uses, prices[pattern.model])}

Recommended(events, prices, minEvents) ==
  {r \in [pattern : Patterns(events), to : DOMAIN prices] :
     LET uses == UsesOf(events, r.pattern)
     IN  /\ Len(uses) >= minEvents /\ r.pattern.model \in DOMAIN prices
         /\ r.to \in CheaperModels(uses, r.pattern, prices)
         /\ \A m \in CheaperModels(uses, r.pattern, prices) :
              EstimateCost(uses, prices[r.to]) <= EstimateCost(uses, prices[m])}

-----------------------------------------------------------------------------
(* shouldFireAlert: cost as <<numerator, denominator>> *)
Evaluated(cost, alert, elapsed, period) ==
  IF alert.projected /\ elapsed > 0 /\ period > 0 THEN <<cost * period, elapsed>> ELSE <<cost, 1>>

ShouldFireAlert(cost, alert, elapsed, period) ==
  LET c == Evaluated(cost, alert, elapsed, period)
  IN  /\ alert.enabled
      /\ \/ alert.threshold # None /\ c[1] >= alert.threshold * c[2]
         \/ alert.budget # None
              /\ \E p \in IF alert.percentages = {} THEN {100} ELSE alert.percentages :
                   c[1] * 100 >= alert.budget * p * c[2]

(* evaluateCostCap *)
CostCapApplies(scope, attribution) == MatchesAttribution(attribution, scope)

-----------------------------------------------------------------------------
(* getBucketKey(..., "week") in a calendar of months of equal length *)
MonthLength == 30
WeekStart(day) == day - (day % 7)
WeekBucket(day) == <<WeekStart(day) \div (12 * MonthLength),
                     ((WeekStart(day) % MonthLength) + 1 + 1 + 6) \div 7>>

-----------------------------------------------------------------------------
AttributionQuestions ==
  [about : {"attribution"}, default : UsageInputs, given : UsageInputs, type : {"llm", "skill"},
   dataSkill : {<<"lint">>, <<"test">>}]

ReportQuestions ==
  [about : {"report"}, events : UNION {[1..n -> UsageSamples] : n \in 1..3}, prices : Prices,
   rules : Mappings]

BudgetQuestions ==
  [about : {"budget"}, cost : 0..4, elapsed : 0..2, period : {0, 2},
   alert : [enabled : BOOLEAN, projected : BOOLEAN, threshold : {None, 2}, budget : {None, 4},
            percentages : SUBSET {50, 100}]]

CalendarQuestions == [about : {"calendar"}, day : 0..99, other : 0..99]

-----------------------------------------------------------------------------
(* For what the collector made, asking the storage for the events of a value
   finds those the summary counts under that value, and a cap on a value
   applies to them; only a user id beside another developer id is found under
   the developer. *)
AttributionSound ==
  LET a == Collected(asked.default, asked.given, asked.type, asked.dataSkill)
      e == [type |-> asked.type, attribution |-> a, dataSkill |-> asked.dataSkill]
  IN  /\ \A dim \in Dims : a[dim] # None =>
           /\ PassesFilter(e, dim, ValueOf(e, dim))
           /\ CostCapApplies(dim :> ValueOf(e, dim), a)
      /\ a.user # None /\ a.user = a.developer => PassesFilter(e, "user", ValueOf(e, "user"))
      /\ (a.user = None) = (a.developer = None)
      /\ asked.given.developer # None => a.developer = asked.given.developer

PlainNames(events) ==
  \A e \in Range(events), d \in Dims : Len(ValueOf(e, d)) = 1

(* Every report divides up the same total, however it groups: by one dimension
   or several, by model, by cost center, converted event by event; and rows
   that are different to the reader stay apart unless a name holds the
   separator. *)
ReportsAddUp ==
  LET all == TotalCost(asked.events, asked.prices)
      rows(dims) == ByDimensions(asked.events, asked.prices, dims)
      charged == ChargebackRows(asked.events, asked.prices, asked.rules)
      models == ByModel(asked.events, asked.prices)
      free == [input |-> 0, output |-> 0, cached |-> None]
  IN  /\ \A dims \in {<<"developer">>, <<"skill">>, <<"developer", "team">>} :
           /\ Column(rows(dims), "cost") = all
           /\ Column(rows(dims), "count") = Len(asked.events)
           /\ PlainNames(asked.events) =>
                \A e, f \in Range(asked.events) :
                  Joined(e, dims) = Joined(f, dims) => \A i \in DOMAIN dims : ValueOf(e, dims[i]) = ValueOf(f, dims[i])
      /\ Column(charged, "cost") = all /\ Column(charged, "count") = Len(asked.events)
      /\ SumFunction(models) = all
      /\ ConvertEvents(asked.events, asked.prices, free).total = all

(* An event is charged to the first rule that matches it: a rule put in front
   takes over exactly what it matches. *)
EarlierRulesWin ==
  \A rule \in UNION {Range(m) : m \in Mappings}, e \in Range(asked.events) :
    LET with == ChargedTo(e, <<rule>> \o asked.rules)
    IN  IF MatchesAttribution(e.attribution, rule.match) THEN with = <<rule.center, rule.type, rule.group>>
        ELSE with = ChargedTo(e, asked.rules)

(* The points of the history add up to the window they cover in what the
   application cost; infrastructure is there in every point it overlaps, so
   it adds up only when no record reaches over a point's edge. *)
HistoryAddsUp ==
  \A records \in SUBSET InfraRecords :
    LET now == ReportSpan
        points == History(asked.events, asked.prices, records, now, ReportSpan)
        sum(field) == MapThenSumSet(LAMBDA i : points[i][field], DOMAIN points)
        spanning == {r \in records : r.end - r.start > 1}
    IN  /\ sum("application") = TotalCost(InPeriod(asked.events, 0, now), asked.prices)
        /\ sum("infrastructure") >= Infrastructure(records, 0, now)
        /\ spanning = {} => sum("infrastructure") = Infrastructure(records, 0, now)

(* Using more now never silences an alarm and having used more before never
   raises one; who has no past never has one. *)
AnomaliesAreRises ==
  LET rank(events, s) == CASE Anomaly(events, s, ReportSpan, ReportSpan - 1) = "none" -> 0
                           [] Anomaly(events, s, ReportSpan, ReportSpan - 1) = "warning" -> 1
                           [] OTHER -> 2
  IN  \A e \in Range(asked.events) :
        LET s == OrElse(e.attribution.developer, Unknown)
            before == rank(asked.events, s)
            after == rank(Append(asked.events, e), s)
        IN  /\ e.time = ReportSpan - 1 => after >= before
            /\ e.time < ReportSpan - 1 /\ before > 0 => after <= before
            /\ TokensOf(asked.events, s, 0, ReportSpan - 1) = 0 => before = 0

(* A recommended model is cheaper for the very events it was made from when
   nothing was cached, and no two recommendations send each other's tasks back
   and forth unless their prices cross between input and output. *)
RecommendationsSave ==
  LET all == Recommended(asked.events, asked.prices, 1)
      cross(m, n) == LET p == asked.prices[m]
                         q == asked.prices[n]
                     IN  (p.input - q.input) * (p.output - q.output) < 0
  IN  /\ \A r \in all :
           LET uses == UsesOf(asked.events, r.pattern)
               cost(model) == Sum(uses, DOMAIN uses, LAMBDA e : CalculateLlmCost(e, asked.prices[model]))
           IN  /\ r.to[1] = r.pattern.model[1]
               /\ (\A i \in DOMAIN uses : uses[i].cached = 0) => cost(r.to) < cost(r.pattern.model)
      /\ \A r, s \in all : r.to = s.pattern.model /\ s.to = r.pattern.model =>
           cross(r.to, s.to)

(* More cost never silences an alert, nor does a projection from within the
   period, nor another percentage. *)
AlertsAreMonotone ==
  LET fires(cost, alert) == ShouldFireAlert(cost, alert, asked.elapsed, asked.period)
  IN  fires(asked.cost, asked.alert) =>
        /\ fires(asked.cost + 1, asked.alert)
        /\ asked.elapsed <= asked.period => fires(asked.cost, [asked.alert EXCEPT !.projected = TRUE])
        /\ asked.alert.percentages # {} => fires(asked.cost, [asked.alert EXCEPT !.percentages = @ \cup {50}])

(* Two days share the bucket of a week when they share the week, and only
   then unless their weeks began in different months. *)
WeeksStayApart ==
  LET week == WeekStart(asked.day)
      other == WeekStart(asked.other)
  IN  /\ week = other => WeekBucket(asked.day) = WeekBucket(asked.other)
      /\ week # other /\ week \div MonthLength = other \div MonthLength =>
           WeekBucket(asked.day) # WeekBucket(asked.other)

(* Costs are attributed, added up and judged alike by every report. *)
CostsSound ==
  /\ AskedAbout("attribution") => AttributionSound
  /\ AskedAbout("report") => /\ ReportsAddUp /\ EarlierRulesWin /\ HistoryAddsUp
                             /\ AnomaliesAreRises /\ RecommendationsSave
  /\ AskedAbout("budget") => AlertsAreMonotone
  /\ AskedAbout("calendar") => WeeksStayApart
=============================================================================
