------------------------------ MODULE RateLimiter ------------------------------
(***************************************************************************)
(* RateLimiter of packages/core/src/policy/rate-limiter.ts: fixed windows, *)
(* one counter per rule id and values of the rule's dimensions.            *)
(*                                                                         *)
(* consume takes a unit of every matching rule synchronously, also when it *)
(* denies, and then awaits the audit entry; when that append fails the     *)
(* call rejects with its units spent.                                      *)
(***************************************************************************)
EXTENDS Integers, FiniteSets, Sequences

CONSTANTS Rules,        \* the configured rules before normalizeRule, in the order
                        \* the constructor sorts them in
          Contexts,     \* actor, tool, project (or Unset) and action of a call
          Unset,        \* a context without a tool or a project
          RlCallers,    \* concurrent calls of consume
          RlMaxTime,    \* bound on the clock
          MaxConsumes   \* bound on the calls

Dimensions == {"actor", "tool", "project"}

ASSUME RlAssumption ==
  /\ RlMaxTime \in Nat /\ MaxConsumes \in Nat
  /\ Rules \in Seq({Rules[n] : n \in DOMAIN Rules})
  /\ \A n \in DOMAIN Rules : /\ Rules[n].dims \subseteq Dimensions
                             /\ Rules[n].limit \in Int /\ Rules[n].window \in Int

VARIABLES rlCounters,   \* the counter of each key: count and start of its window
          rlClock,
          rlCall,       \* what each caller's consume awaits or came to
          rlDecided     \* history: the decisions, in order

rlVars == <<rlCounters, rlClock, rlCall, rlDecided>>

AtLeastOne(n) == IF n < 1 THEN 1 ELSE n

(* limit and window are at least 1; an empty action list matches everything. *)
NormalizeRule(r) == [id |-> r.id, dims |-> r.dims, actions |-> r.actions,
                     limit |-> AtLeastOne(r.limit), window |-> AtLeastOne(r.window)]

Rule(n) == NormalizeRule(Rules[n])

MatchesAction(r, ctx) == r.actions = {} \/ ctx.action \in r.actions

(* Rules of one id and the same dimensions share their counters. *)
CounterKey(r, ctx) == <<r.id, [d \in r.dims |-> ctx[d]]>>

RlKeys == {CounterKey(Rule(n), ctx) : n \in DOMAIN Rules, ctx \in Contexts}
NoCounter == [count |-> 0, start |-> -1]
CounterSet == [count : Nat \ {0}, start : 0..RlMaxTime]
Decisions == [at : 0..RlMaxTime, ctx : Contexts, allowed : BOOLEAN]

RlTypeOK == /\ rlCounters \in [RlKeys -> CounterSet \cup {NoCounter}]
            /\ rlClock \in 0..RlMaxTime
            /\ rlCall \in [RlCallers -> {"none", "allow", "deny", "allowed", "denied", "failed"}]
            /\ rlDecided \in Seq(Decisions) /\ Len(rlDecided) <= MaxConsumes

RlInit == /\ rlCounters = [k \in RlKeys |-> NoCounter]
          /\ rlClock = 0
          /\ rlCall = [c \in RlCallers |-> "none"]
          /\ rlDecided = <<>>

(* A mistake in IsWindowExpired. *)
OutlastsWindow(counter, r) == rlClock - counter.start > r.window

IsWindowExpired(counter, r) == rlClock - counter.start >= r.window

(* The counters after one rule took its unit. *)
ConsumeRule(counters, r, ctx) ==
  LET k == CounterKey(r, ctx)
      old == counters[k]
      base == IF old = NoCounter \/ IsWindowExpired(old, r)
              THEN [count |-> 0, start |-> rlClock] ELSE old
  IN  [counters EXCEPT ![k] = [base EXCEPT !.count = @ + 1]]

Exceeds(counters, r, ctx) == counters[CounterKey(r, ctx)].count > r.limit

(* A matching rule takes its unit and is checked against it. *)
RuleTaken(acc, r, ctx) ==
  IF MatchesAction(r, ctx)
  THEN LET next == ConsumeRule(acc.counters, r, ctx)
       IN  [counters |-> next, exceeded |-> acc.exceeded \/ Exceeds(next, r, ctx)]
  ELSE acc

(* One rule after the other, all of them even when one is exceeded. *)
RulesConsumed(ctx) ==
  LET taken[n \in 0..Len(Rules)] ==
        IF n = 0 THEN [counters |-> rlCounters, exceeded |-> FALSE]
        ELSE RuleTaken(taken[n - 1], Rule(n), ctx)
  IN  taken[Len(Rules)]

InAudit(c) == rlCall[c] \in {"allow", "deny"}

Consume(c, ctx) ==
  /\ ~InAudit(c) /\ Len(rlDecided) < MaxConsumes
  /\ LET outcome == RulesConsumed(ctx)
     IN  /\ rlCounters' = outcome.counters
         /\ rlCall' = [rlCall EXCEPT ![c] = IF outcome.exceeded THEN "deny" ELSE "allow"]
         /\ rlDecided' = Append(rlDecided, [at |-> rlClock, ctx |-> ctx,
                                            allowed |-> ~outcome.exceeded])
  /\ UNCHANGED rlClock

(* enforceRateLimit throws when the decision is a denial. *)
DecisionAudited(c) ==
  /\ InAudit(c)
  /\ rlCall' = [rlCall EXCEPT ![c] = IF @ = "allow" THEN "allowed" ELSE "denied"]
  /\ UNCHANGED <<rlCounters, rlClock, rlDecided>>

DecisionAuditFails(c) ==
  /\ InAudit(c)
  /\ rlCall' = [rlCall EXCEPT ![c] = "failed"]
  /\ UNCHANGED <<rlCounters, rlClock, rlDecided>>

RlReset == /\ rlCounters' = [k \in RlKeys |-> NoCounter]
           /\ rlDecided' = <<>>
           /\ UNCHANGED <<rlClock, rlCall>>

RlTick == /\ rlClock < RlMaxTime
          /\ rlClock' = rlClock + 1
          /\ UNCHANGED <<rlCounters, rlCall, rlDecided>>

RlNext == \/ \E c \in RlCallers : \/ \E ctx \in Contexts : Consume(c, ctx)
                                  \/ DecisionAudited(c)
                                  \/ DecisionAuditFails(c)
          \/ RlReset
          \/ RlTick

RlSpec == RlInit /\ [][RlNext]_rlVars

-----------------------------------------------------------------------------
AllowedIn(r, key, from, to) ==
  Cardinality({i \in DOMAIN rlDecided :
                 LET d == rlDecided[i]
                 IN  /\ d.allowed /\ d.at >= from /\ d.at < to
                     /\ MatchesAction(r, d.ctx) /\ CounterKey(r, d.ctx) = key})

Shared(n) == \E m \in DOMAIN Rules : /\ m # n /\ Rules[m].id = Rules[n].id
                                     /\ Rules[m].dims = Rules[n].dims

(* However calls overlap and wherever windows begin, no stretch of time as
   long as a rule's window sees more than twice its limit allowed, and the
   current window no more than the limit: the burst across the edge of two
   fixed windows is all that is ever added.  Rules that share their counter
   with another window length give no such bound. *)
LimitsHold ==
  \A n \in {m \in DOMAIN Rules : ~Shared(m)}, ctx \in Contexts :
     LET r == Rule(n)
         key == CounterKey(r, ctx)
         start == rlCounters[key].start
     IN  /\ start >= 0 => AllowedIn(r, key, start, start + r.window) <= r.limit
         /\ \A from \in 0..rlClock : AllowedIn(r, key, from, from + r.window) <= 2 * r.limit

(* Nobody is denied for another's calls: a denied call follows, within the
   window of a rule it matches, as many calls of its own key as that rule's
   limit.  Only a rule that shares its counter may deny for less. *)
DeniedHadSpent ==
  \A i \in DOMAIN rlDecided : ~rlDecided[i].allowed =>
     \E n \in DOMAIN Rules :
        LET r == Rule(n)
            own == {j \in 1..i :
                      /\ rlDecided[i].at - rlDecided[j].at < r.window
                      /\ MatchesAction(r, rlDecided[j].ctx)
                      /\ CounterKey(r, rlDecided[j].ctx) = CounterKey(r, rlDecided[i].ctx)}
        IN  /\ MatchesAction(r, rlDecided[i].ctx)
            /\ Shared(n) \/ Cardinality(own) > r.limit

(* What the limiter promises to those it limits. *)
RateLimiterSound == LimitsHold /\ DeniedHadSpent
=============================================================================
