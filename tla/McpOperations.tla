----------------------------- MODULE McpOperations -----------------------------
(***************************************************************************)
(* McpHealthMonitorService of packages/core/src/mcp-health-monitor.ts:     *)
(* runs of the checks, started by the interval whether or not the run      *)
(* before has ended, with retries and timeouts; the state kept of each     *)
(* server; and the hooks, awaited one after the other once that state has  *)
(* been stored.                                                            *)
(***************************************************************************)
EXTENDS Integers, FiniteSets, SequencesExt

CONSTANTS HealthServers,
          HealthRuns,          \* concurrent calls of runChecks
          HealthRetries,       \* retries
          FailureThreshold, SuccessThreshold,
          MaxHealthChecks      \* bound on the checks of a server whose outcome is stored

ASSUME HealthAssumption == /\ {FailureThreshold, SuccessThreshold} \subseteq Nat \ {0}
                           /\ {HealthRetries, MaxHealthChecks} \subseteq Nat

VARIABLES hcStates,     \* states and successStreaks
          hcRun,        \* the run of each caller
          hcCheck,      \* checkServer, by run and server
          hcOutcomes,   \* history: outcomes stored of each server, in order
          hcStatuses,   \* history: statuses stored of each server, in order
          hcHeard,      \* history: transitions given to each hook, by server, with the place of the
                        \* new status in hcStatuses
          hcCrossed,    \* history: servers whose state was stored while hooks of an earlier check were awaited
          hcBroken      \* history: servers of which a hook was rejected

hcVars == <<hcStates, hcRun, hcCheck,
            hcOutcomes, hcStatuses, hcHeard, hcCrossed, hcBroken>>

hcTold == <<hcOutcomes, hcStatuses, hcHeard, hcCrossed, hcBroken>>

Hooks3 == {"onTransition", "onAudit", "onUnhealthy"}
NoCheck == [at |-> "none"]
NeverChecked == [status |-> "unknown", lastCheck |-> 0, failures |-> 0, streak |-> 0,
                 success |-> FALSE, timedOut |-> FALSE, retries |-> 0,
                 lastSuccess |-> -1, lastFailure |-> -1]

HcInit ==
  /\ hcStates = [s \in HealthServers |-> NeverChecked]
  /\ hcRun = [r \in HealthRuns |-> "idle"]
  /\ hcCheck = [r \in HealthRuns |-> [s \in HealthServers |-> NoCheck]]
  /\ hcOutcomes = [s \in HealthServers |-> <<>>]
  /\ hcStatuses = [s \in HealthServers |-> <<"unknown">>]
  /\ hcHeard = [s \in HealthServers |-> [h \in Hooks3 |-> <<>>]]
  /\ hcCrossed = {} /\ hcBroken = {}

At(r, s, place) == hcCheck[r][s].at = place
Becomes(r, s, check) == hcCheck' = [hcCheck EXCEPT ![r][s] = check]
Awaiting(check) == check.at \in {"onCheckComplete"} \cup Hooks3

-----------------------------------------------------------------------------
(* Runs *)

(* The interval fires, while start has set it and stop has not cleared it, or
   somebody calls runChecks. *)
RunChecks(r) == /\ hcRun[r] = "idle"
                /\ hcRun' = [hcRun EXCEPT ![r] = "listing"]
                /\ UNCHANGED <<hcStates, hcCheck, hcTold>>

NewCheck == [at |-> "asking", attempt |-> 0, timedOut |-> FALSE, retries |-> 0]

(* The registry has answered: of the servers it has by now, those that are
   enabled are checked at once.  The monitor keeps what it knows of the
   others. *)
ServersListed(r) == /\ hcRun[r] = "listing"
             /\ hcRun' = [hcRun EXCEPT ![r] = "checking"]
             /\ \E enabled \in SUBSET HealthServers :
                  hcCheck' = [hcCheck EXCEPT ![r] =
                                [s \in HealthServers |-> IF s \in enabled THEN NewCheck ELSE NoCheck]]
             /\ UNCHANGED <<hcStates, hcTold>>

(* Promise.all; after a rejection the other checks go on by themselves. *)
RunEnds(r) == /\ hcRun[r] = "checking"
              /\ \A s \in HealthServers : At(r, s, "none")
              /\ hcRun' = [hcRun EXCEPT ![r] = "idle"]
              /\ UNCHANGED <<hcStates, hcCheck, hcTold>>

-----------------------------------------------------------------------------
(* One check *)

(* Time has passed from one result that is stored to the next. *)
Now(s) == Len(hcOutcomes[s]) + 1

(* updateState, up to where the state is stored. *)
NextState(old, check, success, timedOut, now) ==
  LET failures == IF success THEN 0 ELSE old.failures + 1
      streak == IF success THEN old.streak + 1 ELSE 0
  IN  [status |-> IF success /\ streak >= SuccessThreshold THEN "healthy"
                  ELSE IF ~success /\ failures >= FailureThreshold THEN "unhealthy" ELSE "degraded",
       lastCheck |-> now, failures |-> failures, streak |-> streak,
       success |-> success, timedOut |-> timedOut, retries |-> check.retries,
       lastSuccess |-> IF success THEN now ELSE old.lastSuccess,
       lastFailure |-> IF success THEN old.lastFailure ELSE now]

(* No statement lets another task run between the answer and the state. *)
StoreResult(r, s, success, timedOut) ==
  LET old == hcStates[s]
      new == NextState(old, [hcCheck[r][s] EXCEPT !.retries = IF success THEN @ ELSE hcCheck[r][s].attempt],
                       success, timedOut, Now(s))
  IN  /\ Len(hcOutcomes[s]) < MaxHealthChecks
      /\ hcStates' = [hcStates EXCEPT ![s] = new]
      /\ Becomes(r, s, [at |-> "onCheckComplete", from |-> old.status, to |-> new.status,
                        nth |-> Len(hcStatuses[s]) + 1])
      /\ hcOutcomes' = [hcOutcomes EXCEPT ![s] = Append(@, success)]
      /\ hcStatuses' = [hcStatuses EXCEPT ![s] = Append(@, new.status)]
      /\ hcCrossed' = IF \E q \in HealthRuns \ {r} : Awaiting(hcCheck[q][s])
                      THEN hcCrossed \cup {s} ELSE hcCrossed
      /\ UNCHANGED <<hcRun, hcHeard, hcBroken>>

(* The checker answers; of a failure there is another attempt, without or
   after a delay. *)
Succeeds(r, s) == At(r, s, "asking") /\ StoreResult(r, s, TRUE, hcCheck[r][s].timedOut)

Retries(r, s, timedOut) ==
  /\ hcCheck[r][s].attempt < HealthRetries
  /\ Becomes(r, s, [hcCheck[r][s] EXCEPT !.attempt = @ + 1, !.retries = hcCheck[r][s].attempt,
                                        !.timedOut = timedOut])
  /\ UNCHANGED <<hcStates, hcRun, hcTold>>

FailsFinally(r, s, timedOut) == hcCheck[r][s].attempt = HealthRetries /\ StoreResult(r, s, FALSE, timedOut)

Fails(r, s) == /\ At(r, s, "asking")
               /\ Retries(r, s, hcCheck[r][s].timedOut) \/ FailsFinally(r, s, hcCheck[r][s].timedOut)

(* The timeout, or a checker that rejects: a later answer is dropped. *)
TimesOut(r, s) == At(r, s, "asking") /\ (Retries(r, s, TRUE) \/ FailsFinally(r, s, TRUE))

(* A checker that throws before it returns a promise ends the check. *)
ThrowsAtOnce(r, s) == /\ At(r, s, "asking") /\ Becomes(r, s, NoCheck)
                      /\ UNCHANGED <<hcStates, hcRun, hcTold>>

-----------------------------------------------------------------------------
(* Hooks *)

(* A mistake in Following: each check is a transition. *)
FollowingAlways(check) ==
  CASE check.at = "onCheckComplete" -> "onTransition"
    [] check.at = "onTransition" -> "onAudit"
    [] check.at = "onAudit" /\ check.to = "unhealthy" -> "onUnhealthy"
    [] OTHER -> "none"

(* The hook that is called when the one awaited at this place resolves. *)
Following(check) ==
  CASE check.at = "onCheckComplete" /\ check.from # check.to -> "onTransition"
    [] check.at = "onTransition" -> "onAudit"
    [] check.at = "onAudit" /\ check.to = "unhealthy" -> "onUnhealthy"
    [] OTHER -> "none"

HookResolves(r, s) ==
  LET check == hcCheck[r][s]
      next == Following(check)
  IN  /\ Awaiting(check)
      /\ Becomes(r, s, IF next = "none" THEN NoCheck ELSE [check EXCEPT !.at = next])
      /\ hcHeard' = IF next = "none" THEN hcHeard
                    ELSE [hcHeard EXCEPT ![s][next] =
                                          Append(@, [from |-> check.from, to |-> check.to, nth |-> check.nth])]
      /\ UNCHANGED <<hcStates, hcRun, hcOutcomes, hcStatuses, hcCrossed, hcBroken>>

(* The hooks that follow are not called, and runChecks is rejected. *)
HookRejects(r, s) ==
  /\ Awaiting(hcCheck[r][s]) /\ Becomes(r, s, NoCheck)
  /\ hcBroken' = hcBroken \cup {s}
  /\ UNCHANGED <<hcStates, hcRun, hcOutcomes, hcStatuses, hcHeard, hcCrossed>>

-----------------------------------------------------------------------------
HcNext ==
  \E r \in HealthRuns :
    \/ RunChecks(r) \/ ServersListed(r) \/ RunEnds(r)
    \/ \E s \in HealthServers :
         \/ Succeeds(r, s) \/ Fails(r, s) \/ TimesOut(r, s) \/ ThrowsAtOnce(r, s)
         \/ HookResolves(r, s) \/ HookRejects(r, s)

HcSpec == HcInit /\ [][HcNext]_hcVars
-----------------------------------------------------------------------------
(* The transitions of a server a hook should hear of, by the place of the new
   status among those the server went through. *)
DueTo(h, statuses) ==
  {n \in 2..Len(statuses) : /\ statuses[n - 1] # statuses[n]
                            /\ h = "onUnhealthy" => statuses[n] = "unhealthy"}

Trailing(outcomes, value) ==
  LET longest == {n \in 0..Len(outcomes) :
                    \A i \in (Len(outcomes) - n + 1)..Len(outcomes) : outcomes[i] = value}
  IN  CHOOSE n \in longest : \A m \in longest : m <= n

(* The status of a server says what the outcomes stored last were, whichever
   run they came from: unhealthy after FailureThreshold failures in a row,
   healthy after SuccessThreshold successes. *)
StatusFollowsOutcomes ==
  \A s \in HealthServers :
    LET outcomes == hcOutcomes[s]
        status == hcStates[s].status
    IN  /\ status = "unknown" <=> outcomes = <<>>
        /\ status = "unhealthy" <=> Trailing(outcomes, FALSE) >= FailureThreshold
        /\ status = "healthy" <=> Trailing(outcomes, TRUE) >= SuccessThreshold

LastOf(outcomes, value) ==
  LET times == {i \in DOMAIN outcomes : outcomes[i] = value}
  IN  IF times = {} THEN -1 ELSE CHOOSE t \in times : \A u \in times : u <= t

(* The times of the last check, success and failure are those of the results
   stored last, though the runs they come from overlap. *)
TimesAgree ==
  \A s \in HealthServers :
    /\ hcStates[s].lastCheck = Len(hcOutcomes[s])
    /\ hcStates[s].lastSuccess = LastOf(hcOutcomes[s], TRUE)
    /\ hcStates[s].lastFailure = LastOf(hcOutcomes[s], FALSE)

(* A check that reports a timeout and a success was retried; of a success the
   retries reported are one fewer than those made. *)
TimedOutSuccessWasRetried ==
  \A s \in HealthServers :
    LET state == hcStates[s]
    IN  /\ state.success /\ state.timedOut => HealthRetries > 0
        /\ state.success => state.retries < HealthRetries \/ HealthRetries = 0
        /\ ~state.success /\ state.status # "unknown" => state.retries = HealthRetries

(* Each hook hears the transitions of a server, all of them and in their
   order, once the checks of the server are over, unless a check stored its
   result while hooks of another were awaited, or a hook was rejected. *)
HooksHearTheTransitions ==
  \A s \in HealthServers \ (hcCrossed \cup hcBroken) :
    (\A r \in HealthRuns : At(r, s, "none") \/ At(r, s, "asking")) =>
      \A h \in Hooks3 :
        LET heard == hcHeard[s][h]
        IN  /\ {heard[i].nth : i \in DOMAIN heard} = DueTo(h, hcStatuses[s])
            /\ \A i, j \in DOMAIN heard : i < j => heard[i].nth < heard[j].nth

(* Even then no hook hears of a transition that did not happen, nor of one
   twice, and what it is told are the statuses the server had. *)
NoHookHearsMore ==
  \A s \in HealthServers, h \in Hooks3 :
    LET heard == hcHeard[s][h]
    IN  \A i \in DOMAIN heard :
          /\ heard[i].nth \in DueTo(h, hcStatuses[s])
          /\ heard[i].from = hcStatuses[s][heard[i].nth - 1]
          /\ heard[i].to = hcStatuses[s][heard[i].nth]
          /\ \A j \in DOMAIN heard : heard[i].nth = heard[j].nth => i = j

(* What the monitor knows of a server, and what its hooks are told. *)
HealthSound == /\ StatusFollowsOutcomes /\ TimesAgree /\ TimedOutSuccessWasRetried
               /\ HooksHearTheTransitions /\ NoHookHearsMore

-----------------------------------------------------------------------------
(***************************************************************************)
(* propagateRegistration of packages/core/src/mcp-propagation.ts: the      *)
(* registration of one server is sent to every tool at once, each with a   *)
(* timeout that lets the work go on, and a report is made of all of them.  *)
(* Later registrations may be sent before earlier ones have arrived.       *)
(***************************************************************************)
CONSTANTS Targets,          \* the tools
          MaxRegistrations  \* bound on the registrations

ASSUME PropagationAssumption == MaxRegistrations \in Nat

VARIABLES prSent,     \* number of registrations sent
          prStatus,   \* by registration and target: none, waiting, success or failure
          prReported, \* registrations whose report was returned
          prWork,     \* work the targets have not finished: <<registration, target>>
          prHeld,     \* registration each target holds, 0 for none
          prLeft,     \* history: work that was still going on when it was reported or that failed half-way
          prMixed     \* history: targets that had work of two registrations at once

prVars == <<prSent, prStatus, prReported, prWork, prHeld, prLeft, prMixed>>

Registrations == 1..MaxRegistrations

PrInit == /\ prSent = 0
          /\ prStatus = [p \in Registrations |-> [t \in Targets |-> "none"]]
          /\ prReported = {} /\ prWork = {} /\ prLeft = {} /\ prMixed = {}
          /\ prHeld = [t \in Targets |-> 0]

(* A target that throws at once has failed; the others begin. *)
Propagate ==
  LET p == prSent + 1
  IN  /\ prSent < MaxRegistrations /\ prSent' = p
      /\ \E throwing \in SUBSET Targets :
           /\ prStatus' = [prStatus EXCEPT ![p] = [t \in Targets |-> IF t \in throwing THEN "failure" ELSE "waiting"]]
           /\ prWork' = prWork \cup ({p} \X (Targets \ throwing))
      /\ prMixed' = prMixed \cup {w[2] : w \in prWork}
      /\ UNCHANGED <<prReported, prHeld, prLeft>>

Settle(p, t, outcome) ==
  prStatus' = IF prStatus[p][t] = "waiting" THEN [prStatus EXCEPT ![p][t] = outcome] ELSE prStatus

Arrives(p, t) == /\ <<p, t>> \in prWork
                 /\ prWork' = prWork \ {<<p, t>>} /\ prHeld' = [prHeld EXCEPT ![t] = p]
                 /\ Settle(p, t, "success")
                 /\ UNCHANGED <<prSent, prReported, prLeft, prMixed>>

(* The target rejects, before or after it has taken the registration. *)
TargetFails(p, t) ==
  /\ <<p, t>> \in prWork /\ prWork' = prWork \ {<<p, t>>}
  /\ \E held \in {p, prHeld[t]} :
       /\ prHeld' = [prHeld EXCEPT ![t] = held]
       /\ prLeft' = IF held = p THEN prLeft \cup {<<p, t>>} ELSE prLeft
  /\ Settle(p, t, "failure")
  /\ UNCHANGED <<prSent, prReported, prMixed>>

TargetTimesOut(p, t) ==
  /\ <<p, t>> \in prWork /\ prStatus[p][t] = "waiting"
  /\ Settle(p, t, "failure")
  /\ prLeft' = prLeft \cup {<<p, t>>}
  /\ UNCHANGED <<prSent, prReported, prWork, prHeld, prMixed>>

(* A mistake in Report: the first failure ends the wait. *)
ReportFirstFailure(p) ==
  /\ p <= prSent /\ p \notin prReported
  /\ \/ \E t \in Targets : prStatus[p][t] = "failure"
     \/ \A t \in Targets : prStatus[p][t] # "waiting"
  /\ prReported' = prReported \cup {p}
  /\ UNCHANGED <<prSent, prStatus, prWork, prHeld, prLeft, prMixed>>

Report(p) == /\ p <= prSent /\ p \notin prReported
             /\ \A t \in Targets : prStatus[p][t] # "waiting"
             /\ prReported' = prReported \cup {p}
             /\ UNCHANGED <<prSent, prStatus, prWork, prHeld, prLeft, prMixed>>

PrNext == \/ Propagate
          \/ \E p \in Registrations : \/ Report(p)
                                      \/ \E t \in Targets : Arrives(p, t) \/ TargetFails(p, t) \/ TargetTimesOut(p, t)

PrSpec == PrInit /\ [][PrNext]_prVars
-----------------------------------------------------------------------------
(* A report is of every target, and stands. *)
ReportsAreComplete ==
  \A p \in prReported, t \in Targets : prStatus[p][t] \in {"success", "failure"}

(* A target whose report is a success holds that registration until a later
   one arrives, unless it had work of two at once: then the earlier one may
   arrive last and stay. *)
OnlyOverlapKeepsAnEarlierOne ==
  \A t \in Targets \ prMixed : \A p \in Registrations :
    prStatus[p][t] = "success" => prHeld[t] >= p

(* What a target holds was reported to have failed there only if the work
   went on after its timeout, or the target failed when it had taken it. *)
FailuresAreFailures ==
  \A t \in Targets : prHeld[t] # 0 /\ prStatus[prHeld[t]][t] = "failure" =>
    <<prHeld[t], t>> \in prLeft

(* What the reports say of the targets. *)
PropagationSound == ReportsAreComplete /\ OnlyOverlapKeepsAnEarlierOne /\ FailuresAreFailures

(* The health of MCP servers follows their checks, and a report of a
   registration what its targets answered. *)
McpServicesSound == HealthSound /\ PropagationSound
=============================================================================
