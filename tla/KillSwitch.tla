------------------------------ MODULE KillSwitch ------------------------------
(***************************************************************************)
(* EmergencyKillSwitch of packages/core/src/policy/kill-switch.ts.         *)
(*                                                                         *)
(* The status and the finalize timer change in the synchronous part of a   *)
(* call; the audit entry is awaited afterwards, lands or fails in an order *)
(* of its own, and nothing undoes the change when it fails.  Timers fire   *)
(* no earlier than their time and as late as the event loop likes.         *)
(***************************************************************************)
EXTENDS Integers, FiniteSets

CONSTANTS KsCallers,      \* concurrent calls of the switch
          KsActions,      \* actions that are enforced
          Patterns,       \* protectedActions: the set of actions each matches
          Sla,            \* activationSlaMs, at least 1
          KsMaxTime,      \* bound on the clock
          KsMaxOps        \* bound on the calls that write an entry

ASSUME KsAssumption == /\ IsFiniteSet(KsCallers)
                       /\ Sla \in Nat \ {0} /\ KsMaxTime \in Nat
                       /\ KsMaxOps \in Nat /\ Patterns \subseteq SUBSET KsActions

VARIABLES ks,        \* the status, and when activation was requested
          ksTimer,   \* the armed timer's due time, or NoTimer
          ksClock,
          ksCall,    \* what each caller's call awaits or came to
          ksLog,     \* the entries that landed, counted by kind
          ksLost,    \* the kinds of entries whose append failed
          ksOps

ksVars == <<ks, ksTimer, ksClock, ksCall, ksLog, ksLost, ksOps>>

NoTimer == -1
KsKinds == {"activate", "deactivate", "redundant", "block"}
KsStates == [status : {"inactive", "activating", "active"}, requestedAt : 0..KsMaxTime]
KsCallStates == {"none", "passed", "blocked", "done", "failed"} \cup KsKinds

KsTypeOK == /\ ks \in KsStates
            /\ ksTimer \in 0..(KsMaxTime + Sla) \cup {NoTimer}
            /\ ksClock \in 0..KsMaxTime
            /\ ksCall \in [KsCallers -> KsCallStates]
            /\ ksLog \in [KsKinds -> Nat]
            /\ ksLost \subseteq KsKinds
            /\ ksOps \in 0..KsMaxOps

KsInit == /\ ks = [status |-> "inactive", requestedAt |-> 0]
          /\ ksTimer = NoTimer /\ ksClock = 0 /\ ksOps = 0
          /\ ksCall = [c \in KsCallers |-> "none"]
          /\ ksLog = [k \in KsKinds |-> 0] /\ ksLost = {}

Awaiting(c) == ksCall[c] \in KsKinds

IsProtectedAction(a) == \E p \in Patterns : a \in p

(* The handle stays set after the timer fired: clearing it then is harmless. *)
CancelActivationFinalize == NoTimer

(* A mistake in ScheduleActivationFinalize. *)
ScheduleFromStart == Sla

ScheduleActivationFinalize == ksClock + Sla

Activate(c) ==
  /\ ~Awaiting(c) /\ ksOps < KsMaxOps
  /\ ks.status = "inactive"
  /\ ks' = [status |-> "activating", requestedAt |-> ksClock]
  /\ ksTimer' = ScheduleActivationFinalize
  /\ ksCall' = [ksCall EXCEPT ![c] = "activate"]
  /\ ksOps' = ksOps + 1
  /\ UNCHANGED <<ksClock, ksLog, ksLost>>

(* An activation of a switch that is not inactive changes nothing. *)
ActivateAgain(c) ==
  /\ ~Awaiting(c)
  /\ ks.status # "inactive"
  /\ ksCall' = [ksCall EXCEPT ![c] = "done"]
  /\ UNCHANGED <<ks, ksTimer, ksClock, ksLog, ksLost, ksOps>>

Deactivate(c) ==
  /\ ~Awaiting(c) /\ ksOps < KsMaxOps
  /\ ksTimer' = CancelActivationFinalize
  /\ ks' = [status |-> "inactive", requestedAt |-> 0]
  /\ ksCall' = [ksCall EXCEPT ![c] = IF ks.status = "inactive" THEN "redundant"
                                     ELSE "deactivate"]
  /\ ksOps' = ksOps + 1
  /\ UNCHANGED <<ksClock, ksLog, ksLost>>

(* A block awaits its entry before it throws; everything else passes. *)
Blocks(a) == IsProtectedAction(a) /\ ks.status # "inactive"

EnforceBlocks(c, a) ==
  /\ ~Awaiting(c) /\ ksOps < KsMaxOps
  /\ Blocks(a)
  /\ ksCall' = [ksCall EXCEPT ![c] = "block"]
  /\ ksOps' = ksOps + 1
  /\ UNCHANGED <<ks, ksTimer, ksClock, ksLog, ksLost>>

EnforcePasses(c, a) ==
  /\ ~Awaiting(c)
  /\ ~Blocks(a)
  /\ ksCall' = [ksCall EXCEPT ![c] = "passed"]
  /\ UNCHANGED <<ks, ksTimer, ksClock, ksLog, ksLost, ksOps>>

FinalizeActivation ==
  /\ ksTimer # NoTimer /\ ksClock >= ksTimer
  /\ ksTimer' = NoTimer
  /\ ks' = IF ks.status = "activating" THEN [ks EXCEPT !.status = "active"] ELSE ks
  /\ UNCHANGED <<ksClock, ksCall, ksLog, ksLost, ksOps>>

(* The append of an entry: enforce then throws Blocked, the others return. *)
AuditLands(c) ==
  /\ Awaiting(c)
  /\ ksLog' = [ksLog EXCEPT ![ksCall[c]] = @ + 1]
  /\ ksCall' = [ksCall EXCEPT ![c] = IF @ = "block" THEN "blocked" ELSE "done"]
  /\ UNCHANGED <<ks, ksTimer, ksClock, ksLost, ksOps>>

(* A failed append rejects the call, whose effect on the switch stays. *)
EventAuditFails(c) ==
  /\ Awaiting(c)
  /\ ksLost' = ksLost \cup {ksCall[c]}
  /\ ksCall' = [ksCall EXCEPT ![c] = "failed"]
  /\ UNCHANGED <<ks, ksTimer, ksClock, ksLog, ksOps>>

KsTick == /\ ksClock < KsMaxTime
          /\ ksClock' = ksClock + 1
          /\ UNCHANGED <<ks, ksTimer, ksCall, ksLog, ksLost, ksOps>>

KsNext == \/ \E c \in KsCallers : \/ Activate(c) \/ ActivateAgain(c) \/ Deactivate(c)
                                  \/ \E a \in KsActions : EnforceBlocks(c, a) \/ EnforcePasses(c, a)
                                  \/ AuditLands(c) \/ EventAuditFails(c)
          \/ FinalizeActivation
          \/ KsTick

KsSpec == KsInit /\ [][KsNext]_ksVars

-----------------------------------------------------------------------------
(* The switch is active only when the SLA of the latest activation is over:
   the timer of an activation that was undone never completes a later one. *)
ActiveOnlyAfterSla == ks.status = "active" => ksClock >= ks.requestedAt + Sla

(* Entries land in any order and calls overlap, yet once none is awaited and
   none was lost the log accounts for the switch: every activation but the
   standing one has its deactivation. *)
ActivationsAccounted ==
  (ksLost = {} /\ \A c \in KsCallers : ~Awaiting(c)) =>
     ksLog["activate"] = ksLog["deactivate"] + (IF ks.status = "inactive" THEN 0 ELSE 1)

(* A switch that is not yet active is on its way there: without a timer an
   activating switch would stay so until somebody deactivates it. *)
ActivatingIsArmed == ks.status = "activating" => ksTimer = ks.requestedAt + Sla

(* What the kill switch promises, over its timer, its log and its status. *)
KillSwitchSound == ActiveOnlyAfterSla /\ ActivationsAccounted /\ ActivatingIsArmed
=============================================================================
