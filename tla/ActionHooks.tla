------------------------------ MODULE ActionHooks ------------------------------
(***************************************************************************)
(* executeActionWithHooks of packages/core/src/policy/action-hooks.ts:     *)
(* pre hooks in their order, the action, then post hooks in theirs, with   *)
(* an awaited audit entry around each, any of which may throw.             *)
(*                                                                         *)
(* The state is one call: calls share nothing.  hk.pc names what the call  *)
(* awaits, hk.i the hook it is at.                                         *)
(***************************************************************************)
EXTENDS Integers, Sequences

CONSTANTS PreCount, PostCount   \* how many hooks of each phase are given

ASSUME HookAssumption == PreCount \in Nat /\ PostCount \in Nat

VARIABLES hk,         \* where the call is
          hkAction,   \* what became of the action: "no", "done", "failed"
          hkLog       \* the entries that landed: <<phase, event, hook>>

hkVars == <<hk, hkAction, hkLog>>

HookPcs == {"preEvaluate", "preRun", "preVeto", "preFailure", "execute",
            "postEvaluate", "postRun", "postFailure",
            "resolved", "vetoed", "hookFailed", "auditFailed", "actionFailed"}
Ended == {"resolved", "vetoed", "hookFailed", "auditFailed", "actionFailed"}
HookEvents == {"pre", "post"} \X {"evaluate", "veto", "failure"} \X (1..(PreCount + PostCount))

HkTypeOK == /\ hk \in [pc : HookPcs, i : 1..(PreCount + PostCount + 1)]
            /\ hkAction \in {"no", "done", "failed"}
            /\ hkLog \in Seq(HookEvents)

(* A mistake in AtPre. *)
AtPreButLast(i) == IF i < PreCount THEN [pc |-> "preEvaluate", i |-> i]
                   ELSE [pc |-> "execute", i |-> 1]

(* Hooks are numbered by sortHooks: by order, and by id among equals. *)
AtPre(i) == IF i <= PreCount THEN [pc |-> "preEvaluate", i |-> i]
            ELSE [pc |-> "execute", i |-> 1]

AtPost(i, action) ==
  IF i <= PostCount THEN [pc |-> "postEvaluate", i |-> i]
  ELSE [pc |-> IF action = "done" THEN "resolved" ELSE "actionFailed", i |-> i]

HkInit == hk = AtPre(1) /\ hkAction = "no" /\ hkLog = <<>>

Phase == IF hk.pc \in {"preEvaluate", "preRun", "preVeto", "preFailure"} THEN "pre" ELSE "post"

HkGoto(pc) == hk' = [hk EXCEPT !.pc = pc]

Landed(event) == hkLog' = Append(hkLog, <<Phase, event, hk.i>>)

PreEvaluated == /\ hk.pc = "preEvaluate"
                /\ Landed("evaluate") /\ HkGoto("preRun")
                /\ UNCHANGED hkAction

PreAllows == /\ hk.pc = "preRun"
             /\ hk' = AtPre(hk.i + 1)
             /\ UNCHANGED <<hkAction, hkLog>>

PreVetoes == /\ hk.pc = "preRun"
             /\ HkGoto("preVeto")
             /\ UNCHANGED <<hkAction, hkLog>>

PreThrows == /\ hk.pc = "preRun"
             /\ HkGoto("preFailure")
             /\ UNCHANGED <<hkAction, hkLog>>

VetoAudited == /\ hk.pc = "preVeto"
               /\ Landed("veto") /\ HkGoto("vetoed")
               /\ UNCHANGED hkAction

(* The veto's entry is written inside the try: its failure is the hook's. *)
VetoAuditFails == /\ hk.pc = "preVeto"
                  /\ HkGoto("preFailure")
                  /\ UNCHANGED <<hkAction, hkLog>>

FailureAudited == /\ hk.pc \in {"preFailure", "postFailure"}
                  /\ Landed("failure") /\ HkGoto("hookFailed")
                  /\ UNCHANGED hkAction

Execute(outcome) == /\ hk.pc = "execute"
                    /\ hkAction' = outcome
                    /\ hk' = AtPost(1, outcome)
                    /\ UNCHANGED hkLog

PostEvaluated == /\ hk.pc = "postEvaluate"
                 /\ Landed("evaluate") /\ HkGoto("postRun")
                 /\ UNCHANGED hkAction

PostRuns == /\ hk.pc = "postRun"
            /\ hk' = AtPost(hk.i + 1, hkAction)
            /\ UNCHANGED <<hkAction, hkLog>>

PostThrows == /\ hk.pc = "postRun"
              /\ HkGoto("postFailure")
              /\ UNCHANGED <<hkAction, hkLog>>

(* An evaluate or a failure entry that cannot be written ends the call. *)
HookAuditFails == /\ hk.pc \in {"preEvaluate", "postEvaluate", "preFailure", "postFailure"}
                  /\ HkGoto("auditFailed")
                  /\ UNCHANGED <<hkAction, hkLog>>

HkNext == \/ PreEvaluated \/ PreAllows \/ PreVetoes \/ PreThrows
          \/ VetoAudited \/ VetoAuditFails \/ FailureAudited
          \/ \E outcome \in {"done", "failed"} : Execute(outcome)
          \/ PostEvaluated \/ PostRuns \/ PostThrows \/ HookAuditFails

HkSpec == HkInit /\ [][HkNext]_hkVars

-----------------------------------------------------------------------------
Evaluated(phase) == {i \in 1..(PreCount + PostCount) :
                       \E n \in DOMAIN hkLog : hkLog[n] = <<phase, "evaluate", i>>}

(* The action runs only behind its hooks: by then every pre hook was
   announced in the log, and none of them vetoed or failed. *)
ExecutedBehindHooks ==
  hkAction # "no" => /\ Evaluated("pre") = 1..PreCount
                     /\ \A n \in DOMAIN hkLog : hkLog[n][1] = "pre" => hkLog[n][2] = "evaluate"

(* What the caller is told: a resolved call did its action and ran every post
   hook; a veto or a failing action is reported as such only when nothing else
   came between; and whoever is told that a hook or an entry failed after the
   action ran cannot tell whether it did, since both outcomes end so. *)
OutcomeTold ==
  /\ hk.pc = "resolved" => hkAction = "done" /\ Evaluated("post") = 1..PostCount
  /\ hk.pc = "vetoed" => hkAction = "no" /\ hkLog[Len(hkLog)][2] = "veto"
  /\ hk.pc = "actionFailed" => hkAction = "failed" /\ Evaluated("post") = 1..PostCount
  /\ hk.pc = "hookFailed" => hkLog[Len(hkLog)][2] = "failure"

(* No hook runs twice, whatever fails around it. *)
EachHookOnce == \A m, n \in DOMAIN hkLog : hkLog[m] = hkLog[n] => m = n

(* What executeActionWithHooks promises its caller. *)
HooksSound == ExecutedBehindHooks /\ OutcomeTold /\ EachHookOnce
=============================================================================
