---------------------------- MODULE MCPolicyGuards ----------------------------
(***************************************************************************)
(* Instances of the guards of packages/core/src/policy that keep state and *)
(* of the audit trail behind them.  They share none: each behaviour        *)
(* exercises one of them, or one reader of the trail.                      *)
(***************************************************************************)
EXTENDS ApprovalGate, KillSwitch, RateLimiter, ActionHooks, AuditTrail

CONSTANT Guards

VARIABLE guard

guardVars == <<guard, vars, ksVars, rlVars, hkVars, atVars>>

MCPatterns == {{"deploy"}}

MCRules ==
  <<[id |-> "actor", dims |-> {"actor"}, limit |-> 0, window |-> 2, actions |-> {}],
    [id |-> "deploys", dims |-> {"tool"}, limit |-> 2, window |-> 1, actions |-> {"deploy"}],
    [id |-> "deploys", dims |-> {"tool"}, limit |-> 2, window |-> 2, actions |-> {"deploy"}]>>

MCCallers ==
  {[actor |-> "ann", tool |-> "cli", project |-> Unset, action |-> "deploy"],
   [actor |-> "bob", tool |-> Unset, project |-> Unset, action |-> "deploy"],
   [actor |-> "bob", tool |-> "cli", project |-> Unset, action |-> "read"]}

(* The kinds of entries each reader of the trail is checked against. *)
MCKindsFor ==
  [query |-> {"denied", "veto"}, notify |-> {"denied", "request"},
   compliance |-> {"veto", "request"}, dashboard |-> {"request", "gated", "approve"}]

GuardsInit == /\ guard \in Guards
              /\ guard \notin Readers => atStorage = "memory"
              /\ guard # "approval" => print \in {[f \in Requests |-> p] : p \in Fingerprints}
              /\ Init /\ KsInit /\ RlInit /\ HkInit /\ AtInit

ReadBy(reader) ==
  /\ AtNext
  /\ atScan'.reader \in {"none", reader}
  /\ {e.kind : e \in atRows'} \cup {atBatch'[i] : i \in DOMAIN atBatch'} \subseteq MCKindsFor[reader]

GuardsNext ==
  /\ UNCHANGED guard
  /\ \/ guard = "approval" /\ Next /\ UNCHANGED <<ksVars, rlVars, hkVars, atVars>>
     \/ guard = "killSwitch" /\ KsNext /\ UNCHANGED <<vars, rlVars, hkVars, atVars>>
     \/ guard = "rateLimiter" /\ RlNext /\ UNCHANGED <<vars, ksVars, hkVars, atVars>>
     \/ guard = "hooks" /\ HkNext /\ UNCHANGED <<vars, ksVars, rlVars, atVars>>
     \/ guard \in Readers /\ ReadBy(guard) /\ UNCHANGED <<vars, ksVars, rlVars, hkVars>>

GuardsSpec == GuardsInit /\ [][GuardsNext]_guardVars
=============================================================================
