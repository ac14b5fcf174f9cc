------------------------------ MODULE ApprovalGate ------------------------------
(***************************************************************************)
(* ApprovalGateService and evaluatePolicyWithApprovalGate of               *)
(* packages/core/src/policy/approval-gate.ts: a high-risk action that the  *)
(* policies allow is held until someone approves the request made for it.  *)
(*                                                                         *)
(* Request objects are never changed, only replaced, so a call that awaits *)
(* goes on with the request as it was.  A step is what runs between two    *)
(* awaits; the audit events, which change nothing here, may reject.        *)
(***************************************************************************)
EXTENDS Naturals, FiniteSets

CONSTANTS Calls,         \* calls of approve, deny and of the evaluation under way
          Requests,      \* the ids createId makes, each used once
          Fingerprints,  \* actor, action, resource and policy of a request
          NoRequest      \* no request of that fingerprint

ASSUME GateAssumption == NoRequest \notin Requests

VARIABLES status,    \* the status of each request, "none" before it is made
          print,     \* the fingerprint of each request
          index,     \* indexByFingerprint
          due,       \* the requests whose expiresAt is past
          call,      \* the call under way: what it does, and to which request
          approved,  \* history: the requests an approve call approved
          allowed    \* history: the requests for which an action was let through

vars == <<status, print, index, due, call, approved, allowed>>

Decision == {"approved", "denied"}
Status == Decision \cup {"pending", "expired"}
Idle == [does |-> "idle", id |-> NoRequest]
Call == [does: Decision \cup {"allow", "gate", "refuse"}, id: Requests]

TypeOK ==
    /\ status \in [Requests -> Status \cup {"none"}]
    /\ print \in [Requests -> Fingerprints]
    /\ index \in [Fingerprints -> Requests \cup {NoRequest}]
    /\ due \subseteq Requests
    /\ call \in [Calls -> Call \cup {Idle}]
    /\ approved \subseteq Requests
    /\ allowed \subseteq Requests

Init ==
    /\ status = [r \in Requests |-> "none"]
    /\ print \in [Requests -> Fingerprints]
    /\ index = [f \in Fingerprints |-> NoRequest]
    /\ due = {}
    /\ call = [c \in Calls |-> Idle]
    /\ approved = {}
    /\ allowed = {}

-----------------------------------------------------------------------------

\* ttlMs is at least 1: no request is due as it is made.
Elapse(r) ==
    /\ status[r] # "none"
    /\ r \notin due
    /\ due' = due \cup {r}
    /\ UNCHANGED <<status, print, index, call, approved, allowed>>

\* A mistake in Expired.
ExpiredWhateverItsStatus(r) == status[r] # "none" /\ r \in due

\* What runs of expireIfNeeded before its await.
Expired(r) == status[r] = "pending" /\ r \in due
ExpireIfNeeded(r) ==
    status' = IF Expired(r) THEN [status EXCEPT ![r] = "expired"] ELSE status

\* What runs of createRequest before its await, for a fingerprint whose latest
\* request, if any, is decided.
NewRequest(f, r) ==
    /\ status[r] = "none"
    /\ print[r] = f
    /\ status' = [status EXCEPT ![r] = "pending"]
    /\ index' = [index EXCEPT ![f] = r]

\* A mistake in CreateRequest.
CreateRequestAlways(f) ==
    /\ \E r \in Requests : NewRequest(f, r)
    /\ UNCHANGED <<print, due, call, approved, allowed>>

CreateRequest(f) ==
    /\ index[f] # NoRequest => status[index[f]] # "pending"
    /\ \E r \in Requests : NewRequest(f, r)
    /\ UNCHANGED <<print, due, call, approved, allowed>>

Get(r) ==
    /\ Expired(r)
    /\ ExpireIfNeeded(r)
    /\ UNCHANGED <<print, index, due, call, approved, allowed>>

\* approve and deny: a request that is decided, or expires now, is returned.
Decide(c, r, decision) ==
    /\ call[c] = Idle
    /\ status[r] # "none"
    /\ ExpireIfNeeded(r)
    /\ call' = IF status'[r] = "pending"
               THEN [call EXCEPT ![c] = [does |-> decision, id |-> r]]
               ELSE call
    /\ UNCHANGED <<print, index, due, approved, allowed>>

\* A mistake in Record.
RecordKeepingRequest(c) ==
    /\ call[c] # Idle
    /\ call[c].does \in Decision
    /\ status' = [status EXCEPT ![call[c].id] = call[c].does]
    /\ approved' = IF call[c].does = "approved"
                   THEN approved \cup {call[c].id} ELSE approved
    /\ call' = [call EXCEPT ![c].does = "idle"]
    /\ UNCHANGED <<print, index, due, allowed>>

\* Their continuation, with the request expireIfNeeded resolved with.
Record(c) ==
    /\ call[c] # Idle
    /\ call[c].does \in Decision
    /\ status' = [status EXCEPT ![call[c].id] = call[c].does]
    /\ approved' = IF call[c].does = "approved"
                   THEN approved \cup {call[c].id} ELSE approved
    /\ call' = [call EXCEPT ![c] = Idle]
    /\ UNCHANGED <<print, index, due, allowed>>

\* A mistake in Enforcement.
EnforcementOfUndecided(s) ==
    CASE s \in {"approved", "expired"} -> "allow"
      [] s = "pending"  -> "gate"
      [] OTHER          -> "refuse"

Enforcement(s) ==
    CASE s = "approved" -> "allow"
      [] s = "pending"  -> "gate"
      [] OTHER          -> "refuse"

\* evaluatePolicyWithApprovalGate for an allow that a gated policy gave: a denied
\* or ungated one never reaches the service and is answered at once.
Evaluate(c, f) ==
    /\ call[c] = Idle
    /\ \/ /\ index[f] = NoRequest
          /\ \E r \in Requests :
               /\ NewRequest(f, r)
               /\ call' = [call EXCEPT ![c] = [does |-> "gate", id |-> r]]
       \/ /\ index[f] # NoRequest
          /\ ExpireIfNeeded(index[f])
          /\ call' = [call EXCEPT ![c] =
                        [does |-> Enforcement(status'[index[f]]),
                         id |-> index[f]]]
          /\ UNCHANGED index
    /\ UNCHANGED <<print, due, approved, allowed>>

\* After logEnforcement the decision is the caller's.
Answer(c) ==
    /\ call[c] # Idle
    /\ call[c].does \notin Decision
    /\ allowed' = IF call[c].does = "allow"
                  THEN allowed \cup {call[c].id} ELSE allowed
    /\ call' = [call EXCEPT ![c] = Idle]
    /\ UNCHANGED <<status, print, index, due, approved>>

\* The audit storage rejects before an evaluation is answered.
AuditFails(c) ==
    /\ call[c] # Idle
    /\ call[c].does \notin Decision
    /\ call' = [call EXCEPT ![c] = Idle]
    /\ UNCHANGED <<status, print, index, due, approved, allowed>>

-----------------------------------------------------------------------------

Next ==
    \/ \E r \in Requests : Elapse(r) \/ Get(r)
    \/ \E f \in Fingerprints : CreateRequest(f)
    \/ \E c \in Calls :
         \/ Record(c) \/ Answer(c) \/ AuditFails(c)
         \/ \E f \in Fingerprints : Evaluate(c, f)
         \/ \E r \in Requests, decision \in Decision : Decide(c, r, decision)

Spec == Init /\ [][Next]_vars

-----------------------------------------------------------------------------
(* Properties.                                                             *)

\* However requests, decisions and expiries interleave, at most one request of a
\* fingerprint waits for a decision, and it is the one evaluations look up: no
\* request is pending that nothing will ever read again.
PendingIsIndexed ==
    \A r \in Requests : status[r] = "pending" => index[print[r]] = r

\* An action that requires approval is let through only on a request that an
\* approve call approved; expiry, denial or a failing audit never let it through.
AllowedWasApproved == allowed \subseteq approved

\* A decided or expired request is decided again only by a call of approve or
\* deny that was under way, and had seen it pending, when it was decided.
OnlyRacingDecisions ==
    [][\A r \in Requests :
         status[r] \in Status \ {"pending"} /\ status'[r] # status[r]
         => \E c \in Calls : call[c].id = r /\ call[c].does = status'[r]]_vars

\* A request that was approved, denied or has expired keeps that status.  Two
\* decisions called in one turn break it (no run keeps this trace; the README
\* gives it).
DecisionIsFinal ==
    [][\A r \in Requests :
         status[r] \in Status \ {"pending"} => status'[r] = status[r]]_vars

-----------------------------------------------------------------------------
(* The inductive invariant of the proofs.                                  *)

Indexed ==
    \A f \in Fingerprints : index[f] # NoRequest =>
      print[index[f]] = f /\ status[index[f]] # "none"

CallsKnown ==
    \A c \in Calls : call[c] # Idle =>
      /\ status[call[c].id] # "none"
      /\ call[c].does = "allow" => call[c].id \in approved

ApprovedBefore ==
    \A r \in Requests : status[r] = "approved" => r \in approved

IInv == /\ TypeOK /\ Indexed /\ CallsKnown /\ ApprovedBefore
        /\ PendingIsIndexed /\ AllowedWasApproved

=============================================================================
