---------------------------- MODULE CredentialStore ----------------------------
(***************************************************************************)
(* SqlCredentialStore of packages/core/src/credential-store.ts: secrets    *)
(* kept encrypted in the table credentials, an access policy evaluated in  *)
(* the client, and an access log.  Every statement and every call of the   *)
(* encryption provider is awaited, and no statement is conditional on what *)
(* an earlier one read: a step is what runs between two awaits.            *)
(*                                                                         *)
(* Sessions are the calls of the store's methods under way, of any process *)
(* that uses the database; Sweepers are the calls of reencryptAll.  Each   *)
(* has the provider version of its process, so that a deployment of a new  *)
(* provider next to an old one is an instance.                             *)
(***************************************************************************)
EXTENDS Naturals, FiniteSets, Absence

CONSTANTS Sessions, Sweepers,
          Creds,      \* the identifiers store makes, each used once
          Owner,      \* the ownerId of the credentials
          Accessors,  \* callers: [id, type, scopes]
          Policies,   \* access policies, see CanAccess for their fields
          Scopes,     \* metadata.allowedScopes of the credentials
          Values,     \* plaintexts
          Versions,   \* versions of the encryption provider
          Provider,   \* the version each session's and sweeper's process has
          MaxCalls,   \* bound: how many calls are made
          Absent,     \* no row of that id yet
          Deleted,    \* and no longer
          Idle        \* a session between calls; None is no credential, or no
                      \* argument

Status == {"active", "revoked"}
Action == {"read", "write", "rotate", "revoke", "policy-update", "delete"}

VARIABLES row,      \* the row of each credential, Absent or Deleted
          call,     \* the call each session is in, or Idle
          sweep,    \* the rows each sweeper has still to do, and the one to log
          log,      \* per credential and action, the successes logged
          resolved, \* history: per credential and action, the calls that
                    \* resolved as successful
          begun     \* how many calls were made

vars == <<row, call, sweep, log, resolved, begun>>

Ciphertext == [value: Values, key: Versions]
Row == [status: Status, policy: Policies, encrypted: Ciphertext,
        version: Versions]
Stage == {"update", "log", "return"}

\* What a method is called with besides the id and the accessor.
Argument(op) ==
    CASE op \in {"write", "rotate"} -> Values
      [] op = "policy-update"       -> Policies
      [] OTHER                      -> {None}

Call == {k \in [op: Action, cred: Creds, stage: Stage, seen: Row,
                arg: Values \cup Policies \cup {None}] :
            /\ k.arg \in Argument(k.op)
            /\ k.stage = "update" => k.op \notin {"read", "delete"}}

ASSUME CredentialAssumption ==
    /\ IsFiniteSet(Sessions)
    /\ Versions \subseteq Nat
    /\ Provider \in [Sessions \cup Sweepers -> Versions]
    /\ MaxCalls \in Nat
    /\ Absent \notin Row /\ Deleted \notin Row
    /\ Idle \notin Call /\ None \notin Creds

Exists(c) == row[c] \in Row

TypeOK ==
    /\ row \in [Creds -> Row \cup {Absent, Deleted}]
    /\ call \in [Sessions -> Call \cup {Idle}]
    /\ sweep \in [Sweepers -> [rest: [Creds -> Row \cup {Absent}],
                              at: Creds \cup {None}]]
    /\ log \in [Creds -> [Action -> Nat]]
    /\ resolved \in [Creds -> [Action -> Nat]]
    /\ begun \in Nat

Init ==
    /\ row = [c \in Creds |-> Absent]
    /\ call = [s \in Sessions |-> Idle]
    /\ sweep = [w \in Sweepers |->
                  [rest |-> [c \in Creds |-> Absent], at |-> None]]
    /\ log = [c \in Creds |-> [a \in Action |-> 0]]
    /\ resolved = [c \in Creds |-> [a \in Action |-> 0]]
    /\ begun = 0

-----------------------------------------------------------------------------
(* Access.                                                                 *)

\* An empty list, set of types or of scopes is an absent one.
AccessList(policy, action) ==
    CASE action = "read"  -> policy.readers
      [] action = "write" -> policy.writers
      [] OTHER            -> policy.rotators

\* A mistake in CanAccess.
CanAccessRevoked(r, action, who) ==
    \/ r.policy.allowOwnerAccess /\ who.id = Owner
    \/ /\ r.policy.types = {} \/ who.type \in r.policy.types
       /\ r.policy.scopes \subseteq who.scopes
       /\ LET acl == AccessList(r.policy, action)
          IN  acl = {} \/ who.id \in acl

CanAccess(r, action, who) ==
    /\ r.status = "revoked" => action = "revoke"
    /\ \/ r.policy.allowOwnerAccess /\ who.id = Owner
       \/ /\ r.policy.types = {} \/ who.type \in r.policy.types
          /\ r.policy.scopes \subseteq who.scopes
          /\ LET acl == AccessList(r.policy, action)
             IN  acl = {} \/ who.id \in acl
          /\ Scopes = {} \/ who.scopes = {} \/ who.scopes \cap Scopes # {}

\* The access policy is the owner's, and delete asks no one.
Allowed(r, action, who) ==
    CASE action = "policy-update" -> who.id = Owner
      [] action = "delete"        -> TRUE
      [] OTHER                    -> CanAccess(r, action, who)

-----------------------------------------------------------------------------
(* The methods on one credential.                                          *)

Encrypted(s, v) == [value |-> v, key |-> Provider[s]]

\* A mistake in Store.
StoreWithoutStatus(s) ==
    \E c \in Creds, policy \in Policies, v \in Values :
      /\ begun < MaxCalls
      /\ call[s] = Idle
      /\ row[c] = Absent
      /\ row' = [row EXCEPT ![c] =
                   [status |-> None, policy |-> policy,
                    encrypted |-> Encrypted(s, v), version |-> Provider[s]]]
      /\ begun' = begun + 1
      /\ UNCHANGED <<call, sweep, log, resolved>>

\* store: encrypt, then INSERT with an id of its own.
Store(s) ==
    \E c \in Creds, status \in Status, policy \in Policies, v \in Values :
      /\ begun < MaxCalls
      /\ call[s] = Idle
      /\ row[c] = Absent
      /\ row' = [row EXCEPT ![c] =
                   [status |-> status, policy |-> policy,
                    encrypted |-> Encrypted(s, v), version |-> Provider[s]]]
      /\ begun' = begun + 1
      /\ UNCHANGED <<call, sweep, log, resolved>>

\* The SELECT a method starts with, and its decision: a missing credential and
\* a denied access end the call.  get logs next, the others write first.
Select(s) ==
    \E op \in Action \ {"delete"}, c \in Creds, who \in Accessors :
    \E arg \in Argument(op) :
      /\ begun < MaxCalls
      /\ call[s] = Idle
      /\ row[c] # Absent
      /\ begun' = begun + 1
      /\ IF Exists(c) /\ Allowed(row[c], op, who)
         THEN call' = [call EXCEPT ![s] =
                [op |-> op, cred |-> c, seen |-> row[c],
                 stage |-> IF op = "read" THEN "log" ELSE "update",
                 arg |-> arg]]
         ELSE UNCHANGED call
      /\ UNCHANGED <<row, sweep, log, resolved>>

\* delete starts with its statement; only a row that was there is a success.
Delete(s) ==
    \E c \in Creds :
      /\ begun < MaxCalls
      /\ call[s] = Idle
      /\ Exists(c)
      /\ row' = [row EXCEPT ![c] = Deleted]
      /\ call' = [call EXCEPT ![s] =
                    [op |-> "delete", cred |-> c, seen |-> row[c],
                     stage |-> "log", arg |-> None]]
      /\ begun' = begun + 1
      /\ UNCHANGED <<sweep, log, resolved>>

\* A mistake in Updated.
UpdateKeepingVersion(s, r) ==
    CASE call[s].op = "write" ->
           [r EXCEPT !.encrypted = Encrypted(s, call[s].arg)]
      [] call[s].op = "rotate" ->
           [r EXCEPT !.encrypted = Encrypted(s, call[s].arg),
                     !.status = "active"]
      [] call[s].op = "revoke" -> [r EXCEPT !.status = "revoked"]
      [] OTHER -> [r EXCEPT !.policy = call[s].arg]

\* What the UPDATE of each method sets.
Updated(s, r) ==
    CASE call[s].op = "write" ->
           [r EXCEPT !.encrypted = Encrypted(s, call[s].arg),
                     !.version = Provider[s]]
      [] call[s].op = "rotate" ->
           [r EXCEPT !.encrypted = Encrypted(s, call[s].arg),
                     !.version = Provider[s], !.status = "active"]
      [] call[s].op = "revoke" -> [r EXCEPT !.status = "revoked"]
      [] OTHER -> [r EXCEPT !.policy = call[s].arg]

\* The UPDATE, which finds its row by id alone and affects none if it is gone.
Update(s) ==
    /\ call[s] # Idle
    /\ call[s].stage = "update"
    /\ row' = IF Exists(call[s].cred)
              THEN [row EXCEPT ![call[s].cred] = Updated(s, @)]
              ELSE row
    /\ call' = [call EXCEPT ![s].stage = "log"]
    /\ UNCHANGED <<sweep, log, resolved, begun>>

\* A mistake in LogAccess.
LogAccessNotAwaited(s) ==
    /\ call[s] # Idle
    /\ call[s].stage = "log"
    /\ log' \in {log, [log EXCEPT ![call[s].cred][call[s].op] = @ + 1]}
    /\ call' = [call EXCEPT ![s].stage = "return"]
    /\ UNCHANGED <<row, sweep, resolved, begun>>

LogAccess(s) ==
    /\ call[s] # Idle
    /\ call[s].stage = "log"
    /\ log' = [log EXCEPT ![call[s].cred][call[s].op] = @ + 1]
    /\ call' = [call EXCEPT ![s].stage = "return"]
    /\ UNCHANGED <<row, sweep, resolved, begun>>

\* After the audit event the call resolves; get decrypts what its SELECT read.
Return(s) ==
    /\ call[s] # Idle
    /\ call[s].stage = "return"
    /\ resolved' = [resolved EXCEPT ![call[s].cred][call[s].op] = @ + 1]
    /\ call' = [call EXCEPT ![s] = Idle]
    /\ UNCHANGED <<row, sweep, log, begun>>

\* A statement, the provider or the audit storage rejects, or the process ends.
Reject(s) ==
    /\ call[s] # Idle
    /\ call' = [call EXCEPT ![s] = Idle]
    /\ UNCHANGED <<row, sweep, log, resolved, begun>>

-----------------------------------------------------------------------------
(* reencryptAll.                                                           *)

NeedsReencryption(w, r) == r.version < Provider[w]
NoneLeft == [c \in Creds |-> Absent]

\* One SELECT of all rows; those of the provider's own version are skipped.
SweepSelect(w) ==
    /\ begun < MaxCalls
    /\ sweep[w] = [rest |-> NoneLeft, at |-> None]
    /\ sweep' = [sweep EXCEPT ![w].rest =
                   [c \in Creds |-> IF Exists(c) /\ NeedsReencryption(w, row[c])
                                    THEN row[c] ELSE Absent]]
    /\ begun' = begun + 1
    /\ UNCHANGED <<row, call, log, resolved>>

\* The plaintext and the key are those of the row the SELECT read.
SweepUpdate(w, c) ==
    /\ sweep[w].at = None
    /\ sweep[w].rest[c] # Absent
    /\ LET seen == sweep[w].rest[c]
           encrypted == Encrypted(w, seen.encrypted.value)
       IN  row' = IF Exists(c)
                  THEN [row EXCEPT ![c].encrypted = encrypted,
                                   ![c].version = Provider[w]]
                  ELSE row
    /\ sweep' = [sweep EXCEPT ![w] = [rest |-> [@.rest EXCEPT ![c] = Absent],
                                      at |-> c]]
    /\ UNCHANGED <<call, log, resolved, begun>>

SweepLog(w) ==
    /\ sweep[w].at # None
    /\ log' = [log EXCEPT ![sweep[w].at]["write"] = @ + 1]
    /\ sweep' = [sweep EXCEPT ![w].at = None]
    /\ UNCHANGED <<row, call, resolved, begun>>

\* A failure ends the sweep where it is: some rows are done, some are not.
SweepReject(w) ==
    /\ sweep[w] # [rest |-> NoneLeft, at |-> None]
    /\ sweep' = [sweep EXCEPT ![w] = [rest |-> NoneLeft, at |-> None]]
    /\ UNCHANGED <<row, call, log, resolved, begun>>

-----------------------------------------------------------------------------

Next ==
    \/ \E s \in Sessions :
         \/ Store(s) \/ Select(s) \/ Delete(s) \/ Update(s)
         \/ LogAccess(s) \/ Return(s) \/ Reject(s)
    \/ \E w \in Sweepers :
         \/ SweepSelect(w) \/ SweepLog(w) \/ SweepReject(w)
         \/ \E c \in Creds : SweepUpdate(w, c)

Spec == Init /\ [][Next]_vars

-----------------------------------------------------------------------------
(* Properties.                                                             *)

\* What was encrypted with one version of the provider is never labelled with
\* another, whichever of update, rotate, store and reencryptAll wrote last:
\* every get and every sweep decrypts with the right key.
Decryptable ==
    /\ \A c \in Creds : Exists(c) => row[c].encrypted.key = row[c].version
    /\ \A s \in Sessions : call[s] # Idle =>
         call[s].seen.encrypted.key = call[s].seen.version
    /\ \A w \in Sweepers, c \in Creds : sweep[w].rest[c] # Absent =>
         sweep[w].rest[c].encrypted.key = sweep[w].rest[c].version

\* Whatever rejects in between, no caller is handed a secret, or told that a
\* change was made, that the access log does not show.
NothingUnlogged ==
    \A c \in Creds, a \in Action : resolved[c][a] <= log[c][a]

\* The calls that logged their success and have not resolved yet.
Returning(c, a) ==
    {s \in Sessions : /\ call[s] # Idle
                      /\ call[s].stage = "return"
                      /\ call[s].cred = c
                      /\ call[s].op = a}

\* NothingUnlogged, strengthened until every step preserves it.
LoggedFirst ==
    \A c \in Creds, a \in Action :
      resolved[c][a] + Cardinality(Returning(c, a)) <= log[c][a]

\* The one way a revoked credential becomes active is a rotation that was
\* allowed before the revocation was written.
OnlyRacingRotationRevives ==
    [][\A c \in Creds :
         Exists(c) /\ row[c].status = "revoked" /\ Exists(c)'
           /\ row'[c].status = "active"
         => \E s \in Sessions : /\ call[s] # Idle
                                /\ call[s].cred = c
                                /\ call[s].op = "rotate"
                                /\ call[s].seen.status = "active"]_vars

\* A revoked credential stays revoked until it is deleted.  A racing rotation
\* breaks it (no run keeps this trace; the README gives it).
RevocationIsFinal ==
    [][\A c \in Creds :
         Exists(c) /\ row[c].status = "revoked" /\ Exists(c)'
         => row'[c].status = "revoked"]_vars

\* The value a rotation or an update stored stands until the next one:
\* re-encryption changes the key of a secret and never the secret.  The code
\* does not keep it (no run keeps this trace; the README gives it).
RotatedValueStands ==
    [][\A c \in Creds :
         Exists(c) /\ Exists(c)'
           /\ row'[c].encrypted.value # row[c].encrypted.value
         => \E s \in Sessions : /\ Update(s)
                                /\ call[s].cred = c
                                /\ call[s].op \in {"write", "rotate"}]_vars

=============================================================================
