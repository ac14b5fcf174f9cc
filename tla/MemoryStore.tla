------------------------------ MODULE MemoryStore ------------------------------
(***************************************************************************)
(* InMemoryMemoryStore of packages/core/src/memory-store.ts: records found *)
(* by id and by key, visible in the scope they were written in, and the    *)
(* review queue of the manual-review strategy.                             *)
(*                                                                         *)
(* A write looks up what is there, awaits the embedding of its content,    *)
(* and then stores under what it had found; deleteById and resolveConflict *)
(* await in between as well.  A step is what runs between two awaits.      *)
(* Reads change nothing; what they may return is CanRead.                  *)
(***************************************************************************)
EXTENDS Naturals, FiniteSets

CONSTANTS Calls,          \* calls of write, deleteById and resolveConflict
          Ids, Keys,
          Scopes,         \* the scopes written to: "session", "project", "org"
          Contexts,       \* [org, project, session], the last two may be None
          Strategy,       \* the strategy of each context
          Conflicts,      \* the conflict ids, each used once
          EmbedMayFail,   \* whether the embedding provider may reject
          None

Orgs == {ctx.org : ctx \in Contexts}

ASSUME MemoryAssumption ==
    /\ Scopes \subseteq {"session", "project", "org"}
    /\ Strategy \in [Contexts -> {"last-write-wins", "first-write-wins",
                                  "manual-review"}]
    /\ EmbedMayFail \in BOOLEAN
    /\ None \notin Ids \cup Keys \cup Conflicts

VARIABLES records,    \* the record of each id, or None
          keyToId,    \* per org and key, the id it leads to, or None
          expired,    \* the ids of session records whose expiresAt is past
          conflicts,  \* the review queue
          payloads,   \* the incoming write each conflict still holds, or None
          call,       \* what each call goes on with after its await, or None
          accepted,   \* history: the conflicts resolved by accept-incoming
          stored      \* history: the conflicts whose incoming write took place,
                      \* or was queued again

vars == <<records, keyToId, expired, conflicts, payloads, call, accepted, stored>>

Place == [scope: Scopes, org: Orgs,
          project: {ctx.project : ctx \in Contexts} \cup {None},
          session: {ctx.session : ctx \in Contexts} \cup {None}]
Record == [key: Keys \cup {None}, place: Place]
Input == [id: Ids, key: Keys \cup {None}, scope: Scopes, context: Contexts]
Conflict == [status: {"pending", "resolved"}, existing: Ids, org: Orgs]

\* A write under way: the id and record it found, and the conflict it resolves.
Write == [does: {"write"}, id: Ids, key: Keys \cup {None},
          existing: Record \cup {None}, input: Input,
          resolves: Conflicts \cup {None}]
Deletion == [does: {"delete"}, id: Ids, existing: Record]

\* Having nothing is not having something.
ASSUME NoneAssumption == None \notin Record \cup Input \cup Conflict \cup Write \cup Deletion

TypeOK ==
    /\ records \in [Ids -> Record \cup {None}]
    /\ keyToId \in [Orgs \X Keys -> Ids \cup {None}]
    /\ expired \subseteq Ids
    /\ conflicts \in [Conflicts -> Conflict \cup {None}]
    /\ payloads \in [Conflicts -> Input \cup {None}]
    /\ call \in [Calls -> Write \cup Deletion \cup {None}]
    /\ accepted \subseteq Conflicts
    /\ stored \subseteq Conflicts

Init ==
    /\ records = [i \in Ids |-> None]
    /\ keyToId = [k \in Orgs \X Keys |-> None]
    /\ expired = {}
    /\ conflicts = [c \in Conflicts |-> None]
    /\ payloads = [c \in Conflicts |-> None]
    /\ call = [w \in Calls |-> None]
    /\ accepted = {}
    /\ stored = {}

-----------------------------------------------------------------------------
(* Scopes and visibility.                                                  *)

\* buildScopeContext throws when the context lacks what the scope is tied to.
HasContext(scope, ctx) ==
    /\ scope \in {"session", "project"} => ctx.project # None
    /\ scope = "session" => ctx.session # None

ScopeContext(scope, ctx) ==
    [scope |-> scope, org |-> ctx.org,
     project |-> IF scope = "org" THEN None ELSE ctx.project,
     session |-> IF scope = "session" THEN ctx.session ELSE None]

Broader(target, scope) ==
    \/ target = "session" /\ scope \in {"project", "org"}
    \/ target = "project" /\ scope = "org"

\* A mistake in CanRead.
CanReadAnySession(p, target, ctx, shared) ==
    /\ p.org = ctx.org
    /\ p.scope = target \/ (shared /\ Broader(target, p.scope))
    /\ p.scope = "project" => p.project = ctx.project

CanRead(p, target, ctx, shared) ==
    /\ p.org = ctx.org
    /\ p.scope = target \/ (shared /\ Broader(target, p.scope))
    /\ p.scope = "session" => p.project = ctx.project /\ p.session = ctx.session
    /\ p.scope = "project" => p.project = ctx.project

\* getById reads at any scope.
CanReadById(p, ctx, shared) ==
    \E target \in {"session", "project", "org"} : CanRead(p, target, ctx, shared)

-----------------------------------------------------------------------------
(* write.                                                                  *)

\* input.key ?? existing?.key, where existing is the record of the requested id.
NextKey(in) ==
    IF in.key = None /\ records[in.id] # None THEN records[in.id].key ELSE in.key

\* A mistake in Holder.
HolderIgnored(in) == None

\* The id that holds the key already, when it is another one.
Holder(in) ==
    IF NextKey(in) = None THEN None
    ELSE LET i == keyToId[<<in.context.org, NextKey(in)>>]
         IN  IF i = in.id THEN None ELSE i

\* A mistake in ScopesMatch.
ScopesMatchUnchecked(in) == HasContext(in.scope, in.context)

\* What write looks up is of the scope it writes to; a key that leads nowhere
\* counts as one of a different scope.
ScopesMatch(in) ==
    /\ HasContext(in.scope, in.context)
    /\ records[in.id] # None => records[in.id].place.scope = in.scope
    /\ Holder(in) # None =>
         /\ records[Holder(in)] # None
         /\ records[Holder(in)].place.scope = in.scope

\* What runs of write before the await of the embedding, for an input that it
\* neither rejects nor queues: last-write-wins goes on with the holder's record.
BeginWrite(w, in, c) ==
    LET id == IF Holder(in) = None THEN in.id ELSE Holder(in)
    IN  /\ ScopesMatch(in)
        /\ Holder(in) = None \/ Strategy[in.context] = "last-write-wins"
        /\ call' = [call EXCEPT ![w] =
             [does |-> "write", id |-> id, key |-> NextKey(in),
              existing |-> records[id], input |-> in, resolves |-> c]]

\* manual-review: the write is queued and the call rejects.
Queue(in) ==
    /\ ScopesMatch(in)
    /\ Holder(in) # None
    /\ Strategy[in.context] = "manual-review"
    /\ \E c \in Conflicts :
         /\ conflicts[c] = None
         /\ conflicts' = [conflicts EXCEPT ![c] =
              [status |-> "pending", existing |-> Holder(in),
               org |-> in.context.org]]
         /\ payloads' = [payloads EXCEPT ![c] = in]

\* A write that is refused with an error: nothing is stored or queued.
Refused(in) ==
    \/ ~ScopesMatch(in)
    \/ Holder(in) # None /\ Strategy[in.context] = "first-write-wins"

WriteCall(w) ==
    /\ call[w] = None
    /\ \E in \in Input :
         \/ BeginWrite(w, in, None) /\ UNCHANGED <<conflicts, payloads>>
         \/ Queue(in) /\ UNCHANGED call
    /\ UNCHANGED <<records, keyToId, expired, accepted, stored>>

\* A mistake in Resolved.
ResolvedUntyped(c) == [conflicts EXCEPT ![c].status = "accepted"]

Resolved(c) == [conflicts EXCEPT ![c].status = "resolved"]

\* The index entry of the record that was found is dropped when its key changes.
Unindexed(k) ==
    IF k.existing # None /\ k.existing.key \notin {None, k.key}
    THEN [keyToId EXCEPT ![<<k.existing.place.org, k.existing.key>>] = None]
    ELSE keyToId

NewRecord(k) ==
    [key |-> k.key, place |-> ScopeContext(k.input.scope, k.input.context)]

\* With the embedding the record is stored, and the conflict it settles resolved.
Store(w) ==
    /\ call[w] # None
    /\ call[w].does = "write"
    /\ LET k == call[w]
       IN  /\ records' = [records EXCEPT ![k.id] = NewRecord(k)]
           /\ keyToId' = IF k.key = None THEN Unindexed(k)
                         ELSE [Unindexed(k) EXCEPT
                                 ![<<k.input.context.org, k.key>>] = k.id]
           /\ expired' = expired \ {k.id}
           /\ IF k.resolves = None
              THEN UNCHANGED <<conflicts, accepted, stored>>
              ELSE /\ conflicts' = Resolved(k.resolves)
                   /\ accepted' = accepted \cup {k.resolves}
                   /\ stored' = stored \cup {k.resolves}
    /\ call' = [call EXCEPT ![w] = None]
    /\ UNCHANGED payloads

EmbedFails(w) ==
    /\ EmbedMayFail
    /\ call[w] # None
    /\ call[w].does = "write"
    /\ call' = [call EXCEPT ![w] = None]
    /\ UNCHANGED <<records, keyToId, expired, conflicts, payloads, accepted,
                   stored>>

-----------------------------------------------------------------------------
(* The review queue.                                                       *)

Pending(c, ctx) ==
    /\ conflicts[c] # None
    /\ conflicts[c].org = ctx.org
    /\ conflicts[c].status = "pending"

KeepExisting(c, ctx) ==
    /\ Pending(c, ctx)
    /\ conflicts' = Resolved(c)
    /\ UNCHANGED <<records, keyToId, expired, payloads, call, accepted, stored>>

\* A mistake in Taken.
TakenLater(c) == payloads

\* The payload is gone before it is written.
Taken(c) == [payloads EXCEPT ![c] = None]

\* accept-incoming takes the payload, and writes it to the existing record in
\* the context of the caller.
AcceptIncoming(w, c, ctx) ==
    /\ call[w] = None
    /\ Pending(c, ctx)
    /\ IF payloads[c] = None
       THEN /\ conflicts' = Resolved(c)
            /\ accepted' = accepted \cup {c}
            /\ UNCHANGED <<payloads, call, stored>>
       ELSE LET in == [payloads[c] EXCEPT !.id = conflicts[c].existing,
                                          !.context = ctx]
            IN  \/ /\ BeginWrite(w, in, c)
                   /\ payloads' = Taken(c)
                   /\ UNCHANGED <<conflicts, accepted, stored>>
                \/ /\ Refused(in)
                   /\ payloads' = Taken(c)
                   /\ UNCHANGED <<conflicts, call, accepted, stored>>
                \/ /\ ScopesMatch(in)
                   /\ Holder(in) # None
                   /\ Strategy[ctx] = "manual-review"
                   /\ \E d \in Conflicts :
                        /\ conflicts[d] = None
                        /\ conflicts' = [conflicts EXCEPT ![d] =
                             [status |-> "pending", existing |-> Holder(in),
                              org |-> ctx.org]]
                        /\ payloads' = [Taken(c) EXCEPT ![d] = in]
                   /\ stored' = stored \cup {c}
                   /\ UNCHANGED <<call, accepted>>
    /\ UNCHANGED <<records, keyToId, expired>>

-----------------------------------------------------------------------------
(* Deletion and expiry.                                                    *)

\* deleteById first awaits getById, which ignores expired records.
BeginDelete(w, i, ctx) ==
    /\ call[w] = None
    /\ records[i] # None
    /\ i \notin expired
    /\ CanReadById(records[i].place, ctx, TRUE)
    /\ call' = [call EXCEPT ![w] =
                  [does |-> "delete", id |-> i, existing |-> records[i]]]
    /\ UNCHANGED <<records, keyToId, expired, conflicts, payloads, accepted,
                   stored>>

\* A mistake in Forgotten.
ForgottenNever(r) == keyToId

Forgotten(r) ==
    IF r.key = None THEN keyToId
    ELSE [keyToId EXCEPT ![<<r.place.org, r.key>>] = None]

Delete(w) ==
    /\ call[w] # None
    /\ call[w].does = "delete"
    /\ records' = [records EXCEPT ![call[w].id] = None]
    /\ keyToId' = Forgotten(call[w].existing)
    /\ expired' = expired \ {call[w].id}
    /\ call' = [call EXCEPT ![w] = None]
    /\ UNCHANGED <<conflicts, payloads, accepted, stored>>

\* A session record's time to live ends.
Expire(i) ==
    /\ records[i] # None
    /\ records[i].place.scope = "session"
    /\ i \notin expired
    /\ expired' = expired \cup {i}
    /\ UNCHANGED <<records, keyToId, conflicts, payloads, call, accepted, stored>>

PruneExpired ==
    /\ expired # {}
    /\ records' = [i \in Ids |-> IF i \in expired THEN None ELSE records[i]]
    /\ keyToId' = [k \in Orgs \X Keys |->
                     IF \E i \in expired : /\ records[i].place.org = k[1]
                                           /\ records[i].key = k[2]
                     THEN None ELSE keyToId[k]]
    /\ expired' = {}
    /\ UNCHANGED <<conflicts, payloads, call, accepted, stored>>

-----------------------------------------------------------------------------

Next ==
    \/ PruneExpired
    \/ \E i \in Ids : Expire(i)
    \/ \E w \in Calls :
         \/ WriteCall(w) \/ Store(w) \/ EmbedFails(w) \/ Delete(w)
         \/ \E ctx \in Contexts :
              \/ \E i \in Ids : BeginDelete(w, i, ctx)
              \/ \E c \in Conflicts : AcceptIncoming(w, c, ctx)
    \/ \E c \in Conflicts, ctx \in Contexts : KeepExisting(c, ctx)

Spec == Init /\ [][Next]_vars

-----------------------------------------------------------------------------
(* Properties.                                                             *)

Writing(w) == call[w] # None /\ call[w].does = "write"

\* No two calls overlap.
OneCallAtATime == \A v, w \in Calls : call[v] # None /\ call[w] # None => v = w

\* A write finds no record of another organisation under its id: write looks at
\* the scope of what it finds and not at whose it is.
OwnRecordsOnly ==
    \A w \in Calls : Writing(w) /\ call[w].existing # None =>
      call[w].existing.place.org = call[w].input.context.org

\* A key leads to a record of that key and organisation.  A key that leads
\* nowhere is refused to every other record for good.
KeyLookupExact ==
    \A k \in Orgs \X Keys : keyToId[k] # None =>
      /\ records[keyToId[k]] # None
      /\ records[keyToId[k]].place.org = k[1]
      /\ records[keyToId[k]].key = k[2]

\* Every record that has a key is found by it.
KeyedIsFound ==
    \A i \in Ids : records[i] # None /\ records[i].key # None =>
      keyToId[<<records[i].place.org, records[i].key>>] = i

\* The incoming write of a conflict is taken by one call of resolveConflict at
\* most, and never while it still waits in the queue.
PayloadTakenOnce ==
    \A c \in Conflicts :
      Cardinality({w \in Calls : Writing(w) /\ call[w].resolves = c})
        + (IF payloads[c] = None THEN 0 ELSE 1)
        + (IF c \in stored THEN 1 ELSE 0) <= 1

\* A session record is read in its session only, a project record in its
\* project, an org record in its organisation, whatever is shared.
VisibleInPlaceOnly ==
    \A i \in Ids, ctx \in Contexts, shared \in BOOLEAN :
      records[i] # None /\ CanReadById(records[i].place, ctx, shared) =>
        records[i].place = ScopeContext(records[i].place.scope, ctx)

\* A write of a record of the same id with another scope must fail.
ScopeIsImmutable ==
    [][\A i \in Ids : records[i] # None /\ records'[i] # None
         => records'[i].place.scope = records[i].place.scope]_vars

\* A conflict resolved by accept-incoming has its incoming write stored, queued
\* again, or being stored.
AcceptedIsStored ==
    \A c \in accepted :
      \/ c \in stored
      \/ \E w \in Calls : Writing(w) /\ call[w].resolves = c

=============================================================================
