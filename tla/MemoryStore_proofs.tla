--------------------------- MODULE MemoryStore_proofs ---------------------------
(***************************************************************************)
(* Theorems about MemoryStore and SqlMemory for any ids, keys, contexts of *)
(* any number of organisations, strategies, conflicts and overlapping      *)
(* calls, about MemorySummaries for any records and runs, and about the    *)
(* three side by side.                                                     *)
(***************************************************************************)
EXTENDS MCMemoryStore, FiniteSetTheorems, TLAPS

Taking(w, c) == Writing(w) /\ call[w].resolves = c
Deleting(w) == call[w] # None /\ call[w].does = "delete"

\* Every record is where some context puts records of its scope.
PlacesExist ==
    \A i \in Ids : records[i] # None =>
      \E ctx \in Contexts : records[i].place = ScopeContext(records[i].place.scope, ctx)

\* An incoming write waits, is under way in one call, or is settled.
EachTaken ==
    \A c \in Conflicts :
      /\ payloads[c] # None => c \notin stored /\ \A w \in Calls : ~Taking(w, c)
      /\ c \in stored => \A w \in Calls : ~Taking(w, c)
      /\ \A v, w \in Calls : Taking(v, c) /\ Taking(w, c) => v = w
      /\ conflicts[c] = None => /\ payloads[c] = None /\ c \notin stored
                                /\ \A w \in Calls : ~Taking(w, c)

\* What a write or a deletion found is still there, or pruned since; and the
\* keys it found free, or leading to its record, still are.
Stands(k) ==
    /\ records[k.id] \in {k.existing, None}
    /\ k.existing # None /\ k.existing.key # None =>
         keyToId[<<k.existing.place.org, k.existing.key>>] \in {k.id, None}
    /\ k.does = "write" =>
         /\ k.key # None => keyToId[<<k.input.context.org, k.key>>] \in {k.id, None}
         /\ k.existing # None => k.existing.place.scope = k.input.scope

FoundStands ==
    /\ \A i \in expired : records[i] # None
    /\ \A w \in Calls : call[w] # None => Stands(call[w])

StoreInv == TypeOK /\ PlacesExist /\ EachTaken
IndexInv == FoundStands /\ KeyLookupExact /\ KeyedIsFound

-----------------------------------------------------------------------------
(* What the operators yield.                                               *)

LEMMA PlacesTyped ==
    ASSUME NEW scope \in Scopes, NEW ctx \in Contexts
    PROVE  ScopeContext(scope, ctx) \in Place /\ ScopeContext(scope, ctx).scope = scope
           /\ ScopeContext(scope, ctx).org = ctx.org /\ ctx.org \in Orgs
  BY DEF ScopeContext, Place, Orgs

LEMMA LookupTyped ==
    ASSUME TypeOK, NEW in \in Input
    PROVE  /\ in.id \in Ids /\ in.key \in Keys \cup {None} /\ in.scope \in Scopes
           /\ in.context \in Contexts /\ in.context.org \in Orgs
           /\ NextKey(in) \in Keys \cup {None}
           /\ Holder(in) \in Ids \cup {None}
           /\ NextKey(in) # None => keyToId[<<in.context.org, NextKey(in)>>] \in Ids \cup {None}
  <1>1. /\ in.id \in Ids /\ in.key \in Keys \cup {None} /\ in.scope \in Scopes
        /\ in.context \in Contexts /\ in.context.org \in Orgs
    BY DEF Input, Orgs
  <1>2. records[in.id] # None => records[in.id] \in Record
    BY <1>1 DEF TypeOK
  <1>3. NextKey(in) \in Keys \cup {None}
    BY <1>1, <1>2 DEF NextKey, Record
  <1>4. NextKey(in) # None => keyToId[<<in.context.org, NextKey(in)>>] \in Ids \cup {None}
    <2>1. NextKey(in) # None => <<in.context.org, NextKey(in)>> \in Orgs \X Keys
      BY <1>1, <1>3
    <2> QED
      BY <2>1 DEF TypeOK
  <1>5. Holder(in) \in Ids \cup {None}
    BY <1>4 DEF Holder
  <1> QED
    BY <1>1, <1>3, <1>4, <1>5

LEMMA CallKinds ==
    ASSUME TypeOK, NEW w \in Calls
    PROVE  /\ Writing(w) => call[w] \in Write
           /\ Deleting(w) => call[w] \in Deletion
           /\ call[w] # None => Writing(w) \/ Deleting(w)
           /\ ~(Writing(w) /\ Deleting(w))
  <1>1. call[w] \in Write \cup Deletion \cup {None}
    BY DEF TypeOK
  <1>2. \A k \in Write : k.does = "write"
    BY DEF Write
  <1>3. \A k \in Deletion : k.does = "delete"
    BY DEF Deletion
  <1> QED
    BY <1>1, <1>2, <1>3 DEF Writing, Deleting

\* What a write goes on with: the record that it found, and a key that it may have.
LEMMA BegunWrite ==
    ASSUME TypeOK, NEW w \in Calls, NEW in \in Input, NEW c \in Conflicts \cup {None},
           BeginWrite(w, in, c)
    PROVE  \E k \in Write :
             /\ call' = [call EXCEPT ![w] = k] /\ k # None /\ k.does = "write"
             /\ k.input = in /\ k.resolves = c /\ k.existing = records[k.id]
             /\ k.key # None => keyToId[<<in.context.org, k.key>>] \in {k.id, None}
             /\ k.existing # None => k.existing.place.scope = in.scope
  <1> DEFINE id == IF Holder(in) = None THEN in.id ELSE Holder(in)
             k == [does |-> "write", id |-> id, key |-> NextKey(in),
                   existing |-> records[id], input |-> in, resolves |-> c]
  <1>1. call' = [call EXCEPT ![w] = k] /\ ScopesMatch(in)
    BY DEF BeginWrite
  <1>2. id \in Ids /\ NextKey(in) \in Keys \cup {None}
    BY LookupTyped
  <1>3. records[id] \in Record \cup {None}
    BY <1>2 DEF TypeOK
  <1>4. k \in Write
    <2> HIDE DEF id
    <2> QED
      BY <1>2, <1>3 DEF Write
  <1>5. k # None
    BY <1>4, NoneAssumption
  <1>6. NextKey(in) # None => keyToId[<<in.context.org, NextKey(in)>>] \in {id, None}
    BY LookupTyped DEF Holder
  <1>7. records[id] # None => records[id].place.scope = in.scope
    BY <1>1 DEF ScopesMatch
  <1> HIDE DEF id
  <1> WITNESS k \in Write
  <1> QED
    BY <1>1, <1>5, <1>6, <1>7

LEMMA BegunCall ==
    ASSUME TypeOK, NEW w \in Calls, NEW in \in Input, NEW c \in Conflicts \cup {None},
           BeginWrite(w, in, c)
    PROVE  \E k \in Write : call' = [call EXCEPT ![w] = k] /\ k.resolves = c
  <1>1. PICK k \in Write :
             /\ call' = [call EXCEPT ![w] = k] /\ k # None /\ k.does = "write"
             /\ k.input = in /\ k.resolves = c /\ k.existing = records[k.id]
             /\ k.key # None => keyToId[<<in.context.org, k.key>>] \in {k.id, None}
             /\ k.existing # None => k.existing.place.scope = in.scope
    BY BegunWrite
  <1> QED
    BY <1>1

\* The index after a write or a deletion.
LEMMA IndexTyped ==
    ASSUME TypeOK, NEW w \in Calls
    PROVE  /\ Deleting(w) => Forgotten(call[w].existing) \in [Orgs \X Keys -> Ids \cup {None}]
           /\ Writing(w) =>
                /\ Unindexed(call[w]) \in [Orgs \X Keys -> Ids \cup {None}]
                /\ NewRecord(call[w]) \in Record /\ NewRecord(call[w]) # None
                /\ NewRecord(call[w]).key = call[w].key
                /\ NewRecord(call[w]).place = ScopeContext(call[w].input.scope, call[w].input.context)
  <1>1. keyToId \in [Orgs \X Keys -> Ids \cup {None}]
    BY DEF TypeOK
  <1>2. Deleting(w) => Forgotten(call[w].existing) \in [Orgs \X Keys -> Ids \cup {None}]
    BY <1>1 DEF Forgotten
  <1>3. Unindexed(call[w]) \in [Orgs \X Keys -> Ids \cup {None}]
    BY <1>1 DEF Unindexed
  <1>4. Writing(w) =>
          /\ NewRecord(call[w]) \in Record
          /\ NewRecord(call[w]).key = call[w].key
          /\ NewRecord(call[w]).place = ScopeContext(call[w].input.scope, call[w].input.context)
    <2> HAVE Writing(w)
    <2>1. call[w] \in Write
      BY CallKinds
    <2>2. call[w].key \in Keys \cup {None} /\ call[w].input.scope \in Scopes
          /\ call[w].input.context \in Contexts
      BY <2>1 DEF Write, Input
    <2>3. ScopeContext(call[w].input.scope, call[w].input.context) \in Place
      BY <2>2, PlacesTyped
    <2> QED
      BY <2>2, <2>3 DEF NewRecord, Record
  <1> QED
    BY <1>2, <1>3, <1>4, NoneAssumption

-----------------------------------------------------------------------------
(* Each action keeps types, places and the review queue.                   *)

LEMMA CallSet ==
    ASSUME TypeOK, NEW w \in Calls, NEW k, call' = [call EXCEPT ![w] = k]
    PROVE  /\ call'[w] = k /\ \A v \in Calls \ {w} : call'[v] = call[v]
           /\ (k = None => \A v \in Calls : \A c : Taking(v, c)' => Taking(v, c) /\ v # w)
           /\ k \in Write \cup Deletion \cup {None} => call' \in [Calls -> Write \cup Deletion \cup {None}]
  <1>1. call'[w] = k /\ \A v \in Calls \ {w} : call'[v] = call[v]
    BY DEF TypeOK
  <1>2. k \in Write \cup Deletion \cup {None} => call' \in [Calls -> Write \cup Deletion \cup {None}]
    BY DEF TypeOK
  <1>3. k = None => \A v \in Calls : \A c : Taking(v, c)' => Taking(v, c) /\ v # w
    BY <1>1 DEF Taking, Writing
  <1> QED
    BY <1>1, <1>2, <1>3

LEMMA StoreStarts == ASSUME Init PROVE StoreInv /\ IndexInv
  <1> USE DEF Init
  <1>1. TypeOK
    BY DEF TypeOK
  <1>2. PlacesExist /\ KeyLookupExact /\ KeyedIsFound
    BY DEF PlacesExist, KeyLookupExact, KeyedIsFound
  <1>3. EachTaken /\ FoundStands
    BY DEF EachTaken, FoundStands, Taking, Writing, Deleting
  <1> QED
    BY <1>1, <1>2, <1>3 DEF StoreInv, IndexInv

\* A conflict that is queued: it was not there, and its payload waits.
LEMMA QueuedFacts ==
    ASSUME TypeOK, NEW in \in Input, Holder(in) # None
    PROVE  LET conflict == [status |-> "pending", existing |-> Holder(in), org |-> in.context.org]
           IN  conflict \in Conflict /\ conflict # None /\ in # None
  <1>1. Holder(in) \in Ids /\ in.context.org \in Orgs
    BY LookupTyped
  <1> QED
    BY <1>1, NoneAssumption DEF Conflict

LEMMA WriteCallKeeps == ASSUME StoreInv, NEW w \in Calls, WriteCall(w) PROVE StoreInv'
  <1> USE DEF StoreInv
  <1>1. /\ call[w] = None
        /\ UNCHANGED <<records, keyToId, expired, accepted, stored>>
    BY DEF WriteCall
  <1>2. PICK in \in Input :
             \/ BeginWrite(w, in, None) /\ UNCHANGED <<conflicts, payloads>>
             \/ Queue(in) /\ UNCHANGED call
    BY DEF WriteCall
  <1>3. PlacesExist'
    BY <1>1 DEF PlacesExist
  <1>4. CASE BeginWrite(w, in, None) /\ UNCHANGED <<conflicts, payloads>>
    <2>1. PICK k \in Write : call' = [call EXCEPT ![w] = k] /\ k.resolves = None
      <3>1. None \in Conflicts \cup {None}
        OBVIOUS
      <3> QED
        BY <1>4, <3>1, BegunCall
    <2>2. TypeOK'
      BY <1>1, <1>4, <2>1, CallSet DEF TypeOK
    <2>3. \A v \in Calls, c \in Conflicts : Taking(v, c)' = Taking(v, c)
      BY <1>1, <2>1, CallSet, MemoryAssumption DEF Taking, Writing
    <2>4. EachTaken'
      BY <1>1, <1>4, <2>3 DEF EachTaken
    <2> QED
      BY <1>3, <2>2, <2>4
  <1>5. CASE Queue(in) /\ UNCHANGED call
    <2>1. PICK c \in Conflicts :
               /\ conflicts[c] = None /\ Holder(in) # None
               /\ conflicts' = [conflicts EXCEPT ![c] =
                    [status |-> "pending", existing |-> Holder(in), org |-> in.context.org]]
               /\ payloads' = [payloads EXCEPT ![c] = in]
      BY <1>5 DEF Queue
    <2>2. TypeOK'
      BY <1>1, <1>5, <2>1, QueuedFacts DEF TypeOK
    <2>3. \A v \in Calls, d \in Conflicts : Taking(v, d)' = Taking(v, d)
      BY <1>5 DEF Taking, Writing
    <2>4. /\ conflicts'[c] # None
          /\ \A d \in Conflicts \ {c} : conflicts'[d] = conflicts[d] /\ payloads'[d] = payloads[d]
      BY <2>1, QueuedFacts DEF TypeOK
    <2>5. EachTaken'
      BY <1>1, <2>1, <2>3, <2>4 DEF EachTaken
    <2> QED
      BY <1>3, <2>2, <2>5
  <1> QED
    BY <1>2, <1>4, <1>5

\* A conflict that is resolved stays one, and is still there.
LEMMA ResolvedFacts ==
    ASSUME TypeOK, NEW c \in Conflicts, conflicts[c] # None
    PROVE  /\ Resolved(c) \in [Conflicts -> Conflict \cup {None}]
           /\ \A d \in Conflicts : Resolved(c)[d] = None <=> conflicts[d] = None
  <1>1. conflicts \in [Conflicts -> Conflict \cup {None}] /\ conflicts[c] \in Conflict
    BY DEF TypeOK
  <1>2. [conflicts[c] EXCEPT !.status = "resolved"] \in Conflict
    BY <1>1 DEF Conflict
  <1>3. Resolved(c) = [conflicts EXCEPT ![c] = [conflicts[c] EXCEPT !.status = "resolved"]]
    BY DEF Resolved
  <1> QED
    BY <1>1, <1>2, <1>3, NoneAssumption

LEMMA StoreKeeps == ASSUME StoreInv, NEW w \in Calls, Store(w) PROVE StoreInv'
  <1> USE DEF StoreInv
  <1>0. PICK k : k = call[w]
    OBVIOUS
  <1>1. /\ Writing(w)
        /\ records' = [records EXCEPT ![k.id] = NewRecord(k)]
        /\ keyToId' = IF k.key = None THEN Unindexed(k)
                      ELSE [Unindexed(k) EXCEPT ![<<k.input.context.org, k.key>>] = k.id]
        /\ expired' = expired \ {k.id}
        /\ IF k.resolves = None
           THEN UNCHANGED <<conflicts, accepted, stored>>
           ELSE /\ conflicts' = Resolved(k.resolves)
                /\ accepted' = accepted \cup {k.resolves}
                /\ stored' = stored \cup {k.resolves}
        /\ call' = [call EXCEPT ![w] = None]
        /\ UNCHANGED payloads
    BY <1>0 DEF Store, Writing
  <1>2. /\ k \in Write /\ k.id \in Ids /\ k.key \in Keys \cup {None}
        /\ k.input.context \in Contexts /\ k.input.scope \in Scopes
        /\ k.resolves \in Conflicts \cup {None}
    BY <1>0, <1>1, CallKinds DEF Write, Input
  <1>3. k.resolves # None => Taking(w, k.resolves) /\ conflicts[k.resolves] # None
    BY <1>0, <1>1, <1>2 DEF Taking, EachTaken
  <1>4. TypeOK'
    <2>1. records' \in [Ids -> Record \cup {None}]
      BY <1>0, <1>1, <1>2, IndexTyped DEF TypeOK
    <2>2. Unindexed(k) \in [Orgs \X Keys -> Ids \cup {None}]
      BY <1>0, <1>1, IndexTyped
    <2>3. keyToId' \in [Orgs \X Keys -> Ids \cup {None}]
      BY <1>1, <1>2, <2>2
    <2>4. conflicts' \in [Conflicts -> Conflict \cup {None}] /\ accepted' \subseteq Conflicts
          /\ stored' \subseteq Conflicts
      BY <1>1, <1>2, <1>3, ResolvedFacts DEF TypeOK
    <2>5. call' \in [Calls -> Write \cup Deletion \cup {None}]
      BY <1>1, CallSet
    <2> QED
      BY <1>1, <2>1, <2>3, <2>4, <2>5 DEF TypeOK
  <1>5. PlacesExist'
    <2>1. records'[k.id].place = ScopeContext(k.input.scope, k.input.context)
          /\ records'[k.id].place.scope = k.input.scope
      BY <1>0, <1>1, <1>2, IndexTyped, PlacesTyped DEF TypeOK
    <2>2. \A i \in Ids \ {k.id} : records'[i] = records[i]
      BY <1>1 DEF TypeOK
    <2> QED
      BY <1>2, <2>1, <2>2 DEF PlacesExist
  <1>6. EachTaken'
    <2>1. \A v \in Calls, c \in Conflicts : Taking(v, c)' => Taking(v, c) /\ v # w
      BY <1>1, CallSet
    <2>2. \A c \in Conflicts : conflicts'[c] = None => conflicts[c] = None /\ c # k.resolves
      <3>1. CASE k.resolves = None
        BY <3>1, <1>1, MemoryAssumption
      <3>2. CASE k.resolves # None
        BY <3>2, <1>1, <1>2, <1>3, ResolvedFacts
      <3> QED
        BY <3>1, <3>2
    <2>3. \A c \in Conflicts : c \in stored' => c \in stored \/ c = k.resolves
      BY <1>1
    <2>4. ASSUME NEW c \in Conflicts
          PROVE  /\ payloads'[c] # None => c \notin stored' /\ \A v \in Calls : ~Taking(v, c)'
                 /\ c \in stored' => \A v \in Calls : ~Taking(v, c)'
                 /\ \A u, v \in Calls : Taking(u, c)' /\ Taking(v, c)' => u = v
                 /\ conflicts'[c] = None => /\ payloads'[c] = None /\ c \notin stored'
                                            /\ \A v \in Calls : ~Taking(v, c)'
      <3>1. CASE c = k.resolves
        <4>1. Taking(w, c)
          BY <3>1, <1>2, <1>3, MemoryAssumption
        <4> QED
          BY <3>1, <4>1, <1>1, <2>1, <2>2 DEF EachTaken
      <3>2. CASE c # k.resolves
        BY <3>2, <1>1, <2>1, <2>2, <2>3 DEF EachTaken
      <3> QED
        BY <3>1, <3>2
    <2> QED
      BY <2>4 DEF EachTaken
  <1> QED
    BY <1>4, <1>5, <1>6

LEMMA EmbedFailsKeeps == ASSUME StoreInv, NEW w \in Calls, EmbedFails(w) PROVE StoreInv'
  <1> USE DEF StoreInv
  <1>1. /\ call' = [call EXCEPT ![w] = None]
        /\ UNCHANGED <<records, keyToId, expired, conflicts, payloads, accepted, stored>>
    BY DEF EmbedFails
  <1>2. TypeOK'
    BY <1>1, CallSet DEF TypeOK
  <1>3. PlacesExist'
    BY <1>1 DEF PlacesExist
  <1>4. \A v \in Calls, c \in Conflicts : Taking(v, c)' => Taking(v, c) /\ v # w
    BY <1>1, CallSet
  <1>5. EachTaken'
    BY <1>1, <1>4 DEF EachTaken
  <1> QED
    BY <1>2, <1>3, <1>5

LEMMA KeepExistingKeeps ==
    ASSUME StoreInv, NEW c \in Conflicts, NEW ctx \in Contexts, KeepExisting(c, ctx) PROVE StoreInv'
  <1> USE DEF StoreInv
  <1>1. /\ conflicts[c] # None /\ conflicts' = Resolved(c)
        /\ UNCHANGED <<records, keyToId, expired, payloads, call, accepted, stored>>
    BY DEF KeepExisting, Pending
  <1>2. TypeOK'
    BY <1>1, ResolvedFacts DEF TypeOK
  <1>3. PlacesExist'
    BY <1>1 DEF PlacesExist
  <1>4. EachTaken'
    BY <1>1, ResolvedFacts DEF EachTaken, Taking, Writing
  <1> QED
    BY <1>2, <1>3, <1>4

\* The calls that resolve a conflict, after accept-incoming of c by w began the
\* write k of its payload.
LEMMA AcceptIncomingKeeps ==
    ASSUME StoreInv, NEW w \in Calls, NEW c \in Conflicts, NEW ctx \in Contexts,
           AcceptIncoming(w, c, ctx)
    PROVE  StoreInv'
  <1> USE DEF StoreInv
  <1>1. /\ call[w] = None /\ conflicts[c] # None
        /\ UNCHANGED <<records, keyToId, expired>>
    BY DEF AcceptIncoming, Pending
  <1>2. PlacesExist'
    BY <1>1 DEF PlacesExist
  <1>3. CASE payloads[c] = None
    <2>1. /\ conflicts' = Resolved(c) /\ accepted' = accepted \cup {c}
          /\ UNCHANGED <<payloads, call, stored>>
      BY <1>3 DEF AcceptIncoming
    <2>2. TypeOK'
      BY <1>1, <2>1, ResolvedFacts DEF TypeOK
    <2>3. EachTaken'
      BY <1>1, <2>1, ResolvedFacts DEF EachTaken, Taking, Writing
    <2> QED
      BY <1>2, <2>2, <2>3
  <1>4. CASE payloads[c] # None
    <2>0. PICK in : in = [payloads[c] EXCEPT !.id = conflicts[c].existing, !.context = ctx]
      OBVIOUS
    <2>1. in \in Input
      <3>1. payloads[c] \in Input /\ conflicts[c] \in Conflict
        BY <1>1, <1>4 DEF TypeOK
      <3> QED
        BY <3>1, <2>0 DEF Input, Conflict
    <2>2. /\ c \notin stored /\ \A v \in Calls : ~Taking(v, c)
          /\ Taken(c) \in [Conflicts -> Input \cup {None}] /\ Taken(c)[c] = None
          /\ \A d \in Conflicts \ {c} : Taken(c)[d] = payloads[d]
      BY <1>4 DEF EachTaken, Taken, TypeOK
    <2>3. \/ /\ BeginWrite(w, in, c)
             /\ payloads' = Taken(c)
             /\ UNCHANGED <<conflicts, accepted, stored>>
          \/ /\ payloads' = Taken(c)
             /\ UNCHANGED <<conflicts, call, accepted, stored>>
          \/ \E d \in Conflicts :
               /\ conflicts[d] = None /\ Holder(in) # None
               /\ conflicts' = [conflicts EXCEPT ![d] =
                     [status |-> "pending", existing |-> Holder(in), org |-> in.context.org]]
               /\ payloads' = [Taken(c) EXCEPT ![d] = in]
               /\ stored' = stored \cup {c}
               /\ UNCHANGED <<call, accepted>>
      <3>1. in.context = ctx
        BY <2>0, <2>1, <1>4 DEF TypeOK, Input
      <3> QED
        BY <1>4, <2>0, <3>1 DEF AcceptIncoming
    <2>4. CASE /\ BeginWrite(w, in, c)
               /\ payloads' = Taken(c)
               /\ UNCHANGED <<conflicts, accepted, stored>>
      <3>1. PICK k \in Write : call' = [call EXCEPT ![w] = k] /\ k.resolves = c
        BY <2>1, <2>4, BegunCall
      <3>2. TypeOK'
        BY <1>1, <2>2, <2>4, <3>1, CallSet DEF TypeOK
      <3>3. \A v \in Calls, d \in Conflicts : Taking(v, d)' => Taking(v, d) \/ (v = w /\ d = c)
        BY <3>1, CallSet DEF Taking, Writing
      <3>4. EachTaken'
        BY <1>1, <2>2, <2>4, <3>3 DEF EachTaken
      <3> QED
        BY <1>2, <3>2, <3>4
    <2>5. CASE /\ payloads' = Taken(c)
               /\ UNCHANGED <<conflicts, call, accepted, stored>>
      <3>1. TypeOK'
        BY <1>1, <2>2, <2>5 DEF TypeOK
      <3>2. EachTaken'
        BY <1>1, <2>2, <2>5 DEF EachTaken, Taking, Writing
      <3> QED
        BY <1>2, <3>1, <3>2
    <2>6. ASSUME NEW d \in Conflicts,
                 conflicts[d] = None, Holder(in) # None,
                 conflicts' = [conflicts EXCEPT ![d] =
                     [status |-> "pending", existing |-> Holder(in), org |-> in.context.org]],
                 payloads' = [Taken(c) EXCEPT ![d] = in],
                 stored' = stored \cup {c},
                 UNCHANGED <<call, accepted>>
          PROVE  StoreInv'
      <3>1. /\ c # d /\ conflicts'[d] # None
            /\ \A e \in Conflicts \ {d} : conflicts'[e] = conflicts[e]
            /\ conflicts' \in [Conflicts -> Conflict \cup {None}]
        BY <1>1, <2>1, <2>6, QueuedFacts DEF TypeOK
      <3>2. /\ payloads'[c] = None
            /\ \A e \in Conflicts \ {c, d} : payloads'[e] = payloads[e]
            /\ payloads' \in [Conflicts -> Input \cup {None}]
        BY <2>1, <2>2, <2>6, <3>1
      <3>3. TypeOK'
        BY <1>1, <2>6, <3>1, <3>2 DEF TypeOK
      <3>4. \A v \in Calls, e \in Conflicts : Taking(v, e)' = Taking(v, e)
        BY <2>6 DEF Taking, Writing
      <3>5. EachTaken'
        BY <1>1, <2>2, <2>6, <3>1, <3>2, <3>4 DEF EachTaken
      <3> QED
        BY <1>2, <3>3, <3>5
    <2> QED
      BY <2>3, <2>4, <2>5, <2>6
  <1> QED
    BY <1>3, <1>4

LEMMA BeginDeleteKeeps ==
    ASSUME StoreInv, NEW w \in Calls, NEW i \in Ids, NEW ctx \in Contexts, BeginDelete(w, i, ctx)
    PROVE  StoreInv'
  <1> USE DEF StoreInv
  <1> DEFINE k == [does |-> "delete", id |-> i, existing |-> records[i]]
  <1>1. /\ records[i] # None /\ call' = [call EXCEPT ![w] = k]
        /\ UNCHANGED <<records, keyToId, expired, conflicts, payloads, accepted, stored>>
    BY DEF BeginDelete
  <1>2. k \in Deletion /\ k.does = "delete"
    BY <1>1 DEF TypeOK, Deletion
  <1> HIDE DEF k
  <1>3. TypeOK'
    BY <1>1, <1>2, CallSet DEF TypeOK
  <1>4. PlacesExist'
    BY <1>1 DEF PlacesExist
  <1>5. \A v \in Calls, c \in Conflicts : Taking(v, c)' => Taking(v, c)
    BY <1>1, <1>2, CallSet DEF Taking, Writing
  <1>6. EachTaken'
    BY <1>1, <1>5 DEF EachTaken
  <1> QED
    BY <1>3, <1>4, <1>6

LEMMA DeleteKeeps == ASSUME StoreInv, NEW w \in Calls, Delete(w) PROVE StoreInv'
  <1> USE DEF StoreInv
  <1>1. /\ Deleting(w)
        /\ records' = [records EXCEPT ![call[w].id] = None]
        /\ keyToId' = Forgotten(call[w].existing)
        /\ expired' = expired \ {call[w].id}
        /\ call' = [call EXCEPT ![w] = None]
        /\ UNCHANGED <<conflicts, payloads, accepted, stored>>
    BY DEF Delete, Deleting
  <1>2. TypeOK'
    BY <1>1, CallSet, IndexTyped DEF TypeOK
  <1>3. PlacesExist'
    BY <1>1 DEF PlacesExist, TypeOK
  <1>4. \A v \in Calls, c \in Conflicts : Taking(v, c)' => Taking(v, c)
    BY <1>1, CallSet
  <1>5. EachTaken'
    BY <1>1, <1>4 DEF EachTaken
  <1> QED
    BY <1>2, <1>3, <1>5

LEMMA ExpiryKeeps ==
    ASSUME StoreInv, (\E i \in Ids : Expire(i)) \/ PruneExpired PROVE StoreInv'
  <1> USE DEF StoreInv
  <1>1. /\ UNCHANGED <<conflicts, payloads, call, accepted, stored>>
        /\ expired' \subseteq Ids
        /\ records' \in [Ids -> Record \cup {None}]
        /\ \A i \in Ids : records'[i] \in {records[i], None}
    BY DEF Expire, PruneExpired, TypeOK
  <1>2. keyToId' \in [Orgs \X Keys -> Ids \cup {None}]
    BY DEF Expire, PruneExpired, TypeOK
  <1>3. TypeOK'
    BY <1>1, <1>2 DEF TypeOK
  <1>4. PlacesExist'
    BY <1>1 DEF PlacesExist
  <1>5. EachTaken'
    BY <1>1 DEF EachTaken, Taking, Writing
  <1> QED
    BY <1>3, <1>4, <1>5

LEMMA StoreStepKeeps == ASSUME StoreInv, [Next]_vars PROVE StoreInv'
  <1>1. CASE UNCHANGED vars
    BY <1>1 DEF vars, StoreInv, TypeOK, PlacesExist, EachTaken, Taking, Writing
  <1>2. ASSUME NEW w \in Calls, WriteCall(w) \/ Store(w) \/ EmbedFails(w) \/ Delete(w)
        PROVE  StoreInv'
    BY <1>2, WriteCallKeeps, StoreKeeps, EmbedFailsKeeps, DeleteKeeps
  <1>3. ASSUME NEW w \in Calls, NEW ctx \in Contexts, NEW i \in Ids, BeginDelete(w, i, ctx)
        PROVE  StoreInv'
    BY <1>3, BeginDeleteKeeps
  <1>4. ASSUME NEW w \in Calls, NEW ctx \in Contexts, NEW c \in Conflicts, AcceptIncoming(w, c, ctx)
        PROVE  StoreInv'
    BY <1>4, AcceptIncomingKeeps
  <1>5. ASSUME NEW ctx \in Contexts, NEW c \in Conflicts, KeepExisting(c, ctx)
        PROVE  StoreInv'
    BY <1>5, KeepExistingKeeps
  <1>6. CASE (\E i \in Ids : Expire(i)) \/ PruneExpired
    BY <1>6, ExpiryKeeps
  <1> QED
    BY <1>1, <1>2, <1>3, <1>4, <1>5, <1>6 DEF Next

LEMMA StoreInvariant == Spec => []StoreInv
  BY StoreStarts, StoreStepKeeps, PTL DEF Spec

\* The maps of the store keep their types, however calls overlap.
THEOREM TypeCorrect == Spec => []TypeOK
  <1>1. StoreInv => TypeOK
    BY DEF StoreInv
  <1> QED
    BY <1>1, StoreInvariant, PTL

\* No context reads a record that it would not itself have put where it is.
THEOREM VisibleOnlyInPlace == Spec => []VisibleInPlaceOnly
  <1>1. StoreInv => VisibleInPlaceOnly
    <2> SUFFICES ASSUME StoreInv, NEW i \in Ids, NEW ctx \in Contexts, NEW shared \in BOOLEAN,
                        records[i] # None, CanReadById(records[i].place, ctx, shared)
                 PROVE  records[i].place = ScopeContext(records[i].place.scope, ctx)
      BY DEF VisibleInPlaceOnly
    <2>1. PICK own \in Contexts : records[i].place = ScopeContext(records[i].place.scope, own)
      BY DEF StoreInv, PlacesExist
    <2>2. records[i].place.scope \in {"session", "project", "org"}
      BY MemoryAssumption DEF StoreInv, TypeOK, Record, Place
    <2> DEFINE p == records[i].place
    <2>3. /\ p.org = ctx.org
          /\ p.scope = "session" => p.project = ctx.project /\ p.session = ctx.session
          /\ p.scope = "project" => p.project = ctx.project
      BY DEF CanReadById, CanRead
    <2>4. /\ p.org = own.org
          /\ p.project = IF p.scope = "org" THEN None ELSE own.project
          /\ p.session = IF p.scope = "session" THEN own.session ELSE None
      <3> HIDE DEF p
      <3>1. p = ScopeContext(p.scope, own)
        BY <2>1 DEF p
      <3> QED
        BY <3>1 DEF ScopeContext
    <2> QED
      BY <2>1, <2>2, <2>3, <2>4 DEF ScopeContext
  <1> QED
    BY <1>1, StoreInvariant, PTL

\* The incoming write of a conflict is stored once at most, and by one call.
THEOREM TakenOnce == Spec => []PayloadTakenOnce
  <1>1. StoreInv => PayloadTakenOnce
    <2> SUFFICES ASSUME StoreInv, NEW c \in Conflicts
                 PROVE  Cardinality({w \in Calls : Writing(w) /\ call[w].resolves = c})
                          + (IF payloads[c] = None THEN 0 ELSE 1)
                          + (IF c \in stored THEN 1 ELSE 0) <= 1
      BY DEF PayloadTakenOnce
    <2> DEFINE takers == {w \in Calls : Writing(w) /\ call[w].resolves = c}
    <2>1. \A w \in Calls : w \in takers <=> Taking(w, c)
      BY DEF Taking
    <2>2. takers \subseteq Calls
      OBVIOUS
    <2> HIDE DEF takers
    <2>3. CASE takers = {}
      <3>1. Cardinality(takers) = 0
        BY <2>3, FS_EmptySet
      <3>2. ~(payloads[c] # None /\ c \in stored)
        BY DEF StoreInv, EachTaken
      <3> QED
        BY <3>1, <3>2 DEF takers
    <2>4. CASE takers # {}
      <3>1. PICK w \in Calls : Taking(w, c)
        BY <2>1, <2>2, <2>4
      <3>2. takers = {w}
        BY <2>1, <2>2, <3>1 DEF StoreInv, EachTaken
      <3>3. Cardinality(takers) = 1
        BY <3>2, FS_Singleton
      <3>4. payloads[c] = None /\ c \notin stored
        BY <3>1 DEF StoreInv, EachTaken
      <3> QED
        BY <3>3, <3>4 DEF takers
    <2> QED
      BY <2>3, <2>4
  <1> QED
    BY <1>1, StoreInvariant, PTL

-----------------------------------------------------------------------------
(* The index, when calls do not overlap.                                   *)

\* A step that leaves the records and the index alone, and begins or ends calls.
LEMMA QuietKeepsIndex ==
    ASSUME TypeOK, TypeOK', IndexInv, UNCHANGED <<records, keyToId, expired>>,
           \A w \in Calls : \/ call'[w] \in {call[w], None}
                            \/ Stands(call'[w])
    PROVE  IndexInv'
  <1>1. \A w \in Calls : call[w] # None => Stands(call[w])
    BY DEF IndexInv, FoundStands
  <1>2. \A i \in expired' : records'[i] # None
    BY DEF IndexInv, FoundStands
  <1>3. ASSUME NEW w \in Calls, call'[w] # None PROVE Stands(call[w])'
    <2>1. Stands(call'[w])
      BY <1>1, <1>3
    <2> QED
      BY <2>1 DEF Stands
  <1>4. FoundStands'
    BY <1>2, <1>3 DEF FoundStands
  <1>5. KeyLookupExact' /\ KeyedIsFound'
    BY DEF IndexInv, KeyLookupExact, KeyedIsFound
  <1> QED
    BY <1>4, <1>5 DEF IndexInv

LEMMA BeginWriteStands ==
    ASSUME TypeOK, IndexInv, NEW w \in Calls, NEW in \in Input, NEW c \in Conflicts \cup {None},
           BeginWrite(w, in, c)
    PROVE  \A v \in Calls : call'[v] = call[v] \/ Stands(call'[v])
  <1>1. PICK k \in Write :
             /\ call' = [call EXCEPT ![w] = k] /\ k # None /\ k.does = "write"
             /\ k.input = in /\ k.resolves = c /\ k.existing = records[k.id]
             /\ k.key # None => keyToId[<<in.context.org, k.key>>] \in {k.id, None}
             /\ k.existing # None => k.existing.place.scope = in.scope
    BY BegunWrite
  <1>2. k.id \in Ids
    BY DEF Write
  <1>3. k.existing # None /\ k.existing.key # None =>
          keyToId[<<k.existing.place.org, k.existing.key>>] = k.id
    BY <1>1, <1>2 DEF IndexInv, KeyedIsFound
  <1>4. Stands(k)
    BY <1>1, <1>3 DEF Stands
  <1> QED
    BY <1>1, <1>4, CallSet

LEMMA QuietSteps ==
    ASSUME TypeOK, TypeOK', IndexInv, NEW w \in Calls,
           \/ WriteCall(w) \/ EmbedFails(w)
           \/ \E ctx \in Contexts : \/ \E i \in Ids : BeginDelete(w, i, ctx)
                                   \/ \E c \in Conflicts : \/ AcceptIncoming(w, c, ctx)
                                                           \/ KeepExisting(c, ctx)
    PROVE  IndexInv'
  <1>1. CASE WriteCall(w)
    <2>1. UNCHANGED <<records, keyToId, expired>>
      BY <1>1 DEF WriteCall
    <2>2. PICK in \in Input : BeginWrite(w, in, None) \/ UNCHANGED call
      BY <1>1 DEF WriteCall
    <2>3. None \in Conflicts \cup {None}
      OBVIOUS
    <2>4. \A v \in Calls : call'[v] = call[v] \/ Stands(call'[v])
      BY <2>2, <2>3, BeginWriteStands
    <2> QED
      BY <2>1, <2>4, QuietKeepsIndex
  <1>2. CASE EmbedFails(w)
    <2>1. call' = [call EXCEPT ![w] = None] /\ UNCHANGED <<records, keyToId, expired>>
      BY <1>2 DEF EmbedFails
    <2>2. \A v \in Calls : call'[v] \in {call[v], None}
      BY <2>1, CallSet
    <2> QED
      BY <2>1, <2>2, QuietKeepsIndex
  <1>3. ASSUME NEW ctx \in Contexts, NEW i \in Ids, BeginDelete(w, i, ctx) PROVE IndexInv'
    <2> DEFINE k == [does |-> "delete", id |-> i, existing |-> records[i]]
    <2>1. /\ call' = [call EXCEPT ![w] = k] /\ records[i] # None
          /\ UNCHANGED <<records, keyToId, expired>>
      BY <1>3 DEF BeginDelete
    <2>2. Stands(k)
      BY <2>1 DEF Stands, IndexInv, KeyedIsFound
    <2> HIDE DEF k
    <2>3. \A v \in Calls : call'[v] = call[v] \/ Stands(call'[v])
      BY <2>1, <2>2, CallSet
    <2> QED
      BY <2>1, <2>3, QuietKeepsIndex
  <1>4. ASSUME NEW ctx \in Contexts, NEW c \in Conflicts, AcceptIncoming(w, c, ctx) PROVE IndexInv'
    <2>1. UNCHANGED <<records, keyToId, expired>>
      BY <1>4 DEF AcceptIncoming
    <2>2. PICK in : in = [payloads[c] EXCEPT !.id = conflicts[c].existing, !.context = ctx]
      OBVIOUS
    <2>3. UNCHANGED call \/ (payloads[c] # None /\ conflicts[c] # None /\ BeginWrite(w, in, c))
      BY <1>4, <2>2 DEF AcceptIncoming, Pending
    <2>4. payloads[c] # None /\ conflicts[c] # None => in \in Input
      BY <2>2 DEF TypeOK, Input, Conflict
    <2>5. \A v \in Calls : call'[v] = call[v] \/ Stands(call'[v])
      BY <2>3, <2>4, BeginWriteStands
    <2> QED
      BY <2>1, <2>5, QuietKeepsIndex
  <1>5. ASSUME NEW ctx \in Contexts, NEW c \in Conflicts, KeepExisting(c, ctx) PROVE IndexInv'
    BY <1>5, QuietKeepsIndex DEF KeepExisting
  <1> QED
    BY <1>1, <1>2, <1>3, <1>4, <1>5

LEMMA StoreKeepsIndex ==
    ASSUME TypeOK, IndexInv, OneCallAtATime, OwnRecordsOnly, NEW w \in Calls, Store(w)
    PROVE  IndexInv'
  <1>0. PICK k : k = call[w]
    OBVIOUS
  <1>1. /\ Writing(w)
        /\ records' = [records EXCEPT ![k.id] = NewRecord(k)]
        /\ keyToId' = IF k.key = None THEN Unindexed(k)
                      ELSE [Unindexed(k) EXCEPT ![<<k.input.context.org, k.key>>] = k.id]
        /\ expired' = expired \ {k.id}
        /\ call' = [call EXCEPT ![w] = None]
    BY <1>0 DEF Store, Writing
  <1>2. /\ k \in Write /\ k.id \in Ids /\ k.key \in Keys \cup {None}
        /\ k.input.context \in Contexts /\ k.input.scope \in Scopes
        /\ k.existing \in Record \cup {None} /\ k.does = "write"
    BY <1>0, <1>1, CallKinds DEF Write, Input
  <1>3. Stands(k)
    BY <1>0, <1>1 DEF IndexInv, FoundStands, Writing
  <1>4. PICK o : o = k.input.context.org
    OBVIOUS
  <1>5. o \in Orgs
    BY <1>2, <1>4 DEF Orgs
  <1>6. k.existing # None => k.existing.place.org = o
    BY <1>0, <1>1, <1>4 DEF OwnRecordsOnly
  <1>7. PICK new : new = NewRecord(k)
    OBVIOUS
  <1>8. new # None /\ new.key = k.key /\ new.place.org = o /\ records'[k.id] = new
    BY <1>0, <1>1, <1>2, <1>4, <1>7, IndexTyped, PlacesTyped DEF TypeOK
  <1>9. \A i \in Ids \ {k.id} : records'[i] = records[i]
    BY <1>1 DEF TypeOK
  <1>10. ASSUME NEW x \in Orgs \X Keys
         PROVE  keyToId'[x] = IF k.key # None /\ x = <<o, k.key>> THEN k.id
                              ELSE IF /\ k.existing # None /\ k.existing.key \notin {None, k.key}
                                      /\ x = <<k.existing.place.org, k.existing.key>> THEN None
                              ELSE keyToId[x]
    <2>1. keyToId \in [Orgs \X Keys -> Ids \cup {None}]
      BY DEF TypeOK
    <2>2. Unindexed(k) \in [Orgs \X Keys -> Ids \cup {None}]
      BY <1>0, <1>1, IndexTyped
    <2>3. Unindexed(k)[x] = IF /\ k.existing # None /\ k.existing.key \notin {None, k.key}
                               /\ x = <<k.existing.place.org, k.existing.key>> THEN None
                            ELSE keyToId[x]
      BY <2>1 DEF Unindexed
    <2> QED
      BY <1>1, <1>4, <2>2, <2>3
  <1>11. KeyLookupExact'
    <2> SUFFICES ASSUME NEW x \in Orgs \X Keys, keyToId'[x] # None
                 PROVE  /\ records'[keyToId'[x]] # None
                        /\ records'[keyToId'[x]].place.org = x[1]
                        /\ records'[keyToId'[x]].key = x[2]
      BY DEF KeyLookupExact
    <2>1. CASE k.key # None /\ x = <<o, k.key>>
      BY <2>1, <1>8, <1>10
    <2>2. CASE ~(k.key # None /\ x = <<o, k.key>>)
      <3>1. /\ keyToId'[x] = keyToId[x] /\ keyToId[x] # None
            /\ ~(/\ k.existing # None /\ k.existing.key \notin {None, k.key}
                 /\ x = <<k.existing.place.org, k.existing.key>>)
        BY <2>2, <1>10
      <3>2. /\ keyToId[x] \in Ids /\ records[keyToId[x]] # None
            /\ records[keyToId[x]].place.org = x[1] /\ records[keyToId[x]].key = x[2]
        BY <3>1 DEF IndexInv, KeyLookupExact, TypeOK
      <3>3. CASE keyToId[x] = k.id
        <4>1. records[k.id] = k.existing /\ k.existing # None
          BY <3>2, <3>3, <1>3 DEF Stands
        <4>2. x = <<k.existing.place.org, k.existing.key>> /\ x[2] \in Keys
          BY <3>2, <3>3, <4>1
        <4>3. k.existing.key = k.key /\ k.key # None
          BY <3>1, <4>1, <4>2, MemoryAssumption
        <4>4. x = <<o, k.key>>
          BY <4>1, <4>2, <4>3, <1>6
        <4> QED
          BY <2>2, <4>3, <4>4
      <3>4. CASE keyToId[x] # k.id
        BY <3>1, <3>2, <3>4, <1>9
      <3> QED
        BY <3>3, <3>4
    <2> QED
      BY <2>1, <2>2
  <1>12. KeyedIsFound'
    <2> SUFFICES ASSUME NEW i \in Ids, records'[i] # None, records'[i].key # None
                 PROVE  keyToId'[<<records'[i].place.org, records'[i].key>>] = i
      BY DEF KeyedIsFound
    <2>1. CASE i = k.id
      <3>1. <<o, k.key>> \in Orgs \X Keys /\ k.key # None
        BY <2>1, <1>2, <1>5, <1>8
      <3> QED
        BY <2>1, <3>1, <1>8, <1>10
    <2>2. CASE i # k.id
      <3>1. PICK x : x = <<records[i].place.org, records[i].key>>
        OBVIOUS
      <3>2. records'[i] = records[i] /\ records[i] \in Record
        BY <2>2, <1>9 DEF TypeOK
      <3>3. x \in Orgs \X Keys
        BY <3>1, <3>2 DEF Record, Place
      <3>4. keyToId[x] = i /\ i # None
        BY <3>1, <3>2, MemoryAssumption DEF IndexInv, KeyedIsFound
      <3>5. ~(k.key # None /\ x = <<o, k.key>>)
        BY <2>2, <3>4, <1>3, <1>2, <1>4 DEF Stands
      <3>6. ~(/\ k.existing # None /\ k.existing.key \notin {None, k.key}
              /\ x = <<k.existing.place.org, k.existing.key>>)
        BY <2>2, <3>4, <1>3 DEF Stands
      <3> QED
        BY <3>1, <3>2, <3>3, <3>4, <3>5, <3>6, <1>10
    <2> QED
      BY <2>1, <2>2
  <1>13. FoundStands'
    <2>1. \A v \in Calls : call'[v] = None
      BY <1>1, CallSet DEF OneCallAtATime, Writing
    <2>2. \A i \in expired' : records'[i] # None
      BY <1>1, <1>8, <1>9 DEF IndexInv, FoundStands, TypeOK
    <2> QED
      BY <2>1, <2>2 DEF FoundStands
  <1> QED
    BY <1>11, <1>12, <1>13 DEF IndexInv

LEMMA DeleteKeepsIndex ==
    ASSUME TypeOK, IndexInv, OneCallAtATime, NEW w \in Calls, Delete(w)
    PROVE  IndexInv'
  <1>0. PICK k : k = call[w]
    OBVIOUS
  <1>1. /\ Deleting(w)
        /\ records' = [records EXCEPT ![k.id] = None]
        /\ keyToId' = Forgotten(k.existing)
        /\ expired' = expired \ {k.id}
        /\ call' = [call EXCEPT ![w] = None]
    BY <1>0 DEF Delete, Deleting
  <1>2. k.id \in Ids /\ k.existing \in Record /\ k.existing # None
    BY <1>0, <1>1, CallKinds, NoneAssumption DEF Deletion
  <1>3. Stands(k)
    BY <1>0, <1>1 DEF IndexInv, FoundStands, Deleting
  <1>4. records'[k.id] = None /\ \A i \in Ids \ {k.id} : records'[i] = records[i]
    BY <1>1, <1>2 DEF TypeOK
  <1>5. \A x \in Orgs \X Keys :
           keyToId'[x] = IF k.existing.key # None /\ x = <<k.existing.place.org, k.existing.key>>
                         THEN None ELSE keyToId[x]
    BY <1>1 DEF Forgotten, TypeOK
  <1>6. KeyLookupExact'
    <2> SUFFICES ASSUME NEW x \in Orgs \X Keys, keyToId'[x] # None
                 PROVE  /\ records'[keyToId'[x]] # None
                        /\ records'[keyToId'[x]].place.org = x[1]
                        /\ records'[keyToId'[x]].key = x[2]
      BY DEF KeyLookupExact
    <2>1. /\ keyToId'[x] = keyToId[x] /\ keyToId[x] # None
          /\ ~(k.existing.key # None /\ x = <<k.existing.place.org, k.existing.key>>)
      BY <1>5
    <2>2. /\ keyToId[x] \in Ids /\ records[keyToId[x]] # None
          /\ records[keyToId[x]].place.org = x[1] /\ records[keyToId[x]].key = x[2]
      BY <2>1 DEF IndexInv, KeyLookupExact, TypeOK
    <2>3. keyToId[x] # k.id
      <3> SUFFICES ASSUME keyToId[x] = k.id PROVE FALSE
        OBVIOUS
      <3>1. records[k.id] = k.existing
        BY <2>2, <1>3 DEF Stands
      <3>2. x = <<k.existing.place.org, k.existing.key>> /\ k.existing.key \in Keys
        BY <2>2, <3>1
      <3> QED
        BY <2>1, <3>2, MemoryAssumption
    <2> QED
      BY <2>1, <2>2, <2>3, <1>4
  <1>7. KeyedIsFound'
    <2> SUFFICES ASSUME NEW i \in Ids, records'[i] # None, records'[i].key # None
                 PROVE  keyToId'[<<records'[i].place.org, records'[i].key>>] = i
      BY DEF KeyedIsFound
    <2>1. i # k.id /\ records'[i] = records[i] /\ records[i] \in Record
      BY <1>4 DEF TypeOK
    <2>2. PICK x : x = <<records[i].place.org, records[i].key>>
      OBVIOUS
    <2>3. x \in Orgs \X Keys
      BY <2>1, <2>2 DEF Record, Place
    <2>4. keyToId[x] = i /\ i # None
      BY <2>1, <2>2, MemoryAssumption DEF IndexInv, KeyedIsFound
    <2>5. ~(k.existing.key # None /\ x = <<k.existing.place.org, k.existing.key>>)
      BY <2>1, <2>4, <1>2, <1>3 DEF Stands
    <2> QED
      BY <2>1, <2>2, <2>3, <2>4, <2>5, <1>5
  <1>8. FoundStands'
    <2>1. \A v \in Calls : call'[v] = None
      BY <1>1, CallSet DEF OneCallAtATime, Deleting
    <2>2. \A i \in expired' : records'[i] # None
      BY <1>1, <1>4 DEF IndexInv, FoundStands, TypeOK
    <2> QED
      BY <2>1, <2>2 DEF FoundStands
  <1> QED
    BY <1>6, <1>7, <1>8 DEF IndexInv

\* Expiry runs beside a call: what the call found may go, and nothing else comes.
LEMMA ExpiryKeepsIndex ==
    ASSUME TypeOK, IndexInv, (\E i \in Ids : Expire(i)) \/ PruneExpired
    PROVE  IndexInv'
  <1>1. ASSUME NEW i \in Ids, Expire(i) PROVE IndexInv'
    BY <1>1 DEF Expire, IndexInv, FoundStands, Stands, KeyLookupExact, KeyedIsFound
  <1>2. CASE PruneExpired
    <2>1. /\ records' = [i \in Ids |-> IF i \in expired THEN None ELSE records[i]]
          /\ keyToId' = [k \in Orgs \X Keys |->
                     IF \E i \in expired : /\ records[i].place.org = k[1]
                                           /\ records[i].key = k[2]
                     THEN None ELSE keyToId[k]]
          /\ expired' = {} /\ call' = call
      BY <1>2 DEF PruneExpired
    <2>2. expired \subseteq Ids /\ \A i \in expired : records[i] # None
      BY DEF IndexInv, FoundStands, TypeOK
    <2>3. KeyLookupExact'
      <3> SUFFICES ASSUME NEW x \in Orgs \X Keys, keyToId'[x] # None
                   PROVE  /\ records'[keyToId'[x]] # None
                          /\ records'[keyToId'[x]].place.org = x[1]
                          /\ records'[keyToId'[x]].key = x[2]
        BY DEF KeyLookupExact
      <3>1. /\ keyToId'[x] = keyToId[x] /\ keyToId[x] # None
            /\ ~\E i \in expired : records[i].place.org = x[1] /\ records[i].key = x[2]
        BY <2>1
      <3>2. /\ keyToId[x] \in Ids /\ records[keyToId[x]] # None
            /\ records[keyToId[x]].place.org = x[1] /\ records[keyToId[x]].key = x[2]
        BY <3>1 DEF IndexInv, KeyLookupExact, TypeOK
      <3> QED
        BY <2>1, <3>1, <3>2
    <2>4. KeyedIsFound'
      <3> SUFFICES ASSUME NEW i \in Ids, records'[i] # None, records'[i].key # None
                   PROVE  keyToId'[<<records'[i].place.org, records'[i].key>>] = i
        BY DEF KeyedIsFound
      <3>1. i \notin expired /\ records'[i] = records[i] /\ records[i] \in Record
        BY <2>1 DEF TypeOK
      <3>2. PICK x : x = <<records[i].place.org, records[i].key>>
        OBVIOUS
      <3>3. x \in Orgs \X Keys
        BY <3>1, <3>2 DEF Record, Place
      <3>4. keyToId[x] = i
        BY <3>1, <3>2 DEF IndexInv, KeyedIsFound
      <3>5. ASSUME NEW j \in expired, records[j].place.org = x[1], records[j].key = x[2]
            PROVE  FALSE
        <4>1. x = <<records[j].place.org, records[j].key>> /\ records[j].key # None
          BY <3>3, <3>5, MemoryAssumption
        <4>2. keyToId[x] = j
          BY <2>2, <4>1 DEF IndexInv, KeyedIsFound
        <4> QED
          BY <3>1, <3>4, <4>2
      <3> QED
        BY <2>1, <3>1, <3>2, <3>3, <3>4, <3>5
    <2>5. ASSUME NEW w \in Calls, call[w] # None PROVE Stands(call[w])'
      <3>1. Stands(call[w])
        BY <2>5 DEF IndexInv, FoundStands
      <3>2. /\ call[w].id \in Ids
            /\ call[w].existing # None => call[w].existing \in Record
            /\ call[w].does = "write" => /\ call[w].key \in Keys \cup {None}
                                         /\ call[w].input.context.org \in Orgs
        BY <2>5, CallKinds DEF Write, Deletion, Input, Orgs
      <3>3. records'[call[w].id] \in {call[w].existing, None}
        BY <2>1, <3>1, <3>2 DEF Stands
      <3>4. \A x \in Orgs \X Keys : keyToId'[x] \in {keyToId[x], None}
        BY <2>1
      <3>5. call[w].existing # None /\ call[w].existing.key # None =>
              <<call[w].existing.place.org, call[w].existing.key>> \in Orgs \X Keys
        BY <3>2 DEF Record, Place
      <3>6. call[w].does = "write" /\ call[w].key # None =>
              <<call[w].input.context.org, call[w].key>> \in Orgs \X Keys
        BY <3>2
      <3> QED
        BY <2>1, <3>1, <3>3, <3>4, <3>5, <3>6 DEF Stands
    <2> QED
      BY <2>1, <2>3, <2>4, <2>5 DEF IndexInv, FoundStands
  <1> QED
    BY <1>1, <1>2

LEMMA IndexStepKeeps ==
    ASSUME StoreInv, IndexInv, OneCallAtATime, OwnRecordsOnly, [Next]_vars
    PROVE  IndexInv'
  <1>0. TypeOK /\ TypeOK'
    BY StoreStepKeeps DEF StoreInv
  <1>1. CASE UNCHANGED vars
    BY <1>1 DEF vars, IndexInv, FoundStands, Stands, KeyLookupExact, KeyedIsFound
  <1>2. ASSUME NEW w \in Calls, WriteCall(w) \/ EmbedFails(w) PROVE IndexInv'
    BY <1>0, <1>2, QuietSteps
  <1>3. ASSUME NEW w \in Calls, NEW ctx \in Contexts, NEW i \in Ids, BeginDelete(w, i, ctx)
        PROVE  IndexInv'
    BY <1>0, <1>3, QuietSteps
  <1>4. ASSUME NEW w \in Calls, NEW ctx \in Contexts, NEW c \in Conflicts, AcceptIncoming(w, c, ctx)
        PROVE  IndexInv'
    BY <1>0, <1>4, QuietSteps
  <1>5. ASSUME NEW ctx \in Contexts, NEW c \in Conflicts, KeepExisting(c, ctx) PROVE IndexInv'
    BY <1>0, <1>5, QuietKeepsIndex DEF KeepExisting
  <1>6. ASSUME NEW w \in Calls, Store(w) \/ Delete(w) PROVE IndexInv'
    BY <1>0, <1>6, StoreKeepsIndex, DeleteKeepsIndex
  <1>7. CASE (\E i \in Ids : Expire(i)) \/ PruneExpired
    BY <1>0, <1>7, ExpiryKeepsIndex
  <1> QED
    BY <1>1, <1>2, <1>3, <1>4, <1>5, <1>6, <1>7 DEF Next

\* While no two calls overlap and no write takes over another organisation's
\* record: every key leads to the record that has it, and every record that has
\* one is found by it, whatever expires or is pruned during a call.
THEOREM IndexExactAlone ==
    Spec /\ [](OneCallAtATime /\ OwnRecordsOnly) => [](KeyLookupExact /\ KeyedIsFound)
  <1>1. Init => StoreInv /\ IndexInv
    BY StoreStarts
  <1>2. StoreInv /\ IndexInv /\ (OneCallAtATime /\ OwnRecordsOnly) /\ [Next]_vars
          => (StoreInv /\ IndexInv)'
    BY StoreStepKeeps, IndexStepKeeps
  <1>3. StoreInv /\ IndexInv => KeyLookupExact /\ KeyedIsFound
    BY DEF IndexInv
  <1> QED
    BY <1>1, <1>2, <1>3, PTL DEF Spec

\* A record is what it was, or what a write that stores it makes of it.
LEMMA RecordsStored ==
    ASSUME StoreInv, Next, NEW i \in Ids, records'[i] # None
    PROVE  \/ records'[i] = records[i]
           \/ \E w \in Calls : /\ Store(w) /\ Writing(w) /\ i = call[w].id
                               /\ records'[i].place.scope = call[w].input.scope
  <1>1. ASSUME NEW w \in Calls, Store(w), records'[i] # records[i]
        PROVE  /\ Writing(w) /\ i = call[w].id
               /\ records'[i].place.scope = call[w].input.scope
    <2>0. PICK k : k = call[w]
      OBVIOUS
    <2>1. Writing(w) /\ records' = [records EXCEPT ![k.id] = NewRecord(k)]
      BY <1>1, <2>0 DEF Store, Writing
    <2>2. /\ k \in Write /\ k.id \in Ids /\ k.input.context \in Contexts
          /\ k.input.scope \in Scopes
      BY <2>0, <2>1, CallKinds DEF Write, Input, StoreInv
    <2>3. i = k.id
      BY <1>1, <2>1 DEF StoreInv, TypeOK
    <2>4. records'[i].place = ScopeContext(k.input.scope, k.input.context)
      BY <2>0, <2>1, <2>3, IndexTyped DEF StoreInv, TypeOK
    <2>5. records'[i].place.scope = k.input.scope
      BY <2>2, <2>4, PlacesTyped
    <2> QED
      BY <2>0, <2>1, <2>3, <2>5
  <1>2. ASSUME NEW w \in Calls,
               \/ WriteCall(w) \/ EmbedFails(w) \/ Delete(w)
               \/ \E ctx \in Contexts : \/ \E j \in Ids : BeginDelete(w, j, ctx)
                                       \/ \E c \in Conflicts : AcceptIncoming(w, c, ctx)
        PROVE  records'[i] = records[i]
    BY <1>2 DEF WriteCall, EmbedFails, Delete, BeginDelete, AcceptIncoming, StoreInv, TypeOK
  <1>3. ASSUME \/ PruneExpired \/ \E j \in Ids : Expire(j)
               \/ \E c \in Conflicts, ctx \in Contexts : KeepExisting(c, ctx)
        PROVE  records'[i] = records[i]
    BY <1>3 DEF PruneExpired, Expire, KeepExisting
  <1> QED
    BY <1>1, <1>2, <1>3 DEF Next

\* Under the same conditions no write moves a record to another scope.
THEOREM ScopeImmutableAlone ==
    Spec /\ [](OneCallAtATime /\ OwnRecordsOnly) => ScopeIsImmutable
  <1>1. Init => StoreInv /\ IndexInv
    BY StoreStarts
  <1>2. StoreInv /\ IndexInv /\ (OneCallAtATime /\ OwnRecordsOnly) /\ [Next]_vars
          => (StoreInv /\ IndexInv)'
    BY StoreStepKeeps, IndexStepKeeps
  <1>3. StoreInv /\ IndexInv /\ [Next]_vars
          => [\A i \in Ids : records[i] # None /\ records'[i] # None
                => records'[i].place.scope = records[i].place.scope]_vars
    <2> SUFFICES ASSUME StoreInv, IndexInv, Next, NEW i \in Ids, records[i] # None, records'[i] # None
                 PROVE  records'[i].place.scope = records[i].place.scope
      OBVIOUS
    <2>1. CASE records'[i] = records[i]
      BY <2>1
    <2>2. ASSUME NEW w \in Calls, Writing(w), i = call[w].id,
                 records'[i].place.scope = call[w].input.scope
          PROVE  records'[i].place.scope = records[i].place.scope
      <3>1. Stands(call[w]) /\ call[w].does = "write"
        BY <2>2 DEF IndexInv, FoundStands, Writing
      <3> QED
        BY <2>2, <3>1 DEF Stands
    <2> QED
      BY <2>1, <2>2, RecordsStored
  <1> QED
    BY <1>1, <1>2, <1>3, PTL DEF Spec, ScopeIsImmutable

-----------------------------------------------------------------------------
(* SqlMemoryStore: the invariant.                                          *)

HoldersIn(rows, org, key) == {i \in Ids : rows[i] # None /\ rows[i].place.org = org /\ rows[i].key = key}

\* A place is one some context writes to.
Exists(place) == \E ctx \in Contexts : HasContext(place.scope, ctx) /\ place = ScopeContext(place.scope, ctx)

RowsPlaced(rows) == \A i \in Ids : rows[i] # None => Exists(rows[i].place)

OneRowOfAKey(rows) ==
  \A i, j \in Ids : /\ rows[i] # None /\ rows[j] # None
                    /\ rows[i].key # None /\ rows[i].key = rows[j].key
                    /\ rows[i].place.org = rows[j].place.org
              => i = j

KeepsScope(rows, i, scope) == rows[i] # None => rows[i].place.scope = scope

\* What a call that is not stale has found stands.
StandsIn(rows, k) ==
  /\ k.at = "holder" => KeepsScope(rows, k.id, k.input.scope)
  /\ k.at = "embedding" => /\ KeepsScope(rows, k.id, k.place.scope)
                           /\ k.key # None => HoldersIn(rows, k.place.org, k.key) \subseteq {k.id}

\* Calls write where some context writes.
CallPlaced(k) ==
  /\ k.at = "holder" => k.id = k.input.id
  /\ k.at \in {"holder", "queue"} => HasContext(k.input.scope, k.input.context)
  /\ k.at = "embedding" => Exists(k.place)

\* The conflict a call resolves.
Takes(k) == IF k # None /\ "resolves" \in DOMAIN k THEN k.resolves ELSE None

Settles(k) == k.at = "resolve" /\ k.accepts

\* A call resolves a conflict that was pending when it began.
ConflictKept(conflict, c, overlapped) == /\ conflict # None
                                         /\ conflict.status = "resolved" => c \in overlapped

CallsInv == \A w \in Calls : smCall[w] # None =>
              /\ CallPlaced(smCall[w])
              /\ ~smCall[w].stale => StandsIn(smRows, smCall[w])
              /\ Settles(smCall[w]) => smCall[w].resolves \in smStored

ResolvesInv ==
  \A w \in Calls : Takes(smCall[w]) # None =>
    /\ ConflictKept(smConflicts[Takes(smCall[w])], Takes(smCall[w]), smOverlapped)
    /\ \A v \in Calls : Takes(smCall[v]) = Takes(smCall[w]) => v = w \/ Takes(smCall[w]) \in smOverlapped

SmInv == SmTypeOK /\ RowsPlaced(smRows) /\ OneRowOfAKey(smRows) /\ CallsInv /\ ResolvesInv /\ ConflictsAreSettled

-----------------------------------------------------------------------------
(* Calls and what they have found.                                         *)

LEMMA CallShape ==
    ASSUME NEW k \in SmCalls
    PROVE  /\ k # None /\ k.id \in Ids /\ k.stale \in BOOLEAN
           /\ k.at \in {"holder", "queue", "payload", "embedding", "resolve", "delete"}
           /\ k.at \in {"holder", "queue"} => k \in SmLooking
           /\ k.at = "payload" => k \in SmReviewing
           /\ k.at = "embedding" => k \in SmFound
           /\ k.at = "resolve" => k \in SmResolving
           /\ k.at = "delete" => k \in SmDeleting
  <1>1. k # None
    BY SmNoneAssumption
  <1>2. CASE k \in SmLooking
    BY <1>1, <1>2 DEF SmLooking
  <1>3. CASE k \in SmReviewing
    BY <1>1, <1>3 DEF SmReviewing
  <1>4. CASE k \in SmFound
    BY <1>1, <1>4 DEF SmFound
  <1>5. CASE k \in SmResolving
    BY <1>1, <1>5 DEF SmResolving
  <1>6. CASE k \in SmDeleting
    BY <1>1, <1>6 DEF SmDeleting
  <1> QED
    BY <1>2, <1>3, <1>4, <1>5, <1>6 DEF SmCalls

LEMMA TakesShape ==
    /\ Takes(None) = None
    /\ \A k \in SmCalls : /\ k \notin SmDeleting => Takes(k) = k.resolves
                          /\ k \in SmDeleting => Takes(k) = None
                          /\ Takes(k) \in Conflicts \cup {None}
                          /\ "key" \in DOMAIN k <=> k.at \in {"holder", "queue", "embedding"}
                          /\ "resolves" \in DOMAIN k <=> k \notin SmDeleting
  <1>1. Takes(None) = None
    BY DEF Takes
  <1>2. ASSUME NEW k \in SmCalls
        PROVE  /\ k \notin SmDeleting => Takes(k) = k.resolves
               /\ k \in SmDeleting => Takes(k) = None
               /\ Takes(k) \in Conflicts \cup {None}
               /\ "key" \in DOMAIN k <=> k.at \in {"holder", "queue", "embedding"}
               /\ "resolves" \in DOMAIN k <=> k \notin SmDeleting
    <2>1. k # None
      BY CallShape
    <2>2. CASE k \in SmLooking
      <3>1. k = [at |-> k.at, id |-> k.id, key |-> k.key, input |-> k.input, resolves |-> k.resolves, stale |-> k.stale]
            /\ k.at \in {"holder", "queue"} /\ k.resolves \in Conflicts \cup {None}
        BY <2>2 DEF SmLooking
      <3>2. DOMAIN k = {"at", "id", "key", "input", "resolves", "stale"}
        BY <3>1
      <3>3. k \notin SmDeleting
        BY <3>1 DEF SmDeleting
      <3> QED
        BY <2>1, <3>1, <3>2, <3>3 DEF Takes
    <2>3. CASE k \in SmReviewing
      <3>1. k = [at |-> k.at, id |-> k.id, input |-> k.input, resolves |-> k.resolves, stale |-> k.stale]
            /\ k.at = "payload" /\ k.resolves \in Conflicts \cup {None}
        BY <2>3 DEF SmReviewing
      <3>2. DOMAIN k = {"at", "id", "input", "resolves", "stale"}
        BY <3>1
      <3>3. k \notin SmDeleting
        BY <3>1 DEF SmDeleting
      <3> QED
        BY <2>1, <3>1, <3>2, <3>3 DEF Takes
    <2>4. CASE k \in SmFound
      <3>1. k = [at |-> k.at, id |-> k.id, key |-> k.key, place |-> k.place, resolves |-> k.resolves, stale |-> k.stale]
            /\ k.at = "embedding" /\ k.resolves \in Conflicts \cup {None}
        BY <2>4 DEF SmFound
      <3>2. DOMAIN k = {"at", "id", "key", "place", "resolves", "stale"}
        BY <3>1
      <3>3. k \notin SmDeleting
        BY <3>1 DEF SmDeleting
      <3> QED
        BY <2>1, <3>1, <3>2, <3>3 DEF Takes
    <2>5. CASE k \in SmResolving
      <3>1. k = [at |-> k.at, id |-> k.id, resolves |-> k.resolves, accepts |-> k.accepts, stale |-> k.stale]
            /\ k.at = "resolve" /\ k.resolves \in Conflicts \cup {None}
        BY <2>5 DEF SmResolving
      <3>2. DOMAIN k = {"at", "id", "accepts", "resolves", "stale"}
        BY <3>1
      <3>3. k \notin SmDeleting
        BY <3>1 DEF SmDeleting
      <3> QED
        BY <2>1, <3>1, <3>2, <3>3 DEF Takes
    <2>6. CASE k \in SmDeleting
      <3>1. k = [at |-> k.at, id |-> k.id, stale |-> k.stale] /\ k.at = "delete"
        BY <2>6 DEF SmDeleting
      <3>2. DOMAIN k = {"at", "id", "stale"}
        BY <3>1
      <3> QED
        BY <2>1, <2>6, <3>1, <3>2 DEF Takes
    <2> QED
      BY <2>2, <2>3, <2>4, <2>5, <2>6 DEF SmCalls
  <1> QED
    BY <1>1, <1>2

\* A call that becomes stale, or not, is otherwise what it was.
LEMMA Staled ==
    ASSUME NEW k \in SmCalls, NEW b \in BOOLEAN, NEW j, j = [k EXCEPT !.stale = b]
    PROVE  /\ j \in SmCalls /\ j.at = k.at /\ j.id = k.id /\ j.stale = b
           /\ Takes(j) = Takes(k)
           /\ Settles(j) <=> Settles(k)
           /\ Settles(k) => j.resolves = k.resolves
           /\ CallPlaced(k) => CallPlaced(j)
           /\ \A rows : StandsIn(rows, k) => StandsIn(rows, j)
  <1>1. CASE k \in SmLooking
    <2>1. /\ j \in SmLooking /\ j.at = k.at /\ j.id = k.id /\ j.stale = b
          /\ j.resolves = k.resolves /\ j.input = k.input /\ j.key = k.key
          /\ k.at \in {"holder", "queue"}
      BY <1>1 DEF SmLooking
    <2>2. j \in SmCalls /\ k \notin SmDeleting /\ j \notin SmDeleting
      BY <2>1 DEF SmCalls, SmDeleting
    <2>3. Takes(j) = Takes(k)
      BY <2>1, <2>2, TakesShape
    <2> QED
      BY <2>1, <2>2, <2>3 DEF Settles, CallPlaced, StandsIn
  <1>2. CASE k \in SmReviewing
    <2>1. /\ j \in SmReviewing /\ j.at = k.at /\ j.id = k.id /\ j.stale = b
          /\ j.resolves = k.resolves /\ k.at = "payload"
      BY <1>2 DEF SmReviewing
    <2>2. j \in SmCalls /\ k \notin SmDeleting /\ j \notin SmDeleting
      BY <2>1 DEF SmCalls, SmDeleting
    <2>3. Takes(j) = Takes(k)
      BY <2>1, <2>2, TakesShape
    <2> QED
      BY <2>1, <2>2, <2>3 DEF Settles, CallPlaced, StandsIn
  <1>3. CASE k \in SmFound
    <2>1. /\ j \in SmFound /\ j.at = k.at /\ j.id = k.id /\ j.stale = b
          /\ j.resolves = k.resolves /\ j.place = k.place /\ j.key = k.key
          /\ k.at = "embedding"
      BY <1>3 DEF SmFound
    <2>2. j \in SmCalls /\ k \notin SmDeleting /\ j \notin SmDeleting
      BY <2>1 DEF SmCalls, SmDeleting
    <2>3. Takes(j) = Takes(k)
      BY <2>1, <2>2, TakesShape
    <2> QED
      BY <2>1, <2>2, <2>3 DEF Settles, CallPlaced, StandsIn
  <1>4. CASE k \in SmResolving
    <2>1. /\ j \in SmResolving /\ j.at = k.at /\ j.id = k.id /\ j.stale = b
          /\ j.resolves = k.resolves /\ j.accepts = k.accepts /\ k.at = "resolve"
      BY <1>4 DEF SmResolving
    <2>2. j \in SmCalls /\ k \notin SmDeleting /\ j \notin SmDeleting
      BY <2>1 DEF SmCalls, SmDeleting
    <2>3. Takes(j) = Takes(k)
      BY <2>1, <2>2, TakesShape
    <2> QED
      BY <2>1, <2>2, <2>3 DEF Settles, CallPlaced, StandsIn
  <1>5. CASE k \in SmDeleting
    <2>1. /\ j \in SmDeleting /\ j.at = k.at /\ j.id = k.id /\ j.stale = b /\ k.at = "delete"
      BY <1>5 DEF SmDeleting
    <2>2. j \in SmCalls
      BY <2>1 DEF SmCalls
    <2>3. Takes(j) = Takes(k)
      BY <1>5, <2>1, <2>2, TakesShape
    <2> QED
      BY <2>1, <2>2, <2>3 DEF Settles, CallPlaced, StandsIn
  <1> QED
    BY <1>1, <1>2, <1>3, <1>4, <1>5 DEF SmCalls

LEMMA ContextFacts ==
    ASSUME NEW in \in Input
    PROVE  /\ in.id \in Ids /\ in.key \in Keys \cup {None} /\ in.scope \in Scopes /\ in.context \in Contexts
           /\ ScopeContext(in.scope, in.context) \in Place
           /\ ScopeContext(in.scope, in.context).scope = in.scope
           /\ ScopeContext(in.scope, in.context).org = in.context.org
           /\ HasContext(in.scope, in.context) => Exists(ScopeContext(in.scope, in.context))
  <1>1. in.id \in Ids /\ in.key \in Keys \cup {None} /\ in.scope \in Scopes /\ in.context \in Contexts
    BY DEF Input
  <1> DEFINE p == ScopeContext(in.scope, in.context)
  <1>2. p \in Place /\ p.scope = in.scope /\ p.org = in.context.org
    BY <1>1 DEF ScopeContext, Place, Orgs
  <1>3. ASSUME HasContext(in.scope, in.context) PROVE Exists(p)
    <2>1. HasContext(p.scope, in.context) /\ p = ScopeContext(p.scope, in.context)
      BY <1>2, <1>3
    <2> HIDE DEF p
    <2> QED
      BY <1>1, <2>1 DEF Exists
  <1> QED
    BY <1>1, <1>2, <1>3

\* What a call becomes when rows of the given ids and keys change.
LEMMA DisturbedCall ==
    ASSUME SmTypeOK, NEW changed \in SUBSET Ids, NEW keys, NEW v \in Calls
    PROVE  /\ smCall[v] = None => Disturbed(changed, keys)[v] = None
           /\ smCall[v] # None =>
                \E b \in BOOLEAN :
                  /\ Disturbed(changed, keys)[v] = [smCall[v] EXCEPT !.stale = b]
                  /\ smCall[v].stale => b
                  /\ smCall[v].at \in {"holder", "embedding"} =>
                       (smCall[v].id \in changed \/ smCall[v].key \in keys \ {None} => b)
  <1> DEFINE k == smCall[v]
  <1>1. k \in SmCalls \cup {None}
    BY DEF SmTypeOK
  <1>2. ASSUME k # None PROVE
                \E b \in BOOLEAN :
                  /\ Disturbed(changed, keys)[v] = [k EXCEPT !.stale = b]
                  /\ k.stale => b
                  /\ k.at \in {"holder", "embedding"} =>
                       (k.id \in changed \/ k.key \in keys \ {None} => b)
    <2>1. k \in SmCalls /\ k.stale \in BOOLEAN
      BY <1>1, <1>2, CallShape
    <2>2. CASE k.at \in {"queue", "payload", "resolve"}
      <3>1. Disturbed(changed, keys)[v] = k
        BY <2>2 DEF Disturbed
      <3>2. k = [k EXCEPT !.stale = k.stale]
        BY <2>1 DEF SmCalls, SmLooking, SmReviewing, SmFound, SmResolving, SmDeleting
      <3> QED
        BY <2>1, <2>2, <3>1, <3>2
    <2>3. CASE k.at \notin {"queue", "payload", "resolve"}
      <3> DEFINE b == k.stale \/ k.id \in changed \/ ("key" \in DOMAIN k /\ k.key \in keys \ {None})
      <3>1. Disturbed(changed, keys)[v] = [k EXCEPT !.stale = b]
        BY <1>2, <2>3 DEF Disturbed
      <3>2. b \in BOOLEAN
        BY <2>1
      <3>3. k.at \in {"holder", "embedding"} => "key" \in DOMAIN k
        BY <2>1, TakesShape
      <3>4. (k.stale => b) /\ (k.at \in {"holder", "embedding"} => (k.id \in changed \/ k.key \in keys \ {None} => b))
        BY <3>3
      <3> HIDE DEF b
      <3> QED
        BY <3>1, <3>2, <3>4
    <2> QED
      BY <2>2, <2>3
  <1>3. k = None => Disturbed(changed, keys)[v] = None
    BY DEF Disturbed
  <1> QED
    BY <1>2, <1>3

\* What a call that is not stale found still stands when other rows changed.
LEMMA StandsAfter ==
    ASSUME NEW k \in SmCalls, NEW changed \in SUBSET Ids, NEW keys, NEW rows, NEW after,
           StandsIn(rows, k),
           k.at \in {"holder", "embedding"} => k.id \notin changed /\ k.key \notin keys \ {None},
           \A i \in Ids \ changed : after[i] = rows[i],
           \A i \in changed : after[i] # None => after[i].key \in keys
    PROVE  StandsIn(after, k)
  <1>1. k.id \in Ids
    BY CallShape
  <1>2. ASSUME k.at = "holder" PROVE KeepsScope(after, k.id, k.input.scope)
    BY <1>1, <1>2 DEF StandsIn, KeepsScope
  <1>3. ASSUME k.at = "embedding" PROVE KeepsScope(after, k.id, k.place.scope)
    BY <1>1, <1>3 DEF StandsIn, KeepsScope
  <1>4. ASSUME k.at = "embedding", k.key # None PROVE HoldersIn(after, k.place.org, k.key) \subseteq {k.id}
    <2>1. ASSUME NEW i \in HoldersIn(after, k.place.org, k.key) PROVE i \in HoldersIn(rows, k.place.org, k.key)
      BY <1>4 DEF HoldersIn
    <2>2. HoldersIn(rows, k.place.org, k.key) \subseteq {k.id}
      BY <1>4 DEF StandsIn
    <2> QED
      BY <2>1, <2>2
  <1> QED
    BY <1>2, <1>3, <1>4 DEF StandsIn

\* Every other call keeps what the invariant says of it when rows change.
LEMMA OtherCall ==
    ASSUME SmTypeOK, CallsInv, NEW changed \in SUBSET Ids, NEW keys, NEW after, NEW v \in Calls,
           \A i \in Ids \ changed : after[i] = smRows[i],
           \A i \in changed : after[i] # None => after[i].key \in keys,
           NEW d, d = Disturbed(changed, keys)[v]
    PROVE  /\ d \in SmCalls \cup {None} /\ Takes(d) = Takes(smCall[v])
           /\ d # None => /\ CallPlaced(d)
                          /\ ~d.stale => StandsIn(after, d)
                          /\ Settles(d) => d.resolves \in smStored
  <1>0. /\ smCall[v] = None => d = None
        /\ smCall[v] # None =>
                \E b \in BOOLEAN :
                  /\ d = [smCall[v] EXCEPT !.stale = b]
                  /\ smCall[v].stale => b
                  /\ smCall[v].at \in {"holder", "embedding"} =>
                       (smCall[v].id \in changed \/ smCall[v].key \in keys \ {None} => b)
    <2>1. /\ smCall[v] = None => Disturbed(changed, keys)[v] = None
          /\ smCall[v] # None =>
                \E b \in BOOLEAN :
                  /\ Disturbed(changed, keys)[v] = [smCall[v] EXCEPT !.stale = b]
                  /\ smCall[v].stale => b
                  /\ smCall[v].at \in {"holder", "embedding"} =>
                       (smCall[v].id \in changed \/ smCall[v].key \in keys \ {None} => b)
      BY DisturbedCall, Zenon
    <2> QED
      BY <2>1, Zenon
  <1>1. CASE smCall[v] = None
    BY <1>0, <1>1
  <1>2. CASE smCall[v] # None
    <2>1. smCall[v] \in SmCalls
      BY <1>2 DEF SmTypeOK
    <2>2. PICK b \in BOOLEAN :
                  /\ d = [smCall[v] EXCEPT !.stale = b]
                  /\ smCall[v].stale => b
                  /\ smCall[v].at \in {"holder", "embedding"} =>
                       (smCall[v].id \in changed \/ smCall[v].key \in keys \ {None} => b)
      BY <1>0, <1>2
    <2>3. /\ CallPlaced(smCall[v])
          /\ ~smCall[v].stale => StandsIn(smRows, smCall[v])
          /\ Settles(smCall[v]) => smCall[v].resolves \in smStored
      BY <1>2 DEF CallsInv
    <2>4. /\ d \in SmCalls /\ d.at = smCall[v].at /\ d.id = smCall[v].id /\ d.stale = b
          /\ Takes(d) = Takes(smCall[v])
          /\ Settles(d) <=> Settles(smCall[v])
          /\ Settles(smCall[v]) => d.resolves = smCall[v].resolves
          /\ CallPlaced(smCall[v]) => CallPlaced(d)
          /\ \A rows : StandsIn(rows, smCall[v]) => StandsIn(rows, d)
      BY <2>1, <2>2, Staled
    <2>5. ASSUME ~b PROVE StandsIn(after, smCall[v])
      <3>1. /\ StandsIn(smRows, smCall[v])
            /\ smCall[v].at \in {"holder", "embedding"} =>
                 smCall[v].id \notin changed /\ smCall[v].key \notin keys \ {None}
        BY <2>2, <2>3, <2>5
      <3> QED
        BY <2>1, <3>1, StandsAfter
    <2> QED
      BY <2>3, <2>4, <2>5
  <1> QED
    BY <1>1, <1>2

-----------------------------------------------------------------------------
(* SqlMemoryStore: each statement keeps the invariant.                     *)

\* Calls go on resolving what they resolve, or nothing.
LEMMA TakersKept ==
    ASSUME SmInv,
           \A v \in Calls : Takes(smCall'[v]) # None =>
             /\ Takes(smCall'[v]) = Takes(smCall[v])
             /\ ConflictKept(smConflicts'[Takes(smCall[v])], Takes(smCall[v]), smOverlapped'),
           smOverlapped \subseteq smOverlapped'
    PROVE  ResolvesInv'
  <1> SUFFICES ASSUME NEW w \in Calls, Takes(smCall'[w]) # None
               PROVE  /\ ConflictKept(smConflicts'[Takes(smCall'[w])], Takes(smCall'[w]), smOverlapped')
                      /\ \A v \in Calls : Takes(smCall'[v]) = Takes(smCall'[w])
                                            => v = w \/ Takes(smCall'[w]) \in smOverlapped'
    BY DEF ResolvesInv
  <1>1. Takes(smCall'[w]) = Takes(smCall[w])
        /\ ConflictKept(smConflicts'[Takes(smCall[w])], Takes(smCall[w]), smOverlapped')
    OBVIOUS
  <1>2. ASSUME NEW v \in Calls, Takes(smCall'[v]) = Takes(smCall'[w])
        PROVE  v = w \/ Takes(smCall'[w]) \in smOverlapped'
    <2>1. Takes(smCall[v]) = Takes(smCall[w]) /\ Takes(smCall[w]) # None
      BY <1>1, <1>2
    <2>2. v = w \/ Takes(smCall[w]) \in smOverlapped
      BY <2>1 DEF SmInv, ResolvesInv
    <2> QED
      BY <1>1, <2>2
  <1> QED
    BY <1>1, <1>2

\* A step of one call that changes no row.
LEMMA QuietStep ==
    ASSUME SmInv, NEW w \in Calls, NEW k \in SmCalls \cup {None},
           smCall' = [smCall EXCEPT ![w] = k], UNCHANGED <<smRows, smExpired, conflictVars>>,
           k # None => /\ CallPlaced(k)
                       /\ ~k.stale => StandsIn(smRows, k)
                       /\ Settles(k) => k.resolves \in smStored
                       /\ Takes(k) \in {None, Takes(smCall[w])}
    PROVE  SmInv'
  <1>1. /\ UNCHANGED <<smRows, smExpired, smConflicts, smAccepted, smStored, smTwice, smOverlapped>>
        /\ smCall \in [Calls -> SmCalls \cup {None}]
    BY DEF conflictVars, SmInv, SmTypeOK
  <1>2. /\ smCall' \in [Calls -> SmCalls \cup {None}]
        /\ \A v \in Calls : smCall'[v] = IF v = w THEN k ELSE smCall[v]
    BY <1>1
  <1>3. SmTypeOK'
    BY <1>1, <1>2 DEF SmInv, SmTypeOK
  <1>4. RowsPlaced(smRows)' /\ OneRowOfAKey(smRows)' /\ ConflictsAreSettled'
    BY <1>1 DEF SmInv, RowsPlaced, OneRowOfAKey, ConflictsAreSettled
  <1>5. CallsInv'
    <2> SUFFICES ASSUME NEW v \in Calls, smCall'[v] # None
                 PROVE  /\ CallPlaced(smCall'[v])
                        /\ ~smCall'[v].stale => StandsIn(smRows', smCall'[v])
                        /\ Settles(smCall'[v]) => smCall'[v].resolves \in smStored'
      BY DEF CallsInv
    <2>1. CASE v = w
      BY <1>1, <1>2, <2>1
    <2>2. CASE v # w
      <3>1. smCall'[v] = smCall[v]
        BY <1>2, <2>2
      <3>2. /\ CallPlaced(smCall[v])
            /\ ~smCall[v].stale => StandsIn(smRows, smCall[v])
            /\ Settles(smCall[v]) => smCall[v].resolves \in smStored
        BY <3>1 DEF SmInv, CallsInv
      <3> QED
        BY <1>1, <3>1, <3>2
    <2> QED
      BY <2>1, <2>2
  <1>6. ResolvesInv'
    <2>1. ASSUME NEW v \in Calls, Takes(smCall'[v]) # None
          PROVE  /\ Takes(smCall'[v]) = Takes(smCall[v])
                 /\ ConflictKept(smConflicts'[Takes(smCall[v])], Takes(smCall[v]), smOverlapped')
      <3>1. Takes(smCall'[v]) = Takes(smCall[v])
        BY <1>2, <2>1, TakesShape
      <3> QED
        BY <1>1, <2>1, <3>1 DEF SmInv, ResolvesInv
    <2>2. smOverlapped \subseteq smOverlapped'
      BY <1>1
    <2> QED
      BY <2>1, <2>2, TakersKept
  <1> QED
    BY <1>3, <1>4, <1>5, <1>6 DEF SmInv

\* What goes on when the row of the id was selected.
LEMMA SelectedCall ==
    ASSUME SmTypeOK, NEW in \in Input, NEW c \in Conflicts \cup {None}, NEW k, k = Selected(in, c)
    PROVE  /\ k \in SmCalls \cup {None}
           /\ k # None => /\ CallPlaced(k) /\ StandsIn(smRows, k) /\ ~Settles(k) /\ Takes(k) = c /\ ~k.stale
  <1>1. CASE Rejects(in)
    BY <1>1 DEF Selected
  <1>2. CASE ~Rejects(in)
    <2>1. /\ HasContext(in.scope, in.context) /\ KeepsScope(smRows, in.id, in.scope)
      BY <1>2 DEF Rejects, KeepsScope
    <2>2. smRows[in.id] \in Record \cup {None}
      BY ContextFacts DEF SmTypeOK
    <2>3. KeyOf(in) \in Keys \cup {None}
      BY <2>2, ContextFacts DEF KeyOf, Record
    <2>4. CASE KeyOf(in) = None
      <3> DEFINE p == ScopeContext(in.scope, in.context)
      <3>1. k = [at |-> "embedding", id |-> in.id, key |-> None, place |-> p, resolves |-> c, stale |-> FALSE]
        BY <1>2, <2>4 DEF Selected, Embedding
      <3>2. p \in Place /\ p.scope = in.scope /\ Exists(p) /\ in.id \in Ids
        BY <2>1, ContextFacts
      <3> HIDE DEF p
      <3>3. k \in SmFound /\ k.at = "embedding" /\ k.id = in.id /\ k.key = None /\ k.place = p
            /\ k.resolves = c /\ ~k.stale
        BY <3>1, <3>2 DEF SmFound
      <3>4. k \in SmCalls /\ k \notin SmDeleting
        BY <3>3 DEF SmCalls, SmDeleting
      <3>5. Takes(k) = c
        BY <3>3, <3>4, TakesShape
      <3> QED
        BY <2>1, <3>2, <3>3, <3>4, <3>5 DEF CallPlaced, StandsIn, Settles
    <2>5. CASE KeyOf(in) # None
      <3> DEFINE key == KeyOf(in)
      <3>1. k = [at |-> "holder", id |-> in.id, key |-> key, input |-> in, resolves |-> c, stale |-> FALSE]
        BY <1>2, <2>5 DEF Selected
      <3>2. key \in Keys /\ in.id \in Ids
        BY <2>3, <2>5, ContextFacts
      <3> HIDE DEF key
      <3>3. k \in SmLooking /\ k.at = "holder" /\ k.id = in.id /\ k.input = in
            /\ k.resolves = c /\ ~k.stale
        BY <3>1, <3>2 DEF SmLooking
      <3>4. k \in SmCalls /\ k \notin SmDeleting
        BY <3>3 DEF SmCalls, SmDeleting
      <3>5. Takes(k) = c
        BY <3>3, <3>4, TakesShape
      <3> QED
        BY <2>1, <3>3, <3>4, <3>5 DEF CallPlaced, StandsIn, Settles
    <2> QED
      BY <2>4, <2>5
  <1> QED
    BY <1>1, <1>2

LEMMA SqlWriteKeeps == ASSUME SmInv, NEW w \in Calls, SqlWrite(w) PROVE SmInv'
  <1>1. PICK in \in Input : smCall' = [smCall EXCEPT ![w] = Selected(in, None)]
    BY DEF SqlWrite
  <1> DEFINE k == Selected(in, None)
  <1>2. /\ k \in SmCalls \cup {None}
        /\ k # None => /\ CallPlaced(k) /\ StandsIn(smRows, k) /\ ~Settles(k) /\ Takes(k) = None /\ ~k.stale
    BY SelectedCall DEF SmInv
  <1>3. smCall' = [smCall EXCEPT ![w] = k] /\ UNCHANGED <<smRows, smExpired, conflictVars>>
    BY <1>1 DEF SqlWrite
  <1> HIDE DEF k
  <1> QED
    BY <1>2, <1>3, QuietStep

LEMMA SelectForReviewKeeps == ASSUME SmInv, NEW w \in Calls, SelectForReview(w) PROVE SmInv'
  <1>1. smCall[w] \in SmReviewing
    <2>1. smCall[w] \in SmCalls /\ smCall[w].at = "payload"
      BY DEF SelectForReview, Under, SmInv, SmTypeOK
    <2> QED
      BY <2>1, CallShape
  <1>2. /\ smCall[w].input \in Input /\ smCall[w].resolves \in Conflicts
        /\ smCall[w] \in SmCalls /\ smCall[w] \notin SmDeleting
    BY <1>1 DEF SmReviewing, SmCalls, SmDeleting
  <1>3. Takes(smCall[w]) = smCall[w].resolves
    BY <1>2, TakesShape
  <1> DEFINE k == Selected(smCall[w].input, smCall[w].resolves)
  <1>4. /\ k \in SmCalls \cup {None}
        /\ k # None => /\ CallPlaced(k) /\ StandsIn(smRows, k) /\ ~Settles(k)
                       /\ Takes(k) = smCall[w].resolves /\ ~k.stale
    BY <1>2, SelectedCall DEF SmInv
  <1>5. smCall' = [smCall EXCEPT ![w] = k] /\ UNCHANGED <<smRows, smExpired, conflictVars>>
    BY DEF SelectForReview
  <1> HIDE DEF k
  <1> QED
    BY <1>3, <1>4, <1>5, QuietStep

LEMMA SqlFailsKeeps == ASSUME SmInv, NEW w \in Calls, SqlFails(w) PROVE SmInv'
  BY QuietStep DEF SqlFails, Ends

LEMMA SeenForDeletionKeeps ==
    ASSUME SmInv, NEW w \in Calls, NEW i \in Ids, NEW ctx \in Contexts, SeenForDeletion(w, i, ctx)
    PROVE  SmInv'
  <1> DEFINE k == [at |-> "delete", id |-> i, stale |-> FALSE]
  <1>1. smCall' = [smCall EXCEPT ![w] = k] /\ UNCHANGED <<smRows, smExpired, conflictVars>>
    BY DEF SeenForDeletion
  <1>2. k \in SmDeleting /\ k.at = "delete"
    BY DEF SmDeleting
  <1> HIDE DEF k
  <1>3. k \in SmCalls
    BY <1>2 DEF SmCalls
  <1>4. Takes(k) = None
    BY <1>2, <1>3, TakesShape
  <1> QED
    BY <1>1, <1>2, <1>3, <1>4, QuietStep DEF CallPlaced, StandsIn, Settles

LEMMA SelectHolderKeeps == ASSUME SmInv, NEW w \in Calls, SelectHolder(w) PROVE SmInv'
  <1> DEFINE found == smCall[w]
             in == found.input
             p == ScopeContext(in.scope, in.context)
             goesOn(i) == [at |-> "embedding", id |-> i, key |-> found.key, place |-> p,
                           resolves |-> found.resolves, stale |-> found.stale]
             queued(i) == [found EXCEPT !.at = "queue", !.id = i, !.stale = FALSE]
  <1>1. found \in SmCalls /\ found.at = "holder"
    BY DEF SelectHolder, Under, SmInv, SmTypeOK
  <1>2. found \in SmLooking /\ found # None
    BY <1>1, CallShape
  <1>3. /\ found.id \in Ids /\ found.key \in Keys /\ in \in Input
        /\ found.resolves \in Conflicts \cup {None} /\ found.stale \in BOOLEAN
    BY <1>2 DEF SmLooking
  <1>4. found.key # None
    BY <1>3, MemoryAssumption
  <1>5. /\ found.id = in.id /\ HasContext(in.scope, in.context)
        /\ ~found.stale => KeepsScope(smRows, found.id, in.scope)
    BY <1>1, <1>2 DEF SmInv, CallsInv, CallPlaced, StandsIn
  <1>6. p \in Place /\ p.scope = in.scope /\ p.org = in.context.org /\ Exists(p)
    BY <1>3, <1>5, ContextFacts
  <1>7. UNCHANGED <<smRows, smExpired, conflictVars>>
    BY DEF SelectHolder
  <1>8. OtherHolder(found) = HoldersIn(smRows, p.org, found.key) \ {in.id}
    BY <1>6 DEF OtherHolder, HoldersOf, HoldersIn
  <1>9. Takes(found) = found.resolves
    <2>1. found \notin SmDeleting
      BY <1>1 DEF SmDeleting
    <2> QED
      BY <1>1, <2>1, TakesShape
  <1>10. ASSUME NEW i \in Ids, smCall' = [smCall EXCEPT ![w] = goesOn(i)],
                ~found.stale => /\ KeepsScope(smRows, i, in.scope)
                                /\ HoldersIn(smRows, p.org, found.key) \subseteq {i}
         PROVE  SmInv'
    <2> DEFINE k == goesOn(i)
    <2>1. smCall' = [smCall EXCEPT ![w] = k]
      BY <1>10
    <2> HIDE DEF p
    <2>2. k \in SmFound /\ k.at = "embedding" /\ k.id = i /\ k.key = found.key /\ k.place = p
          /\ k.resolves = found.resolves /\ k.stale = found.stale
      BY <1>3, <1>6 DEF SmFound
    <2> HIDE DEF k
    <2>3. k \in SmCalls /\ k \notin SmDeleting
      BY <2>2 DEF SmCalls, SmDeleting
    <2>4. Takes(k) = Takes(found)
      BY <1>9, <2>2, <2>3, TakesShape
    <2>5. CallPlaced(k) /\ ~Settles(k)
      BY <1>6, <2>2 DEF CallPlaced, Settles
    <2>6. ~k.stale => StandsIn(smRows, k)
      BY <1>6, <1>10, <2>2 DEF StandsIn
    <2> QED
      BY <1>7, <2>1, <2>3, <2>4, <2>5, <2>6, QuietStep
  <1>11. ASSUME NEW i \in Ids, smCall' = [smCall EXCEPT ![w] = queued(i)] PROVE SmInv'
    <2> DEFINE k == queued(i)
    <2>1. smCall' = [smCall EXCEPT ![w] = k]
      BY <1>11
    <2>2. k \in SmLooking /\ k.at = "queue" /\ k.input = in /\ k.resolves = found.resolves
      BY <1>2 DEF SmLooking
    <2> HIDE DEF k
    <2>3. k \in SmCalls /\ k \notin SmDeleting
      BY <2>2 DEF SmCalls, SmDeleting
    <2>4. Takes(k) = Takes(found)
      BY <1>9, <2>2, <2>3, TakesShape
    <2>5. CallPlaced(k) /\ ~Settles(k) /\ StandsIn(smRows, k)
      BY <1>5, <2>2 DEF CallPlaced, Settles, StandsIn
    <2> QED
      BY <1>7, <2>1, <2>3, <2>4, <2>5, QuietStep
  <1>12. CASE OtherHolder(found) = {}
    <2>1. smCall' = [smCall EXCEPT ![w] = goesOn(found.id)]
      BY <1>12 DEF SelectHolder, Embedding
    <2>2. HoldersIn(smRows, p.org, found.key) \subseteq {found.id}
      BY <1>5, <1>8, <1>12
    <2> HIDE DEF p, goesOn
    <2> QED
      BY <1>3, <1>5, <1>10, <2>1, <2>2
  <1>13. CASE OtherHolder(found) # {}
    <2> DEFINE i == CHOOSE i \in OtherHolder(found) : TRUE
    <2>1. i \in OtherHolder(found)
      BY <1>13
    <2>2. i \in HoldersIn(smRows, p.org, found.key)
      BY <1>8, <2>1
    <2> DEFINE with(j) ==
                 IF smRows[j].place.scope # in.scope \/ Strategy[in.context] = "first-write-wins" THEN None
                 ELSE IF Strategy[in.context] = "manual-review" THEN queued(j) ELSE goesOn(j)
    <2>3. smCall' = [smCall EXCEPT ![w] = with(i)]
      BY <1>13, Zenon DEF SelectHolder, Embedding
    <2> HIDE DEF p, goesOn, queued, i
    <2>4. \/ with(i) = None
          \/ with(i) = queued(i)
          \/ with(i) = goesOn(i) /\ smRows[i].place.scope = in.scope
      OBVIOUS
    <2> HIDE DEF with
    <2>5. \/ smCall' = [smCall EXCEPT ![w] = None]
          \/ smCall' = [smCall EXCEPT ![w] = queued(i)]
          \/ smCall' = [smCall EXCEPT ![w] = goesOn(i)] /\ smRows[i].place.scope = in.scope
      BY <2>3, <2>4
    <2>6. i \in Ids /\ smRows[i] # None /\ smRows[i].place.org = p.org /\ smRows[i].key = found.key
      BY <2>2 DEF HoldersIn
    <2>7. HoldersIn(smRows, p.org, found.key) \subseteq {i}
      <3>1. ASSUME NEW j \in HoldersIn(smRows, p.org, found.key) PROVE j = i
        <4>1. j \in Ids /\ smRows[j] # None /\ smRows[j].place.org = p.org /\ smRows[j].key = found.key
          BY <3>1 DEF HoldersIn
        <4> QED
          BY <1>4, <2>6, <4>1 DEF SmInv, OneRowOfAKey
      <3> QED
        BY <3>1
    <2>8. CASE smCall' = [smCall EXCEPT ![w] = None]
      BY <1>7, <2>8, QuietStep
    <2>9. CASE smCall' = [smCall EXCEPT ![w] = queued(i)]
      BY <1>11, <2>6, <2>9
    <2>10. CASE smCall' = [smCall EXCEPT ![w] = goesOn(i)] /\ smRows[i].place.scope = in.scope
      <3>1. KeepsScope(smRows, i, in.scope)
        BY <2>10 DEF KeepsScope
      <3> QED
        BY <1>10, <2>6, <2>7, <2>10, <3>1
    <2> QED
      BY <2>5, <2>8, <2>9, <2>10
  <1> QED
    BY <1>12, <1>13

\* The other calls after a step of one that changes rows.
LEMMA RowStep ==
    ASSUME SmInv, NEW changed \in SUBSET Ids, NEW keys,
           SmTypeOK', RowsPlaced(smRows'), OneRowOfAKey(smRows'),
           \A i \in Ids \ changed : smRows'[i] = smRows[i],
           \A i \in changed : smRows'[i] # None => smRows'[i].key \in keys,
           \A v \in Calls : \/ smCall'[v] = Disturbed(changed, keys)[v]
                            \/ smCall'[v] = None
                            \/ /\ smCall'[v].at = "resolve" /\ smCall'[v].resolves \in smStored'
                               /\ Takes(smCall'[v]) = Takes(smCall[v]),
           UNCHANGED <<smConflicts, smAccepted, smTwice, smOverlapped>>, smStored \subseteq smStored'
    PROVE  SmInv'
  <1>1. ASSUME NEW v \in Calls, smCall'[v] # None
        PROVE  /\ Takes(smCall'[v]) = Takes(smCall[v])
               /\ CallPlaced(smCall'[v])
               /\ ~smCall'[v].stale => StandsIn(smRows', smCall'[v])
               /\ Settles(smCall'[v]) => smCall'[v].resolves \in smStored'
    <2>1. CASE smCall'[v] = Disturbed(changed, keys)[v]
      <3> DEFINE d == smCall'[v]
      <3>1. d = Disturbed(changed, keys)[v]
        BY <2>1
      <3>2. SmTypeOK /\ CallsInv
        BY DEF SmInv
      <3> HIDE DEF d
      <3>3. /\ Takes(d) = Takes(smCall[v])
            /\ d # None => /\ CallPlaced(d)
                           /\ ~d.stale => StandsIn(smRows', d)
                           /\ Settles(d) => d.resolves \in smStored
        BY <3>1, <3>2, OtherCall
      <3> QED
        BY <1>1, <3>3 DEF d
    <2>2. CASE smCall'[v].at = "resolve" /\ smCall'[v].resolves \in smStored'
               /\ Takes(smCall'[v]) = Takes(smCall[v])
      BY <2>2 DEF CallPlaced, StandsIn
    <2> QED
      BY <1>1, <2>1, <2>2
  <1>2. CallsInv'
    BY <1>1 DEF CallsInv
  <1>3. ResolvesInv'
    <2>1. ASSUME NEW v \in Calls, Takes(smCall'[v]) # None
          PROVE  /\ Takes(smCall'[v]) = Takes(smCall[v])
                 /\ ConflictKept(smConflicts'[Takes(smCall[v])], Takes(smCall[v]), smOverlapped')
      <3>1. smCall'[v] # None
        BY <2>1, TakesShape
      <3>2. Takes(smCall'[v]) = Takes(smCall[v])
        BY <1>1, <3>1
      <3> QED
        BY <2>1, <3>2 DEF SmInv, ResolvesInv
    <2> QED
      BY <2>1, TakersKept
  <1>4. ConflictsAreSettled'
    BY DEF SmInv, ConflictsAreSettled
  <1> QED
    BY <1>2, <1>3, <1>4 DEF SmInv

LEMMA DisturbedTyped ==
    ASSUME SmTypeOK, CallsInv, NEW changed \in SUBSET Ids, NEW keys
    PROVE  /\ Disturbed(changed, keys) \in [Calls -> SmCalls \cup {None}]
           /\ \A v \in Calls : Takes(Disturbed(changed, keys)[v]) = Takes(smCall[v])
  <1> DEFINE D == Disturbed(changed, keys)
  <1>1. ASSUME NEW v \in Calls PROVE D[v] \in SmCalls \cup {None} /\ Takes(D[v]) = Takes(smCall[v])
    <2>1. /\ smCall[v] = None => D[v] = None
          /\ smCall[v] # None =>
                \E b \in BOOLEAN :
                  /\ D[v] = [smCall[v] EXCEPT !.stale = b]
                  /\ smCall[v].stale => b
                  /\ smCall[v].at \in {"holder", "embedding"} =>
                       (smCall[v].id \in changed \/ smCall[v].key \in keys \ {None} => b)
      BY DisturbedCall, Zenon
    <2> HIDE DEF D
    <2>2. CASE smCall[v] = None
      BY <2>2, <2>1, TakesShape
    <2>3. CASE smCall[v] # None
      <3>1. PICK b \in BOOLEAN : D[v] = [smCall[v] EXCEPT !.stale = b]
        BY <2>3, <2>1, Zenon
      <3>2. smCall[v] \in SmCalls
        BY <2>3 DEF SmTypeOK
      <3> QED
        BY <3>1, <3>2, Staled
    <2> QED
      BY <2>2, <2>3
  <1>2. D = [v \in Calls |-> D[v]]
    BY DEF Disturbed
  <1> HIDE DEF D
  <1> QED
    BY <1>1, <1>2 DEF D

LEMMA InsertOrReplaceKeeps == ASSUME SmInv, NEW w \in Calls, InsertOrReplace(w) PROVE SmInv'
  <1> DEFINE found == smCall[w]
             dropped == IF found.key = None THEN {} ELSE HoldersOf(found.place.org, found.key) \ {found.id}
             changed == dropped \cup {found.id}
             keys == {found.key} \cup {smRows[i].key : i \in {j \in changed : smRows[j] # None}}
             row == [key |-> found.key, place |-> found.place]
             next == IF found.resolves = None THEN None ELSE Resolving(found.id, found.resolves, TRUE)
             D == Disturbed(changed, keys)
  <1>1. /\ smRows' = [i \in Ids |-> IF i = found.id THEN row ELSE IF i \in dropped THEN None ELSE smRows[i]]
        /\ smExpired' = smExpired \ changed
        /\ smCall' = [D EXCEPT ![w] = next]
        /\ smStored' = IF found.resolves = None THEN smStored ELSE smStored \cup {found.resolves}
        /\ UNCHANGED <<smConflicts, smAccepted, smTwice, smOverlapped>>
    BY DEF InsertOrReplace
  <1>2. found \in SmCalls /\ found.at = "embedding" /\ found # None
    BY DEF InsertOrReplace, Under, SmInv, SmTypeOK
  <1>3. /\ found \in SmFound /\ found.id \in Ids /\ found.key \in Keys \cup {None} /\ found.place \in Place
        /\ found.resolves \in Conflicts \cup {None}
    BY <1>2, CallShape DEF SmFound
  <1>4. Exists(found.place)
    BY <1>2 DEF SmInv, CallsInv, CallPlaced
  <1>5. Takes(found) = found.resolves
    <2>1. found \notin SmDeleting
      BY <1>2 DEF SmDeleting
    <2> QED
      BY <1>2, <2>1, TakesShape
  <1>6. row \in Record /\ row # None /\ row.key = found.key /\ row.place = found.place
    BY <1>3, NoneAssumption DEF Record
  <1>7. dropped \in SUBSET Ids /\ changed \in SUBSET Ids /\ found.key \in keys
    BY <1>3 DEF HoldersOf
  <1>8. /\ smRows \in [Ids -> Record \cup {None}] /\ SmTypeOK /\ CallsInv
        /\ smConflicts \in [Conflicts -> SmConflict \cup {None}]
    BY DEF SmInv, SmTypeOK
  <1>9. next \in SmCalls \cup {None}
        /\ (next # None => next.at = "resolve" /\ next.resolves = found.resolves /\ Takes(next) = found.resolves)
    <2>1. CASE found.resolves = None
      BY <2>1
    <2>2. CASE found.resolves # None
      <3>1. next = [at |-> "resolve", id |-> found.id, resolves |-> found.resolves, accepts |-> TRUE, stale |-> FALSE]
        BY <2>2 DEF Resolving
      <3> HIDE DEF next
      <3>4. found.resolves \in Conflicts
        BY <1>3, <2>2
      <3>2. next \in SmResolving /\ next.at = "resolve" /\ next.resolves = found.resolves
        BY <1>3, <3>1, <3>4 DEF SmResolving
      <3>3. next \in SmCalls /\ next \notin SmDeleting
        BY <3>2 DEF SmCalls, SmDeleting
      <3> QED
        BY <3>2, <3>3, TakesShape
    <2> QED
      BY <2>1, <2>2
  <1>10. \A i \in Ids : smRows'[i] = IF i = found.id THEN row ELSE IF i \in dropped THEN None ELSE smRows[i]
    BY <1>1
  <1>11. smRows' \in [Ids -> Record \cup {None}]
    BY <1>1, <1>6, <1>8
  <1>12. RowsPlaced(smRows')
    BY <1>4, <1>6, <1>10 DEF RowsPlaced, SmInv
  <1>13. dropped = IF found.key = None THEN {} ELSE HoldersIn(smRows, found.place.org, found.key) \ {found.id}
    BY DEF HoldersOf, HoldersIn
  <1>14. OneRowOfAKey(smRows')
    <2> SUFFICES ASSUME NEW i \in Ids, NEW j \in Ids, smRows'[i] # None, smRows'[j] # None,
                        smRows'[i].key # None, smRows'[i].key = smRows'[j].key,
                        smRows'[i].place.org = smRows'[j].place.org
                 PROVE  i = j
      BY DEF OneRowOfAKey
    <2>1. ASSUME NEW a \in Ids, a # found.id, smRows'[a] # None,
                 smRows'[a].key = found.key, smRows'[a].place.org = found.place.org, found.key # None
          PROVE  FALSE
      <3>1. a \notin dropped /\ smRows'[a] = smRows[a]
        BY <1>10, <2>1
      <3>2. a \in HoldersIn(smRows, found.place.org, found.key)
        BY <2>1, <3>1 DEF HoldersIn
      <3> HIDE DEF dropped
      <3> QED
        BY <1>13, <2>1, <3>1, <3>2
    <2>2. smRows'[found.id] = row
      BY <1>3, <1>10
    <2>3. CASE i = found.id
      BY <1>6, <2>1, <2>2, <2>3
    <2>4. CASE j = found.id
      BY <1>6, <2>1, <2>2, <2>4
    <2>5. CASE i # found.id /\ j # found.id
      <3>1. smRows'[i] = smRows[i] /\ smRows'[j] = smRows[j]
        BY <1>10, <2>5
      <3> QED
        BY <3>1 DEF SmInv, OneRowOfAKey
    <2> QED
      BY <2>3, <2>4, <2>5
  <1> HIDE DEF dropped, row, next
  <1>15. \A i \in Ids \ changed : smRows'[i] = smRows[i]
    BY <1>10
  <1>16. \A i \in changed : smRows'[i] # None => smRows'[i].key \in keys
    BY <1>6, <1>7, <1>10
  <1> HIDE DEF changed, keys
  <1>17. D \in [Calls -> SmCalls \cup {None}] /\ \A v \in Calls : Takes(D[v]) = Takes(smCall[v])
    BY <1>7, <1>8, DisturbedTyped
  <1>18. smCall' \in [Calls -> SmCalls \cup {None}] /\ \A v \in Calls : smCall'[v] = IF v = w THEN next ELSE D[v]
    BY <1>1, <1>9, <1>17
  <1>19. smStored \subseteq smStored' /\ (found.resolves # None => found.resolves \in smStored')
         /\ smStored' \in SUBSET Conflicts
    BY <1>1, <1>3, <1>8 DEF SmTypeOK
  <1>20. SmTypeOK'
    BY <1>1, <1>8, <1>11, <1>18, <1>19 DEF SmTypeOK
  <1>21. \A v \in Calls : \/ smCall'[v] = D[v]
                          \/ smCall'[v] = None
                          \/ /\ smCall'[v].at = "resolve" /\ smCall'[v].resolves \in smStored'
                             /\ Takes(smCall'[v]) = Takes(smCall[v])
    <2>1. next = None \/ (/\ next.at = "resolve" /\ next.resolves \in smStored' /\ Takes(next) = Takes(smCall[w]))
      <3>1. ASSUME next # None PROVE Takes(next) = found.resolves /\ found.resolves # None
        BY <3>1, <1>9 DEF next
      <3> QED
        BY <1>5, <1>9, <1>19, <3>1
    <2> QED
      BY <1>18, <2>1
  <1> QED
    BY <1>1, <1>7, <1>12, <1>14, <1>15, <1>16, <1>19, <1>20, <1>21, RowStep

LEMMA DeleteRowKeeps == ASSUME SmInv, NEW w \in Calls, DeleteRow(w) PROVE SmInv'
  <1> DEFINE i == smCall[w].id
             keys == IF smRows[i] = None THEN {} ELSE {smRows[i].key}
             D == Disturbed({i}, keys)
  <1>1. /\ smRows' = [smRows EXCEPT ![i] = None] /\ smExpired' = smExpired \ {i}
        /\ smCall' = [D EXCEPT ![w] = None]
        /\ UNCHANGED <<smConflicts, smAccepted, smStored, smTwice, smOverlapped>>
    BY DEF DeleteRow, conflictVars
  <1>2. smCall[w] \in SmCalls /\ i \in Ids
    <2>1. smCall[w] \in SmCalls
      BY DEF DeleteRow, Under, SmInv, SmTypeOK
    <2> QED
      BY <2>1, CallShape
  <1>3. SmTypeOK /\ CallsInv /\ smRows \in [Ids -> Record \cup {None}]
    BY DEF SmInv, SmTypeOK
  <1> HIDE DEF keys, i
  <1>4. D \in [Calls -> SmCalls \cup {None}]
    BY <1>2, <1>3, DisturbedTyped
  <1> HIDE DEF D
  <1>5. smCall' \in [Calls -> SmCalls \cup {None}] /\ \A v \in Calls : smCall'[v] \in {D[v], None}
    BY <1>1, <1>4
  <1>6. smRows' \in [Ids -> Record \cup {None}] /\ \A j \in Ids : smRows'[j] = IF j = i THEN None ELSE smRows[j]
    BY <1>1, <1>3
  <1>7. SmTypeOK'
    BY <1>1, <1>3, <1>5, <1>6 DEF SmTypeOK
  <1>8. RowsPlaced(smRows') /\ OneRowOfAKey(smRows')
    BY <1>6 DEF SmInv, RowsPlaced, OneRowOfAKey
  <1>9. {i} \in SUBSET Ids /\ (\A j \in Ids \ {i} : smRows'[j] = smRows[j])
        /\ \A j \in {i} : smRows'[j] # None => smRows'[j].key \in keys
    BY <1>2, <1>6
  <1>10. \A v \in Calls : smCall'[v] = Disturbed({i}, keys)[v] \/ smCall'[v] = None
    BY <1>5 DEF D
  <1> QED
    BY <1>1, <1>7, <1>8, <1>9, <1>10, RowStep

LEMMA DeleteExpiredKeeps == ASSUME SmInv, DeleteExpired PROVE SmInv'
  <1> DEFINE keys == {smRows[i].key : i \in smExpired}
             D == Disturbed(smExpired, keys)
  <1>1. /\ smRows' = [i \in Ids |-> IF i \in smExpired THEN None ELSE smRows[i]] /\ smExpired' = {}
        /\ smCall' = D
        /\ UNCHANGED <<smConflicts, smAccepted, smStored, smTwice, smOverlapped>>
    BY DEF DeleteExpired, conflictVars
  <1>2. SmTypeOK /\ CallsInv /\ smRows \in [Ids -> Record \cup {None}] /\ smExpired \in SUBSET Ids
    BY DEF SmInv, SmTypeOK
  <1> HIDE DEF keys
  <1>3. D \in [Calls -> SmCalls \cup {None}]
    BY <1>2, DisturbedTyped
  <1>4. smRows' \in [Ids -> Record \cup {None}]
        /\ \A j \in Ids : smRows'[j] = IF j \in smExpired THEN None ELSE smRows[j]
    BY <1>1, <1>2
  <1>5. SmTypeOK'
    BY <1>1, <1>2, <1>3, <1>4 DEF SmTypeOK
  <1>6. RowsPlaced(smRows') /\ OneRowOfAKey(smRows')
    BY <1>4 DEF SmInv, RowsPlaced, OneRowOfAKey
  <1>7. (\A j \in Ids \ smExpired : smRows'[j] = smRows[j])
        /\ \A j \in smExpired : smRows'[j] # None => smRows'[j].key \in keys
    BY <1>2, <1>4
  <1>8. \A v \in Calls : smCall'[v] = Disturbed(smExpired, keys)[v]
    BY <1>1
  <1> QED
    BY <1>1, <1>2, <1>5, <1>6, <1>7, <1>8, RowStep

LEMMA SqlExpireKeeps == ASSUME SmInv, NEW i \in Ids, SqlExpire(i) PROVE SmInv'
  BY DEF SqlExpire, conflictVars, SmInv, SmTypeOK, RowsPlaced, OneRowOfAKey, CallsInv, ResolvesInv,
         ConflictsAreSettled

\* A step of one call that changes conflicts and no row.
LEMMA ReviewStep ==
    ASSUME SmInv, NEW w \in Calls, NEW k \in SmCalls \cup {None}, smCall' = [smCall EXCEPT ![w] = k],
           UNCHANGED <<smRows, smExpired, smStored>>,
           smConflicts' \in [Conflicts -> SmConflict \cup {None}],
           {smAccepted', smTwice', smOverlapped'} \subseteq SUBSET Conflicts,
           k # None => CallPlaced(k) /\ StandsIn(smRows, k) /\ ~Settles(k),
           ResolvesInv', ConflictsAreSettled'
    PROVE  SmInv'
  <1>1. smCall \in [Calls -> SmCalls \cup {None}] /\ SmTypeOK
    BY DEF SmInv, SmTypeOK
  <1>2. /\ smCall' \in [Calls -> SmCalls \cup {None}]
        /\ \A v \in Calls : smCall'[v] = IF v = w THEN k ELSE smCall[v]
    BY <1>1
  <1>3. SmTypeOK'
    BY <1>1, <1>2 DEF SmTypeOK
  <1>4. RowsPlaced(smRows)' /\ OneRowOfAKey(smRows)'
    BY DEF SmInv, RowsPlaced, OneRowOfAKey
  <1>5. CallsInv'
    <2> SUFFICES ASSUME NEW v \in Calls, smCall'[v] # None
                 PROVE  /\ CallPlaced(smCall'[v])
                        /\ ~smCall'[v].stale => StandsIn(smRows', smCall'[v])
                        /\ Settles(smCall'[v]) => smCall'[v].resolves \in smStored'
      BY DEF CallsInv
    <2>1. CASE v = w
      BY <1>2, <2>1
    <2>2. CASE v # w
      <3>1. smCall'[v] = smCall[v]
        BY <1>2, <2>2
      <3>2. /\ CallPlaced(smCall[v])
            /\ ~smCall[v].stale => StandsIn(smRows, smCall[v])
            /\ Settles(smCall[v]) => smCall[v].resolves \in smStored
        BY <3>1 DEF SmInv, CallsInv
      <3> QED
        BY <3>1, <3>2
    <2> QED
      BY <2>1, <2>2
  <1> QED
    BY <1>3, <1>4, <1>5 DEF SmInv

LEMMA QueueConflictKeeps == ASSUME SmInv, NEW w \in Calls, QueueConflict(w) PROVE SmInv'
  <1> DEFINE in == smCall[w].input
  <1>1. PICK c \in Conflicts :
          /\ smConflicts[c] = None
          /\ smConflicts' = [smConflicts EXCEPT ![c] =
               [status |-> "pending", existing |-> smCall[w].id, payload |-> in,
                place |-> ScopeContext(in.scope, in.context)]]
    BY DEF QueueConflict
  <1>2. /\ smCall' = [smCall EXCEPT ![w] = None]
        /\ UNCHANGED <<smRows, smExpired, smAccepted, smStored, smTwice, smOverlapped>>
    BY DEF QueueConflict, Ends
  <1>3. smCall[w] \in SmLooking
    <2>1. smCall[w] \in SmCalls /\ smCall[w].at = "queue"
      BY DEF QueueConflict, Under, SmInv, SmTypeOK
    <2> QED
      BY <2>1, CallShape
  <1>4. smCall[w].id \in Ids /\ in \in Input
    BY <1>3 DEF SmLooking
  <1>5. ScopeContext(in.scope, in.context) \in Place
    BY <1>4, ContextFacts
  <1> DEFINE conflict == [status |-> "pending", existing |-> smCall[w].id, payload |-> in,
                          place |-> ScopeContext(in.scope, in.context)]
  <1>6. conflict \in SmConflict /\ conflict # None
    BY <1>4, <1>5, SmNoneAssumption DEF SmConflict
  <1>7. smConflicts' = [smConflicts EXCEPT ![c] = conflict]
    BY <1>1
  <1> HIDE DEF conflict, in
  <1>8. SmTypeOK
    BY DEF SmInv
  <1>9. smConflicts' \in [Conflicts -> SmConflict \cup {None}]
        /\ \A d \in Conflicts : smConflicts'[d] = IF d = c THEN conflict ELSE smConflicts[d]
    BY <1>6, <1>7, <1>8 DEF SmTypeOK
  <1>10. \A v \in Calls : smCall'[v] = IF v = w THEN None ELSE smCall[v]
    BY <1>2, <1>8 DEF SmTypeOK
  <1>11. ResolvesInv'
    <2>1. ASSUME NEW v \in Calls, Takes(smCall'[v]) # None
          PROVE  /\ Takes(smCall'[v]) = Takes(smCall[v])
                 /\ ConflictKept(smConflicts'[Takes(smCall[v])], Takes(smCall[v]), smOverlapped')
      <3>1. smCall'[v] = smCall[v]
        BY <1>10, <2>1, TakesShape
      <3> DEFINE d == Takes(smCall[v])
      <3>2. ConflictKept(smConflicts[d], d, smOverlapped)
        BY <2>1, <3>1 DEF SmInv, ResolvesInv
      <3>3. d \in Conflicts
        <4>1. smCall[v] \in SmCalls
          BY <1>8, <2>1, <3>1, TakesShape DEF SmTypeOK
        <4> QED
          BY <2>1, <3>1, <4>1, TakesShape
      <3>4. d # c
        BY <1>1, <3>2 DEF ConflictKept
      <3> QED
        BY <1>2, <1>9, <3>1, <3>2, <3>3, <3>4
    <2> QED
      BY <1>2, <2>1, TakersKept
  <1>12. ConflictsAreSettled'
    BY <1>2 DEF SmInv, ConflictsAreSettled
  <1> QED
    BY <1>2, <1>8, <1>9, <1>11, <1>12, ReviewStep DEF SmTypeOK

LEMMA ResolvesIsTakes ==
    ASSUME SmTypeOK, NEW v \in Calls, NEW c \in Conflicts
    PROVE  Resolves(v, c) <=> Takes(smCall[v]) = c
  BY MemoryAssumption DEF Resolves, Takes

LEMMA ListPendingKeeps ==
    ASSUME SmInv, NEW w \in Calls, NEW c \in Conflicts, NEW ctx \in Contexts, ListPending(w, c, ctx)
    PROVE  SmInv'
  <1> DEFINE conflict == smConflicts[c]
             in == [conflict.payload EXCEPT !.id = conflict.existing, !.context = ctx]
             over == IF \E v \in Calls : Resolves(v, c) THEN smOverlapped \cup {c} ELSE smOverlapped
  <1>1. /\ smCall[w] = None /\ conflict # None /\ conflict.status = "pending"
        /\ UNCHANGED <<smRows, smExpired, smConflicts, smAccepted, smStored, smTwice>>
        /\ smOverlapped' = over
    BY DEF ListPending
  <1>2. SmTypeOK /\ conflict \in SmConflict
    BY <1>1 DEF SmInv, SmTypeOK
  <1>3. conflict.existing \in Ids /\ conflict.payload \in Input
    BY <1>2 DEF SmConflict
  <1>4. in \in Input
    BY <1>3 DEF Input
  <1>5. PICK k \in SmCalls :
          /\ smCall' = [smCall EXCEPT ![w] = k] /\ k.at \in {"payload", "resolve"}
          /\ ~Settles(k) /\ Takes(k) = c
    <2>1. ASSUME smCall' = [smCall EXCEPT ![w] = Resolving(conflict.existing, c, FALSE)]
          PROVE  \E k \in SmCalls : /\ smCall' = [smCall EXCEPT ![w] = k] /\ k.at \in {"payload", "resolve"}
                                    /\ ~Settles(k) /\ Takes(k) = c
      <3> DEFINE k == Resolving(conflict.existing, c, FALSE)
      <3>1. k \in SmResolving /\ k.at = "resolve" /\ ~k.accepts /\ k.resolves = c
        BY <1>3 DEF SmResolving, Resolving
      <3>2. smCall' = [smCall EXCEPT ![w] = k]
        BY <2>1
      <3> HIDE DEF k
      <3>3. k \in SmCalls /\ k \notin SmDeleting
        BY <3>1 DEF SmCalls, SmDeleting
      <3>4. Takes(k) = c /\ ~Settles(k)
        BY <3>1, <3>3, TakesShape DEF Settles
      <3> QED
        BY <3>1, <3>2, <3>3, <3>4
    <2>2. ASSUME smCall' = [smCall EXCEPT ![w] = [at |-> "payload", id |-> conflict.existing, resolves |-> c,
                                                  stale |-> FALSE, input |-> in]]
          PROVE  \E k \in SmCalls : /\ smCall' = [smCall EXCEPT ![w] = k] /\ k.at \in {"payload", "resolve"}
                                    /\ ~Settles(k) /\ Takes(k) = c
      <3> DEFINE k == [at |-> "payload", id |-> conflict.existing, resolves |-> c, stale |-> FALSE, input |-> in]
      <3>2. smCall' = [smCall EXCEPT ![w] = k]
        BY <2>2
      <3> HIDE DEF in, conflict
      <3>1. k \in SmReviewing /\ k.at = "payload" /\ k.resolves = c
        BY <1>3, <1>4 DEF SmReviewing
      <3> HIDE DEF k
      <3>3. k \in SmCalls /\ k \notin SmDeleting
        BY <3>1 DEF SmCalls, SmDeleting
      <3>4. Takes(k) = c /\ ~Settles(k)
        BY <3>1, <3>3, TakesShape DEF Settles
      <3> QED
        BY <3>1, <3>2, <3>3, <3>4
    <2>3. \/ smCall' = [smCall EXCEPT ![w] = Resolving(conflict.existing, c, FALSE)]
          \/ smCall' = [smCall EXCEPT ![w] = [at |-> "payload", id |-> conflict.existing, resolves |-> c,
                                              stale |-> FALSE, input |-> in]]
      BY DEF ListPending
    <2> QED
      BY <2>1, <2>2, <2>3
  <1>6. \A v \in Calls : smCall'[v] = IF v = w THEN k ELSE smCall[v]
    BY <1>2, <1>5 DEF SmTypeOK
  <1>7. smOverlapped \subseteq over /\ over \in SUBSET Conflicts
        /\ \A v \in Calls : Takes(smCall[v]) = c => c \in over
    BY <1>2, ResolvesIsTakes DEF SmTypeOK
  <1> HIDE DEF over
  <1>8. ResolvesInv'
    <2> SUFFICES ASSUME NEW u \in Calls, Takes(smCall'[u]) # None
                 PROVE  /\ ConflictKept(smConflicts'[Takes(smCall'[u])], Takes(smCall'[u]), smOverlapped')
                        /\ \A v \in Calls : Takes(smCall'[v]) = Takes(smCall'[u])
                                              => v = u \/ Takes(smCall'[u]) \in smOverlapped'
      BY DEF ResolvesInv
    <2>1. CASE u = w
      <3>1. Takes(smCall'[u]) = c
        BY <1>5, <1>6, <2>1
      <3>2. ConflictKept(smConflicts'[c], c, smOverlapped')
        BY <1>1 DEF ConflictKept
      <3>3. \A v \in Calls : Takes(smCall'[v]) = c => v = w \/ c \in over
        BY <1>6, <1>7
      <3> QED
        BY <1>1, <2>1, <3>1, <3>2, <3>3
    <2>2. CASE u # w
      <3>1. smCall'[u] = smCall[u] /\ Takes(smCall[u]) # None
        BY <1>6, <2>2
      <3>2. /\ ConflictKept(smConflicts[Takes(smCall[u])], Takes(smCall[u]), smOverlapped)
            /\ \A v \in Calls : Takes(smCall[v]) = Takes(smCall[u]) => v = u \/ Takes(smCall[u]) \in smOverlapped
        BY <3>1 DEF SmInv, ResolvesInv
      <3>3. ConflictKept(smConflicts'[Takes(smCall[u])], Takes(smCall[u]), smOverlapped')
        BY <1>1, <1>7, <3>2 DEF ConflictKept
      <3>4. ASSUME NEW v \in Calls, Takes(smCall'[v]) = Takes(smCall[u]), v # u
            PROVE  Takes(smCall[u]) \in smOverlapped'
        <4>1. CASE v = w
          BY <1>1, <1>5, <1>6, <1>7, <3>4, <4>1
        <4>2. CASE v # w
          BY <1>1, <1>6, <1>7, <3>2, <3>4, <4>2
        <4> QED
          BY <4>1, <4>2
      <3> QED
        BY <3>1, <3>3, <3>4
    <2> QED
      BY <2>1, <2>2
  <1>9. ConflictsAreSettled'
    BY <1>1, <1>7 DEF SmInv, ConflictsAreSettled
  <1>10. CallPlaced(k) /\ StandsIn(smRows, k)
    BY <1>5 DEF CallPlaced, StandsIn
  <1>11. /\ smConflicts' \in [Conflicts -> SmConflict \cup {None}]
         /\ {smAccepted', smTwice', smOverlapped'} \subseteq SUBSET Conflicts
    BY <1>1, <1>2, <1>7 DEF SmTypeOK
  <1> QED
    BY <1>1, <1>5, <1>8, <1>9, <1>10, <1>11, ReviewStep

LEMMA MarkResolvedKeeps == ASSUME SmInv, NEW w \in Calls, MarkResolved(w) PROVE SmInv'
  <1> DEFINE c == smCall[w].resolves
  <1>1. /\ smCall' = [smCall EXCEPT ![w] = None]
        /\ smConflicts' = [smConflicts EXCEPT ![c].status = "resolved"]
        /\ smAccepted' = IF smCall[w].accepts THEN smAccepted \cup {c} ELSE smAccepted
        /\ smTwice' = IF smConflicts[c].status = "resolved" THEN smTwice \cup {c} ELSE smTwice
        /\ UNCHANGED <<smRows, smExpired, smStored, smOverlapped>>
    BY DEF MarkResolved, Ends
  <1>2. SmTypeOK /\ smCall[w] \in SmCalls /\ smCall[w].at = "resolve" /\ smCall[w] # None
    BY DEF MarkResolved, Under, SmInv, SmTypeOK
  <1>3. smCall[w] \in SmResolving /\ c \in Conflicts /\ smCall[w].accepts \in BOOLEAN
    <2>1. smCall[w] \in SmResolving
      BY <1>2, CallShape
    <2> QED
      BY <2>1 DEF SmResolving
  <1>4. Takes(smCall[w]) = c /\ c # None
    <2>1. smCall[w] \notin SmDeleting
      BY <1>2 DEF SmDeleting
    <2> QED
      BY <1>2, <1>3, <2>1, TakesShape, MemoryAssumption
  <1>5. /\ smConflicts[c] # None /\ (smConflicts[c].status = "resolved" => c \in smOverlapped)
        /\ \A v \in Calls : Takes(smCall[v]) = c => v = w \/ c \in smOverlapped
    BY <1>4 DEF SmInv, ResolvesInv, ConflictKept
  <1>6. smCall[w].accepts => c \in smStored
    BY <1>2 DEF SmInv, CallsInv, Settles
  <1> DEFINE after == [smConflicts[c] EXCEPT !.status = "resolved"]
  <1>7. smConflicts[c] \in SmConflict
    BY <1>2, <1>3, <1>5 DEF SmTypeOK
  <1>8. after \in SmConflict /\ after.status = "resolved" /\ after # None
    <2>1. after \in SmConflict /\ after.status = "resolved"
      BY <1>7 DEF SmConflict
    <2> QED
      BY <2>1, SmNoneAssumption
  <1>9. smConflicts' = [smConflicts EXCEPT ![c] = after]
    BY <1>1
  <1> HIDE DEF after, c
  <1>10. smConflicts' \in [Conflicts -> SmConflict \cup {None}]
         /\ \A d \in Conflicts : smConflicts'[d] = IF d = c THEN after ELSE smConflicts[d]
    BY <1>2, <1>8, <1>9 DEF SmTypeOK
  <1>11. \A v \in Calls : smCall'[v] = IF v = w THEN None ELSE smCall[v]
    BY <1>1, <1>2 DEF SmTypeOK
  <1>12. ResolvesInv'
    <2>1. ASSUME NEW v \in Calls, Takes(smCall'[v]) # None
          PROVE  /\ Takes(smCall'[v]) = Takes(smCall[v])
                 /\ ConflictKept(smConflicts'[Takes(smCall[v])], Takes(smCall[v]), smOverlapped')
      <3>1. smCall'[v] = smCall[v] /\ v # w
        BY <1>11, <2>1, TakesShape
      <3> DEFINE d == Takes(smCall[v])
      <3>2. ConflictKept(smConflicts[d], d, smOverlapped)
        BY <2>1, <3>1 DEF SmInv, ResolvesInv
      <3>3. d \in Conflicts
        <4>1. smCall[v] \in SmCalls
          BY <1>2, <2>1, <3>1, TakesShape DEF SmTypeOK
        <4> QED
          BY <2>1, <3>1, <4>1, TakesShape
      <3>4. CASE d # c
        BY <1>1, <1>10, <3>1, <3>2, <3>3, <3>4
      <3>5. CASE d = c
        <4>1. c \in smOverlapped
          BY <1>5, <3>1, <3>5
        <4>2. ConflictKept(smConflicts'[c], c, smOverlapped')
          BY <1>1, <1>3, <1>8, <1>10, <4>1 DEF ConflictKept
        <4> QED
          BY <3>1, <3>5, <4>2
      <3> QED
        BY <3>4, <3>5
    <2> QED
      BY <1>1, <2>1, TakersKept
  <1>13. ConflictsAreSettled'
    BY <1>1, <1>3, <1>5, <1>6 DEF SmInv, ConflictsAreSettled
  <1>14. {smAccepted', smTwice', smOverlapped'} \subseteq SUBSET Conflicts
    BY <1>1, <1>2, <1>3 DEF SmTypeOK
  <1> QED
    BY <1>1, <1>10, <1>12, <1>13, <1>14, ReviewStep

LEMMA SmStarts == ASSUME SmInit PROVE SmInv
  <1> USE DEF SmInit
  <1>1. SmTypeOK
    BY DEF SmTypeOK
  <1>2. \A w \in Calls : smCall[w] = None /\ Takes(smCall[w]) = None
    BY TakesShape
  <1> QED
    BY <1>1, <1>2 DEF SmInv, RowsPlaced, OneRowOfAKey, CallsInv, ResolvesInv, ConflictsAreSettled

LEMMA SmKeeps == ASSUME SmInv, [SmNext]_smVars PROVE SmInv'
  <1>1. ASSUME UNCHANGED smVars PROVE SmInv'
    BY <1>1 DEF smVars, SmInv, SmTypeOK, RowsPlaced, OneRowOfAKey, CallsInv, ResolvesInv, ConflictsAreSettled
  <1> QED
    BY <1>1, DeleteExpiredKeeps, SqlExpireKeeps, SqlWriteKeeps, SelectHolderKeeps, QueueConflictKeeps,
       InsertOrReplaceKeeps, SqlFailsKeeps, SelectForReviewKeeps, MarkResolvedKeeps, DeleteRowKeeps,
       SeenForDeletionKeeps, ListPendingKeeps DEF SmNext

\* What is found by a list or by a key.
LEMMA ReadsFollow == ASSUME SmInv PROVE ReadsFindWhatMayBeRead
  <1>1. ASSUME NEW i \in Ids, smRows[i] # None
        PROVE  /\ smRows[i].place.scope \in {"session", "project", "org"}
               /\ smRows[i].place.scope \in {"session", "project"} => smRows[i].place.project # None
               /\ smRows[i].place.scope = "session" => smRows[i].place.session # None
               /\ smRows[i].place.scope # "session" => smRows[i].place.session = None
               /\ smRows[i].place.scope = "org" => smRows[i].place.project = None
    <2> DEFINE p == smRows[i].place
    <2>1. PICK ctx \in Contexts : HasContext(p.scope, ctx) /\ p = ScopeContext(p.scope, ctx)
      BY <1>1 DEF SmInv, RowsPlaced, Exists
    <2>2. smRows[i] \in Record
      BY <1>1 DEF SmInv, SmTypeOK
    <2>3. p.scope \in {"session", "project", "org"}
      BY <2>2, MemoryAssumption DEF Record, Place
    <2>4. /\ p.project = IF p.scope = "org" THEN None ELSE ctx.project
          /\ p.session = IF p.scope = "session" THEN ctx.session ELSE None
      BY <2>1 DEF ScopeContext
    <2> HIDE DEF p
    <2>5. /\ p.scope \in {"session", "project"} => p.project # None
          /\ p.scope = "session" => p.session # None
          /\ p.scope # "session" => p.session = None
          /\ p.scope = "org" => p.project = None
      BY <2>1, <2>4 DEF HasContext
    <2> QED
      BY <2>3, <2>5 DEF p
  <1>2. ASSUME NEW ctx \in Contexts, NEW scope \in Scopes, HasContext(scope, ctx), NEW shared \in BOOLEAN
        PROVE  ListedRows(scope, ctx, shared)
                 = {i \in Ids \ smExpired : smRows[i] # None /\ CanRead(smRows[i].place, scope, ctx, FALSE)}
    <2> SUFFICES ASSUME NEW i \in Ids, smRows[i] # None
                 PROVE  /\ scope \in {"session", "project"} => smRows[i].place.project = ctx.project
                        /\ scope = "session" => smRows[i].place.session = ctx.session
                        /\ CanRead(smRows[i].place, scope, ctx, shared)
                        <=> CanRead(smRows[i].place, scope, ctx, FALSE)
      BY DEF ListedRows
    <2> QED
      BY <1>1, <1>2, MemoryAssumption DEF CanRead, Broader, HasContext
  <1>3. ASSUME NEW ctx \in Contexts, NEW i \in Ids, smRows[i] # None, smRows[i].key # None,
               CanReadById(smRows[i].place, ctx, TRUE)
        PROVE  RowsOfKey(smRows[i].key, ctx) = {i}
    <2>1. smRows[i].place.org = ctx.org
      BY <1>3 DEF CanReadById, CanRead
    <2>2. i \in RowsOfKey(smRows[i].key, ctx)
      BY <1>1, <1>3, <2>1 DEF RowsOfKey, HoldersOf, CanReadById, CanRead
    <2>3. ASSUME NEW j \in RowsOfKey(smRows[i].key, ctx) PROVE j = i
      <3>1. j \in Ids /\ smRows[j] # None /\ smRows[j].place.org = ctx.org /\ smRows[j].key = smRows[i].key
        BY DEF RowsOfKey, HoldersOf
      <3> QED
        BY <1>3, <2>1, <3>1 DEF SmInv, OneRowOfAKey
    <2> QED
      BY <2>2, <2>3
  <1> QED
    BY <1>2, <1>3 DEF ReadsFindWhatMayBeRead

\* Rows, conflicts and calls of the SQL store keep their types.
THEOREM SqlTypeCorrect == SmSpec => []SmTypeOK
  <1>1. SmInv => SmTypeOK
    BY DEF SmInv
  <1> QED
    BY <1>1, SmStarts, SmKeeps, PTL DEF SmSpec

\* Lists and keys find the rows that may be read and no other, and a conflict
\* that was accepted has its incoming write stored and is resolved once, unless
\* two calls resolved it at a time.
THEOREM SqlMemoryKept == SmSpec => []SqlMemorySound
  <1>1. SmInv => SqlMemorySound
    BY ReadsFollow DEF SmInv, SqlMemorySound
  <1> QED
    BY <1>1, SmStarts, SmKeeps, PTL DEF SmSpec

-----------------------------------------------------------------------------
(* What a step may do to a row.                                            *)

RowsReplacedOnlyStale ==
  \A i \in Ids : smRows[i] # None /\ (smRows'[i] = None \/ smRows'[i].place.scope # smRows[i].place.scope) =>
       \/ i \in smExpired
       \/ \E w \in Calls : /\ smCall[w] # None /\ smCall'[w] # smCall[w]
                           /\ smCall[w].stale \/ (smCall[w].at = "delete" /\ smCall[w].id = i)

LEMMA InsertReplacesStale == ASSUME SmInv, NEW w \in Calls, InsertOrReplace(w) PROVE RowsReplacedOnlyStale
  <1> DEFINE found == smCall[w]
             dropped == IF found.key = None THEN {} ELSE HoldersOf(found.place.org, found.key) \ {found.id}
             next == IF found.resolves = None THEN None ELSE Resolving(found.id, found.resolves, TRUE)
  <1>1. found \in SmCalls /\ found.at = "embedding" /\ found # None
    BY DEF InsertOrReplace, Under, SmInv, SmTypeOK
  <1>2. \A i \in Ids : smRows'[i] = IF i = found.id THEN [key |-> found.key, place |-> found.place]
                                    ELSE IF i \in dropped THEN None ELSE smRows[i]
    BY DEF InsertOrReplace
  <1>3. smCall'[w] # smCall[w]
    <2> DEFINE D == Disturbed(dropped \cup {found.id},
                      {found.key} \cup {smRows[i].key : i \in {j \in dropped \cup {found.id} : smRows[j] # None}})
    <2>1. smCall' = [D EXCEPT ![w] = next]
      BY DEF InsertOrReplace
    <2>2. w \in DOMAIN D
      BY DEF Disturbed
    <2> HIDE DEF D
    <2>3. smCall'[w] = next
      BY <2>1, <2>2
    <2>4. next = None \/ next.at = "resolve"
      BY DEF Resolving
    <2> HIDE DEF next
    <2> QED
      BY <1>1, <2>3, <2>4
  <1>4. [key |-> found.key, place |-> found.place] # None
    <2>1. found \in SmFound
      BY <1>1, CallShape
    <2>2. [key |-> found.key, place |-> found.place] \in Record
      BY <2>1 DEF SmFound, Record
    <2> QED
      BY <2>2, NoneAssumption
  <1>5. ~found.stale => /\ smRows[found.id] # None => smRows[found.id].place.scope = found.place.scope
                        /\ dropped = {}
    <2>1. ASSUME ~found.stale PROVE /\ KeepsScope(smRows, found.id, found.place.scope)
                                    /\ found.key # None => HoldersIn(smRows, found.place.org, found.key) \subseteq {found.id}
      BY <1>1, <2>1 DEF SmInv, CallsInv, StandsIn
    <2> QED
      BY <2>1 DEF KeepsScope, HoldersIn, HoldersOf
  <1> HIDE DEF dropped
  <1> SUFFICES ASSUME NEW i \in Ids, smRows[i] # None,
                      smRows'[i] = None \/ smRows'[i].place.scope # smRows[i].place.scope
               PROVE  found.stale
    BY <1>1, <1>3 DEF RowsReplacedOnlyStale
  <1> QED
    BY <1>2, <1>4, <1>5

LEMMA ReplacedOnlyStale == ASSUME SmInv, [SmNext]_smVars PROVE RowsReplacedOnlyStale \/ UNCHANGED smVars
  <1>1. ASSUME UNCHANGED smRows PROVE RowsReplacedOnlyStale
    BY <1>1 DEF RowsReplacedOnlyStale
  <1>2. ASSUME DeleteExpired PROVE RowsReplacedOnlyStale
    BY <1>2 DEF DeleteExpired, RowsReplacedOnlyStale
  <1>3. ASSUME NEW w \in Calls, DeleteRow(w) PROVE RowsReplacedOnlyStale
    <2>1. smCall[w] # None /\ smCall[w].at = "delete"
      BY <1>3 DEF DeleteRow, Under
    <2>2. smCall'[w] = None
      <3> DEFINE D == Disturbed({smCall[w].id}, IF smRows[smCall[w].id] = None THEN {} ELSE {smRows[smCall[w].id].key})
      <3>1. smCall' = [D EXCEPT ![w] = None]
        BY <1>3 DEF DeleteRow
      <3>2. w \in DOMAIN D
        BY DEF Disturbed
      <3> HIDE DEF D
      <3> QED
        BY <3>1, <3>2
    <2>3. \A i \in Ids : i # smCall[w].id => smRows'[i] = smRows[i]
      BY <1>3 DEF DeleteRow, SmInv, SmTypeOK
    <2> QED
      BY <2>1, <2>2, <2>3 DEF RowsReplacedOnlyStale
  <1>4. ASSUME NEW w \in Calls,
               \/ SqlWrite(w) \/ SelectHolder(w) \/ QueueConflict(w) \/ SqlFails(w)
               \/ SelectForReview(w) \/ MarkResolved(w)
        PROVE  UNCHANGED smRows
    BY <1>4 DEF SqlWrite, SelectHolder, QueueConflict, SqlFails, SelectForReview, MarkResolved
  <1>5. ASSUME NEW w \in Calls, NEW i \in Ids, NEW ctx \in Contexts, SeenForDeletion(w, i, ctx)
        PROVE  UNCHANGED smRows
    BY <1>5 DEF SeenForDeletion
  <1>6. ASSUME NEW w \in Calls, NEW c \in Conflicts, NEW ctx \in Contexts, ListPending(w, c, ctx)
        PROVE  UNCHANGED smRows
    BY <1>6 DEF ListPending
  <1>7. ASSUME NEW i \in Ids, SqlExpire(i) PROVE UNCHANGED smRows
    BY <1>7 DEF SqlExpire
  <1> QED
    BY <1>1, <1>2, <1>3, <1>4, <1>5, <1>6, <1>7, InsertReplacesStale DEF SmNext

\* A row goes away or changes its scope only by its deletion, its expiry, or a
\* write that had looked before another call changed its row or its key.
THEOREM OnlyStaleReplace == SmSpec => OnlyStaleWritesReplaceRows
  <1>1. SmInv /\ [SmNext]_smVars => [RowsReplacedOnlyStale]_smVars
    BY ReplacedOnlyStale
  <1>2. SmSpec => [][RowsReplacedOnlyStale]_smVars
    BY <1>1, SmStarts, SmKeeps, PTL DEF SmSpec
  <1> QED
    BY <1>2 DEF OnlyStaleWritesReplaceRows, RowsReplacedOnlyStale

-----------------------------------------------------------------------------
(* MemorySummaries: the invariant.                                         *)

\* What a run has listed and not yet written back.
Unwritten(run) == IF run = NotRunning THEN {} ELSE {run.list[n] : n \in run.next..Len(run.list)}

Past(run) == run.at \in {"lookup", "store"}

Summarised(i) == \E a \in suShown : a[1] = i

\* An id of a summary is one of a summary that was stored.
SummariesStored ==
  /\ \A i \in Summaries : suRows[i] # NoRow => Summarised(i)
  /\ \A a \in suShown : a[2] \in Summaries => Summarised(a[2])
  /\ \A r \in SuRuns : \A e \in Unwritten(suRun[r]) : e.id \in Summaries => Summarised(e.id)

ListedTwiceIsShared ==
  \A r, q \in SuRuns : r # q =>
    \A e \in Unwritten(suRun[r]), f \in Unwritten(suRun[q]) : e.id = f.id => e.id \in suShared

\* A row that was shown, and is not archived, is about to be, or was to be.
ShownIsArchived ==
  \A a \in suShown :
    suRows[a[2]] # NoRow /\ ~suRows[a[2]].archived /\ suRows[a[2]].content = a[3] =>
      \/ a[2] \in suShared \cup suLeft
      \/ \E r \in SuRuns : Past(suRun[r]) /\ \E e \in Unwritten(suRun[r]) : e.id = a[2]

ToShowIsNew ==
  \A r \in SuRuns : suRun[r].at = "summary" =>
    \A e \in Unwritten(suRun[r]), a \in suShown :
      a[2] = e.id /\ a[3] = e.row.content => e.id \in suShared \cup suLeft

ListedIsShown ==
  \A r \in SuRuns : Past(suRun[r]) =>
    \A e \in Unwritten(suRun[r]) : \E s \in Summaries : <<s, e.id, e.row.content>> \in suShown

ListedStands ==
  \A r \in SuRuns : \A e \in Unwritten(suRun[r]) : e.id \notin suRaced =>
    /\ suRows[e.id] # NoRow /\ suRows[e.id].born <= suClock - MaxAge
    /\ e.id \in Memories => e.row.content = suNewest[e.id]

FoundIsOld ==
  \A r \in SuRuns : suRun[r].at = "store" /\ suRun[r].list[suRun[r].next].id \notin suRaced =>
    suRun[r].born <= suClock - MaxAge

SuInv == /\ SuTypeOK /\ OneInterval /\ SummariesStored /\ ListedTwiceIsShared /\ ShownIsArchived /\ ToShowIsNew
         /\ ListedIsShown /\ ListedStands /\ FoundIsOld
         /\ ArchivedIsShown /\ ShownOnce /\ OnlyRacingRunsTakeBack /\ ArchivedIsOld

-----------------------------------------------------------------------------
(* MemorySummaries: runs and what they have listed.                        *)

LEMMA RunShape ==
    ASSUME NEW run \in SuRunning
    PROVE  /\ run # NotRunning /\ run.at \in {"summary", "lookup", "store"}
           /\ run.now \in Nat /\ run.next \in Nat \ {0} /\ run.list \in Seq(SuListed)
           /\ run.at = "store" => run.born \in Nat
           /\ run.at # "store" => run \in [at : {"summary", "lookup"}, now : Nat, next : Nat \ {0}, list : Seq(SuListed)]
  <1>1. run.at # "none"
    BY DEF SuRunning
  <1>2. run # NotRunning
    BY <1>1 DEF NotRunning
  <1>3. QED
    BY <1>2 DEF SuRunning

LEMMA NoneListed == Unwritten(NotRunning) = {} /\ NotRunning.at = "none"
  BY DEF Unwritten, NotRunning

LEMMA ListedShape == ASSUME NEW e \in SuListed PROVE e.id \in Rows /\ e.row \in SuRow
  BY DEF SuListed

LEMMA PendingListed ==
    ASSUME SuTypeOK, NEW r \in SuRuns
    PROVE  /\ Unwritten(suRun[r]) \subseteq SuListed
           /\ Listed(r) = {e.id : e \in Unwritten(suRun[r])}
           /\ suRun[r].at = "none" <=> suRun[r] = NotRunning
           /\ suRun[r] # NotRunning => suRun[r] \in SuRunning /\ suRun[r].list[suRun[r].next] \in Unwritten(suRun[r])
  <1>1. suRun[r] \in SuRunning \cup {NotRunning}
    BY DEF SuTypeOK
  <1>2. CASE suRun[r] = NotRunning
    BY <1>2, NoneListed DEF Listed
  <1>3. CASE suRun[r] \in SuRunning
    <2>1. /\ suRun[r] # NotRunning /\ suRun[r].list \in Seq(SuListed) /\ suRun[r].next \in Nat \ {0}
          /\ suRun[r].at # "none" /\ suRun[r].next \in 1..Len(suRun[r].list)
      BY <1>3, RunShape DEF SuTypeOK
    <2>2. \A n \in suRun[r].next..Len(suRun[r].list) : n \in 1..Len(suRun[r].list) /\ suRun[r].list[n] \in SuListed
      BY <2>1
    <2>3. Unwritten(suRun[r]) \subseteq SuListed
      BY <2>1, <2>2 DEF Unwritten
    <2>4. Listed(r) = {e.id : e \in Unwritten(suRun[r])}
      BY <2>1 DEF Listed, Unwritten
    <2>5. suRun[r].list[suRun[r].next] \in Unwritten(suRun[r])
      BY <2>1 DEF Unwritten
    <2>6. QED
      BY <1>3, <2>1, <2>3, <2>4, <2>5
  <1>4. QED
    BY <1>1, <1>2, <1>3

\* What a step of one run makes of the runs.
LEMMA OneRunGoes ==
    ASSUME SuTypeOK, NEW r \in SuRuns, NEW j, Goes(r, j)
    PROVE  /\ suRun'[r] = j /\ \A q \in SuRuns \ {r} : suRun'[q] = suRun[q]
           /\ j \in SuRunning \cup {NotRunning} => suRun' \in [SuRuns -> SuRunning \cup {NotRunning}]
  BY DEF SuTypeOK, Goes

\* A run that goes on, or ends, keeps what it has not written back.
LEMMA GoesOn ==
    ASSUME SuTypeOK, NEW r \in SuRuns, NEW j \in SuRunning \cup {NotRunning}, Goes(r, j),
           Unwritten(j) \subseteq Unwritten(suRun[r])
    PROVE  /\ suRun' \in [SuRuns -> SuRunning \cup {NotRunning}]
           /\ suRun'[r] = j /\ \A q \in SuRuns \ {r} : suRun'[q] = suRun[q]
           /\ \A q \in SuRuns : Unwritten(suRun'[q]) \subseteq Unwritten(suRun[q])
  BY OneRunGoes, Zenon

\* A write of one row leaves finitely many.
LEMMA StillFinite ==
    ASSUME SuTypeOK, NEW i \in Rows, NEW row, suRows' = [suRows EXCEPT ![i] = row]
    PROVE  IsFiniteSet({k \in Rows : suRows'[k] # NoRow})
  <1>1. {k \in Rows : suRows'[k] # NoRow} \subseteq {k \in Rows : suRows[k] # NoRow} \cup {i}
    BY DEF SuTypeOK
  <1>2. IsFiniteSet({k \in Rows : suRows[k] # NoRow} \cup {i})
    BY FS_AddElement DEF SuTypeOK
  <1>3. QED
    BY <1>1, <1>2, FS_Subset

-----------------------------------------------------------------------------
(* MemorySummaries: what the steps of a run make of it.                    *)

LEMMA CandidatesFinite ==
    ASSUME SuTypeOK
    PROVE  IsFiniteSet(Candidates) /\ Cardinality(Candidates) \in Nat
  <1>1. Candidates \subseteq {i \in Rows : suRows[i] # NoRow}
    BY DEF Candidates
  <1>2. IsFiniteSet(Candidates)
    BY <1>1, FS_Subset DEF SuTypeOK
  <1>3. QED
    BY <1>2, FS_CardinalityType

LEMMA RunBegun ==
    ASSUME SuTypeOK, NEW r \in SuRuns, BeginRun(r)
    PROVE  \E j \in SuRunning :
             /\ Goes(r, j) /\ j.at = "summary" /\ j.next = 1 /\ 1 \in 1..Len(j.list)
             /\ \A e \in Unwritten(j) : e.id \in Candidates /\ e.row = suRows[e.id]
             /\ suShared' = suShared \cup ({e.id : e \in Unwritten(j)} \cap UNION {Listed(q) : q \in SuRuns})
  <1>1. PICK s \in OldestFirst(Candidates) :
          LET size == IF Len(s) < MaxPerSummary THEN Len(s) ELSE MaxPerSummary
              ids == {s[n] : n \in 1..size}
          IN  /\ Goes(r, [at |-> "summary", now |-> suClock, next |-> 1,
                          list |-> [n \in 1..size |-> [id |-> s[n], row |-> suRows[s[n]]]]])
              /\ suShared' = suShared \cup (ids \cap UNION {Listed(q) : q \in SuRuns})
    BY DEF BeginRun
  <1> DEFINE size == IF Len(s) < MaxPerSummary THEN Len(s) ELSE MaxPerSummary
             list == [n \in 1..size |-> [id |-> s[n], row |-> suRows[s[n]]]]
             j == [at |-> "summary", now |-> suClock, next |-> 1, list |-> list]
  <1>2. /\ Cardinality(Candidates) \in Nat /\ Cardinality(Candidates) >= 1
        /\ s \in [1..Cardinality(Candidates) -> Candidates]
    BY CandidatesFinite, SummariesAssumption DEF BeginRun, OldestFirst
  <1>3. Len(s) = Cardinality(Candidates) /\ s \in Seq(Candidates)
    BY <1>2
  <1>4. size \in Nat /\ 1 <= size /\ size <= Cardinality(Candidates)
    BY <1>2, <1>3, SummariesAssumption
  <1> HIDE DEF size
  <1>5. \A n \in 1..size : s[n] \in Candidates
    BY <1>2, <1>4
  <1>6. \A n \in 1..size : [id |-> s[n], row |-> suRows[s[n]]] \in SuListed
    <2>1. \A i \in Candidates : i \in Rows /\ suRows[i] \in SuRow
      BY DEF Candidates, SuTypeOK
    <2>2. QED
      BY <1>5, <2>1 DEF SuListed
  <1>7. list \in Seq(SuListed) /\ Len(list) = size
    BY <1>4, <1>6
  <1>8. j \in SuRunning
    BY <1>7 DEF SuRunning, SuTypeOK
  <1>9. j.at = "summary" /\ j.next = 1 /\ j.list = list
    OBVIOUS
  <1>10. \A n \in 1..size : list[n].id = s[n] /\ list[n].row = suRows[s[n]]
    OBVIOUS
  <1>11. Unwritten(j) = {list[n] : n \in 1..size}
    <2> HIDE DEF j, list
    <2>1. j # NotRunning
      BY <1>8, RunShape
    <2>2. Unwritten(j) = {j.list[n] : n \in j.next..Len(j.list)}
      BY <2>1 DEF Unwritten
    <2>3. QED
      BY <1>7, <1>9, <2>2
  <1>12. \A e \in Unwritten(j) : e.id \in Candidates /\ e.row = suRows[e.id]
    BY <1>5, <1>10, <1>11
  <1>13. {e.id : e \in Unwritten(j)} = {s[n] : n \in 1..size}
    <2> HIDE DEF j, list
    <2>1. {e.id : e \in Unwritten(j)} = {list[n].id : n \in 1..size}
      BY <1>11
    <2>2. QED
      BY <1>10, <2>1
  <1>14. /\ Goes(r, j)
         /\ suShared' = suShared \cup ({e.id : e \in Unwritten(j)} \cap UNION {Listed(q) : q \in SuRuns})
    BY <1>1, <1>13 DEF size
  <1>15. 1 \in 1..Len(j.list)
    BY <1>4, <1>7, <1>9
  <1> HIDE DEF j
  <1>16. QED
    BY <1>8, <1>9, <1>12, <1>14, <1>15

LEMMA SummaryWritten ==
    ASSUME SuTypeOK, NEW r \in SuRuns, WriteSummary(r)
    PROVE  \E j \in SuRunning, s \in Summaries :
             /\ Goes(r, j) /\ j.at = "lookup" /\ Unwritten(j) = Unwritten(suRun[r]) /\ j.next \in 1..Len(j.list)
             /\ suRun[r].at = "summary" /\ Unwritten(suRun[r]) # {}
             /\ suRows[s] = NoRow /\ ~Summarised(s)
             /\ suRows' = [suRows EXCEPT ![s] = [content |-> 0, born |-> suRun[r].now, archived |-> FALSE]]
             /\ suRun[r].now \in Nat
             /\ suShown' = suShown \cup {<<s, e.id, e.row.content>> : e \in Unwritten(suRun[r])}
  <1> DEFINE run == suRun[r]
             j == [run EXCEPT !.at = "lookup"]
  <1>1. /\ run \in SuRunning /\ run.at = "summary" /\ run.next = 1 /\ 1 \in 1..Len(run.list)
        /\ run.list \in Seq(SuListed) /\ run.now \in Nat
        /\ run \in [at : {"summary", "lookup"}, now : Nat, next : Nat \ {0}, list : Seq(SuListed)]
    BY NoneListed, RunShape DEF SuTypeOK, WriteSummary
  <1> HIDE DEF run
  <1>2. j \in SuRunning /\ j.at = "lookup" /\ j.next = run.next /\ j.list = run.list
    BY <1>1 DEF SuRunning
  <1>3. Unwritten(j) = Unwritten(run)
    BY <1>1, <1>2, RunShape DEF Unwritten
  <1>4. Unwritten(run) = {run.list[n] : n \in DOMAIN run.list}
    BY <1>1, RunShape DEF Unwritten
  <1>5. Unwritten(run) # {}
    <2>1. 1 \in DOMAIN run.list
      BY <1>1
    <2>2. QED
      BY <1>4, <2>1
  <1>6. PICK s \in Summaries :
          /\ suRows[s] = NoRow /\ \A shown \in suShown : shown[1] # s
          /\ suRows' = [suRows EXCEPT ![s] = [content |-> 0, born |-> suRun[r].now, archived |-> FALSE]]
          /\ suShown' = suShown \cup {<<s, e.id, e.row.content>> : e \in {run.list[n] : n \in DOMAIN run.list}}
    BY DEF WriteSummary, run
  <1>7. Goes(r, j)
    BY DEF WriteSummary, run
  <1>8. ~Summarised(s)
    BY <1>6 DEF Summarised
  <1>9. suShown' = suShown \cup {<<s, e.id, e.row.content>> : e \in Unwritten(run)}
    BY <1>4, <1>6
  <1> HIDE DEF j
  <1>10. j.next \in 1..Len(j.list)
    BY <1>1, <1>2
  <1>11. QED
    BY <1>1, <1>2, <1>3, <1>5, <1>6, <1>7, <1>8, <1>9, <1>10 DEF run

LEMMA LookedUp ==
    ASSUME SuTypeOK, NEW r \in SuRuns, LookUp(r)
    PROVE  \E j \in SuRunning, e \in Unwritten(suRun[r]) :
             /\ Goes(r, j) /\ j.at = "store" /\ Unwritten(j) = Unwritten(suRun[r]) /\ j.next \in 1..Len(j.list)
             /\ suRun[r].at = "lookup" /\ e = j.list[j.next]
             /\ j.born = IF suRows[e.id] = NoRow THEN suRun[r].now ELSE suRows[e.id].born
  <1> DEFINE run == suRun[r]
             e == run.list[run.next]
             j == [at |-> "store", now |-> run.now, next |-> run.next, list |-> run.list,
                   born |-> IF suRows[e.id] = NoRow THEN run.now ELSE suRows[e.id].born]
  <1>1. /\ run \in SuRunning /\ run.at = "lookup" /\ run.next \in 1..Len(run.list) /\ run # NotRunning
        /\ run.next \in Nat \ {0} /\ run.list \in Seq(SuListed) /\ run.now \in Nat
        /\ e \in Unwritten(run) /\ e \in SuListed
    BY NoneListed, RunShape, PendingListed DEF SuTypeOK, LookUp
  <1>2. (IF suRows[e.id] = NoRow THEN run.now ELSE suRows[e.id].born) \in Nat
    <2>1. e.id \in Rows /\ run.now \in Nat
      BY <1>1, ListedShape
    <2>2. \A i \in Rows : suRows[i] # NoRow => suRows[i].born \in Nat
      BY DEF SuTypeOK, SuRow
    <2>3. QED
      BY <2>1, <2>2
  <1>3. Goes(r, j)
    BY DEF LookUp
  <1> HIDE DEF run, e
  <1>4. j \in SuRunning
    BY <1>1, <1>2 DEF SuRunning
  <1>5. /\ j.at = "store" /\ j.next = run.next /\ j.list = run.list
        /\ j.born = IF suRows[e.id] = NoRow THEN run.now ELSE suRows[e.id].born
    OBVIOUS
  <1> HIDE DEF j
  <1>6. Unwritten(j) = Unwritten(run)
    BY <1>1, <1>4, <1>5, RunShape DEF Unwritten
  <1>7. e = j.list[j.next]
    BY <1>5 DEF e
  <1>8. QED
    BY <1>1, <1>3, <1>4, <1>5, <1>6, <1>7 DEF run

LEMMA ArchivedStored ==
    ASSUME SuTypeOK, NEW r \in SuRuns, StoreArchived(r)
    PROVE  \E j \in SuRunning \cup {NotRunning}, e \in Unwritten(suRun[r]) :
             /\ Goes(r, j) /\ j.at \in {"lookup", "none"}
             /\ j # NotRunning => j.next \in 1..Len(j.list)
             /\ Unwritten(j) \subseteq Unwritten(suRun[r])
             /\ \A f \in Unwritten(suRun[r]) : f # e => f \in Unwritten(j)
             /\ suRun[r].at = "store" /\ e = suRun[r].list[suRun[r].next]
             /\ suRun[r].born \in Nat
             /\ suRows' = [suRows EXCEPT ![e.id] = [content |-> e.row.content, born |-> suRun[r].born, archived |-> TRUE]]
  <1> DEFINE run == suRun[r]
             e == run.list[run.next]
             next == [at |-> "lookup", now |-> run.now, next |-> run.next + 1, list |-> run.list]
             j == IF run.next = Len(run.list) THEN NotRunning ELSE next
  <1>1. /\ run \in SuRunning /\ run.at = "store" /\ run.next \in 1..Len(run.list) /\ run # NotRunning
        /\ run.next \in Nat \ {0} /\ run.list \in Seq(SuListed) /\ run.now \in Nat /\ run.born \in Nat
        /\ e \in Unwritten(run) /\ Len(run.list) \in Nat
    BY NoneListed, RunShape, PendingListed DEF SuTypeOK, StoreArchived
  <1>2. /\ Goes(r, j)
        /\ suRows' = [suRows EXCEPT ![e.id] = [content |-> e.row.content, born |-> run.born, archived |-> TRUE]]
    BY DEF StoreArchived, Archived
  <1>3. e = run.list[run.next]
    OBVIOUS
  <1> HIDE DEF run, e
  <1>4. next \in SuRunning
    BY <1>1 DEF SuRunning
  <1>5. next.at = "lookup" /\ next.next = run.next + 1 /\ next.list = run.list
    OBVIOUS
  <1> HIDE DEF next
  <1>6. CASE run.next = Len(run.list)
    <2>1. j = NotRunning /\ Unwritten(j) = {} /\ j.at = "none"
      BY <1>6, NoneListed
    <2>2. \A f \in Unwritten(run) : f = e
      BY <1>1, <1>3, <1>6 DEF Unwritten
    <2> HIDE DEF j
    <2>3. QED
      BY <1>1, <1>2, <1>3, <2>1, <2>2 DEF run
  <1>7. CASE run.next # Len(run.list)
    <2>1. j = next /\ next # NotRunning
      BY <1>4, <1>7, RunShape
    <2>2. run.next + 1 \in 1..Len(run.list)
      BY <1>1, <1>7
    <2>3. Unwritten(next) = {run.list[n] : n \in (run.next + 1)..Len(run.list)}
      BY <1>5, <2>1 DEF Unwritten
    <2>4. Unwritten(run) = {run.list[n] : n \in run.next..Len(run.list)}
      BY <1>1 DEF Unwritten
    <2>5. Unwritten(next) \subseteq Unwritten(run)
      BY <1>1, <2>3, <2>4
    <2>6. \A f \in Unwritten(run) : f # e => f \in Unwritten(next)
      BY <1>1, <1>3, <2>3, <2>4
    <2>7. next.next \in 1..Len(next.list)
      BY <1>5, <2>2
    <2> HIDE DEF j
    <2>8. QED
      BY <1>1, <1>2, <1>3, <1>4, <1>5, <2>1, <2>5, <2>6, <2>7 DEF run
  <1>8. QED
    BY <1>6, <1>7

LEMMA RunFailed ==
    ASSUME SuTypeOK, NEW r \in SuRuns, RunFails(r)
    PROVE  /\ suRun'[r] = NotRunning /\ \A q \in SuRuns \ {r} : suRun'[q] = suRun[q]
           /\ suRun' \in [SuRuns -> SuRunning \cup {NotRunning}]
           /\ \A q \in SuRuns : Unwritten(suRun'[q]) \subseteq Unwritten(suRun[q])
           /\ suLeft' = IF suRun[r].at = "summary" THEN suLeft ELSE suLeft \cup {e.id : e \in Unwritten(suRun[r])}
  BY GoesOn, NoneListed, PendingListed DEF RunFails

-----------------------------------------------------------------------------
(* MemorySummaries: what clients do.                                       *)

\* Clients write content that no run has listed and no summary has shown.
LEMMA ClientWrote ==
    ASSUME SuTypeOK, NEW i \in Memories, ClientWrites(i)
    PROVE  \E content \in Nat \ {0}, row \in SuRow :
             /\ \A a \in suShown : a[3] # content
             /\ row.content = content /\ ~row.archived
             /\ suRows' = [suRows EXCEPT ![i] = row]
             /\ suNewest' = [suNewest EXCEPT ![i] = content]
  <1>1. PICK content \in 1..MaxContents :
          /\ content \notin Contents
          /\ suRows' = [suRows EXCEPT ![i] = [content |-> content, archived |-> FALSE,
                                              born |-> IF @ = NoRow THEN suClock ELSE @.born]]
          /\ suNewest' = [suNewest EXCEPT ![i] = content]
    BY DEF ClientWrites
  <1> DEFINE born == IF suRows[i] = NoRow THEN suClock ELSE suRows[i].born
             row == [content |-> content, archived |-> FALSE, born |-> born]
  <1>2. i \in Rows
    BY DEF Rows
  <1>3. born \in Nat
    BY <1>2 DEF SuTypeOK, SuRow
  <1>4. suRows' = [suRows EXCEPT ![i] = row]
    BY <1>1, <1>2 DEF SuTypeOK
  <1> HIDE DEF born
  <1>5. content \in Nat \ {0}
    OBVIOUS
  <1>6. row \in SuRow /\ row.content = content /\ ~row.archived
    BY <1>3, <1>5 DEF SuRow
  <1>7. \A a \in suShown : a[3] # content
    BY <1>1 DEF Contents
  <1> HIDE DEF row
  <1>8. QED
    BY <1>1, <1>4, <1>5, <1>6, <1>7

\* What a client writes last was written while a run had it listed, or by itself.
LEMMA RacedIsListed ==
    ASSUME SuTypeOK, NEW i \in Rows, suRaced' = Raced(i)
    PROVE  /\ suRaced' \subseteq Rows
           /\ suRaced \ {i} \subseteq suRaced'
           /\ \A k \in suRaced' : k = i \/ k \in suRaced
           /\ i \notin suRaced' => \A r \in SuRuns : \A e \in Unwritten(suRun[r]) : e.id # i
  <1>1. \A r \in SuRuns : Listed(r) = {e.id : e \in Unwritten(suRun[r])}
    BY PendingListed
  <1>2. CASE \E r \in SuRuns : i \in Listed(r)
    BY <1>2 DEF Raced, SuTypeOK
  <1>3. CASE \A r \in SuRuns : i \notin Listed(r)
    BY <1>1, <1>3 DEF Raced, SuTypeOK
  <1>4. QED
    BY <1>2, <1>3

-----------------------------------------------------------------------------
(* MemorySummaries: the invariant, step by step.                           *)

\* Nothing but the configuration, its interval or the clock moves.
Quiet == /\ suClock \in Nat /\ suClock' \in Nat /\ suClock' >= suClock
         /\ UNCHANGED <<suRows, suRun, suNewest, suShown, suShared, suLeft, suRaced>>

LEMMA SuSteps ==
    ASSUME SuTypeOK, [SuNext]_suVars
    PROVE  \/ Quiet
           \/ \E r \in SuRuns : BeginRun(r) \/ WriteSummary(r) \/ LookUp(r) \/ StoreArchived(r) \/ RunFails(r)
           \/ \E i \in Memories : ClientWrites(i)
           \/ \E i \in Rows : ClientDeletes(i)
  <1>1. suClock \in Nat
    BY DEF SuTypeOK
  <1>2. ASSUME NEW enabled \in BOOLEAN, ConfigureProject(enabled) PROVE Quiet
    BY <1>1, <1>2 DEF ConfigureProject, Quiet
  <1>3. CASE RemoveProject \/ StartAll \/ StopAll
    BY <1>1, <1>3 DEF RemoveProject, StartAll, StopAll, Quiet
  <1>4. CASE SuTick
    BY <1>1, <1>4 DEF SuTick, configVars, Quiet
  <1>5. CASE UNCHANGED suVars
    BY <1>1, <1>5 DEF suVars, Quiet
  <1>6. QED
    BY <1>2, <1>3, <1>4, <1>5, Zenon DEF SuNext

LEMMA ConfigTyped ==
    ASSUME SuTypeOK, OneInterval, [SuNext]_suVars
    PROVE  /\ suConfig' \in {"none", "enabled", "disabled"} /\ suIntervals' \in {0, 1} /\ OneInterval'
           /\ suClock' \in Nat
  <1>1. /\ suConfig \in {"none", "enabled", "disabled"} /\ suIntervals \in {0, 1} /\ suClock \in Nat
        /\ suIntervals <= IF suConfig = "enabled" THEN 1 ELSE 0
    BY DEF SuTypeOK, OneInterval
  <1>2. CASE suConfig' = suConfig /\ suIntervals' = suIntervals /\ suClock' = suClock
    BY <1>1, <1>2 DEF OneInterval
  <1>3. ASSUME NEW enabled \in BOOLEAN, ConfigureProject(enabled)
        PROVE  suConfig' \in {"none", "enabled", "disabled"} /\ suIntervals' \in {0, 1} /\ OneInterval' /\ suClock' \in Nat
    BY <1>1, <1>3 DEF ConfigureProject, OneInterval
  <1>4. CASE RemoveProject \/ StartAll \/ StopAll
    BY <1>1, <1>4 DEF RemoveProject, StartAll, StopAll, OneInterval
  <1>5. CASE SuTick
    BY <1>1, <1>5 DEF SuTick, configVars, OneInterval
  <1>6. CASE UNCHANGED suVars
    BY <1>2, <1>6 DEF suVars
  <1>7. ASSUME NEW r \in SuRuns, BeginRun(r) \/ WriteSummary(r) \/ LookUp(r) \/ StoreArchived(r) \/ RunFails(r)
        PROVE  suConfig' = suConfig /\ suIntervals' = suIntervals /\ suClock' = suClock
    BY <1>7 DEF BeginRun, WriteSummary, LookUp, StoreArchived, RunFails, configVars
  <1>8. ASSUME NEW i \in Memories, ClientWrites(i)
        PROVE  suConfig' = suConfig /\ suIntervals' = suIntervals /\ suClock' = suClock
    BY <1>8 DEF ClientWrites, configVars
  <1>9. ASSUME NEW i \in Rows, ClientDeletes(i)
        PROVE  suConfig' = suConfig /\ suIntervals' = suIntervals /\ suClock' = suClock
    BY <1>9 DEF ClientDeletes, configVars
  <1>10. QED
    BY <1>2, <1>3, <1>4, <1>5, <1>6, <1>7, <1>8, <1>9, Zenon DEF SuNext

\* What is left of SuTypeOK, of a step that writes a row at most.
LEMMA RunsTyped ==
    ASSUME SuTypeOK, NEW r \in SuRuns, NEW j \in SuRunning \cup {NotRunning}, Goes(r, j),
           j # NotRunning => /\ j.next \in 1..Len(j.list)
                             /\ j.at = "summary" => j.next = 1
    PROVE  /\ suRun' \in [SuRuns -> SuRunning \cup {NotRunning}]
           /\ \A q \in SuRuns : suRun'[q] # NotRunning =>
                /\ suRun'[q].next \in 1..Len(suRun'[q].list)
                /\ suRun'[q].at = "summary" => suRun'[q].next = 1
  <1>1. suRun'[r] = j /\ \A q \in SuRuns \ {r} : suRun'[q] = suRun[q]
    BY OneRunGoes
  <1>2. suRun' \in [SuRuns -> SuRunning \cup {NotRunning}]
    BY OneRunGoes
  <1>3. \A q \in SuRuns : suRun[q] # NotRunning =>
          /\ suRun[q].next \in 1..Len(suRun[q].list)
          /\ suRun[q].at = "summary" => suRun[q].next = 1
    BY DEF SuTypeOK
  <1>4. QED
    BY <1>1, <1>2, <1>3, Zenon

LEMMA RowsTyped ==
    ASSUME SuTypeOK, NEW i \in Rows, NEW row \in SuRow \cup {NoRow}, suRows' = [suRows EXCEPT ![i] = row]
    PROVE  suRows' \in [Rows -> SuRow \cup {NoRow}] /\ IsFiniteSet({k \in Rows : suRows'[k] # NoRow})
  BY StillFinite DEF SuTypeOK

LEMMA SuTypeStep ==
    ASSUME SuTypeOK, OneInterval, [SuNext]_suVars
    PROVE  SuTypeOK' /\ OneInterval'
  <1>1. /\ suConfig' \in {"none", "enabled", "disabled"} /\ suIntervals' \in {0, 1} /\ OneInterval'
        /\ suClock' \in Nat
    BY ConfigTyped
  <1>2. CASE Quiet
    <2>1. SuTypeOK'
      BY <1>1, <1>2 DEF Quiet, SuTypeOK
    <2>2. QED
      BY <1>1, <2>1
  <1>3. ASSUME NEW r \in SuRuns, BeginRun(r) PROVE SuTypeOK'
    <2>1. PICK j \in SuRunning :
            /\ Goes(r, j) /\ j.at = "summary" /\ j.next = 1 /\ 1 \in 1..Len(j.list)
            /\ suShared' = suShared \cup ({e.id : e \in Unwritten(j)} \cap UNION {Listed(q) : q \in SuRuns})
      BY <1>3, RunBegun
    <2>2. /\ suRun' \in [SuRuns -> SuRunning \cup {NotRunning}]
          /\ \A q \in SuRuns : suRun'[q] # NotRunning =>
               /\ suRun'[q].next \in 1..Len(suRun'[q].list)
               /\ suRun'[q].at = "summary" => suRun'[q].next = 1
      BY <2>1, RunsTyped
    <2>3. \A q \in SuRuns : Listed(q) \subseteq Rows
      BY PendingListed, ListedShape
    <2>4. suShared' \subseteq Rows
      BY <2>1, <2>3 DEF SuTypeOK
    <2>5. QED
      BY <1>1, <1>3, <2>2, <2>4 DEF BeginRun, SuTypeOK
  <1>4. ASSUME NEW r \in SuRuns, WriteSummary(r) PROVE SuTypeOK'
    <2>1. PICK j \in SuRunning, s \in Summaries :
             /\ Goes(r, j) /\ j.at = "lookup" /\ j.next \in 1..Len(j.list)
             /\ suRows' = [suRows EXCEPT ![s] = [content |-> 0, born |-> suRun[r].now, archived |-> FALSE]]
             /\ suRun[r].now \in Nat
             /\ suShown' = suShown \cup {<<s, e.id, e.row.content>> : e \in Unwritten(suRun[r])}
      BY <1>4, SummaryWritten
    <2>2. /\ suRun' \in [SuRuns -> SuRunning \cup {NotRunning}]
          /\ \A q \in SuRuns : suRun'[q] # NotRunning =>
               /\ suRun'[q].next \in 1..Len(suRun'[q].list)
               /\ suRun'[q].at = "summary" => suRun'[q].next = 1
      BY <2>1, RunsTyped
    <2>3. [content |-> 0, born |-> suRun[r].now, archived |-> FALSE] \in SuRow
      BY <2>1 DEF SuRow
    <2>4. suRows' \in [Rows -> SuRow \cup {NoRow}] /\ IsFiniteSet({k \in Rows : suRows'[k] # NoRow})
      BY <2>1, <2>3, RowsTyped DEF Rows
    <2>5. \A e \in Unwritten(suRun[r]) : e.id \in Rows /\ e.row.content \in Nat
      BY PendingListed, ListedShape DEF SuRow
    <2>6. suShown' \subseteq Summaries \X Rows \X Nat
      BY <2>1, <2>5 DEF SuTypeOK
    <2>7. QED
      BY <1>1, <1>4, <2>2, <2>4, <2>6 DEF WriteSummary, SuTypeOK
  <1>5. ASSUME NEW r \in SuRuns, LookUp(r) PROVE SuTypeOK'
    <2>1. PICK j \in SuRunning : Goes(r, j) /\ j.at = "store" /\ j.next \in 1..Len(j.list)
      BY <1>5, LookedUp
    <2>2. /\ suRun' \in [SuRuns -> SuRunning \cup {NotRunning}]
          /\ \A q \in SuRuns : suRun'[q] # NotRunning =>
               /\ suRun'[q].next \in 1..Len(suRun'[q].list)
               /\ suRun'[q].at = "summary" => suRun'[q].next = 1
      BY <2>1, RunsTyped
    <2>3. QED
      BY <1>1, <1>5, <2>2 DEF LookUp, SuTypeOK
  <1>6. ASSUME NEW r \in SuRuns, StoreArchived(r) PROVE SuTypeOK'
    <2>1. PICK j \in SuRunning \cup {NotRunning}, e \in Unwritten(suRun[r]) :
             /\ Goes(r, j) /\ j.at \in {"lookup", "none"}
             /\ j # NotRunning => j.next \in 1..Len(j.list)
             /\ suRun[r].born \in Nat
             /\ suRows' = [suRows EXCEPT ![e.id] = [content |-> e.row.content, born |-> suRun[r].born, archived |-> TRUE]]
      BY <1>6, ArchivedStored
    <2>2. /\ suRun' \in [SuRuns -> SuRunning \cup {NotRunning}]
          /\ \A q \in SuRuns : suRun'[q] # NotRunning =>
               /\ suRun'[q].next \in 1..Len(suRun'[q].list)
               /\ suRun'[q].at = "summary" => suRun'[q].next = 1
      BY <2>1, RunsTyped
    <2>3. e.id \in Rows /\ e.row.content \in Nat
      BY PendingListed, ListedShape DEF SuRow
    <2>4. [content |-> e.row.content, born |-> suRun[r].born, archived |-> TRUE] \in SuRow
      BY <2>1, <2>3 DEF SuRow
    <2>5. suRows' \in [Rows -> SuRow \cup {NoRow}] /\ IsFiniteSet({k \in Rows : suRows'[k] # NoRow})
      BY <2>1, <2>3, <2>4, RowsTyped
    <2>6. QED
      BY <1>1, <1>6, <2>2, <2>5 DEF StoreArchived, SuTypeOK
  <1>7. ASSUME NEW r \in SuRuns, RunFails(r) PROVE SuTypeOK'
    <2>1. Goes(r, NotRunning)
      BY <1>7 DEF RunFails
    <2>2. /\ suRun' \in [SuRuns -> SuRunning \cup {NotRunning}]
          /\ \A q \in SuRuns : suRun'[q] # NotRunning =>
               /\ suRun'[q].next \in 1..Len(suRun'[q].list)
               /\ suRun'[q].at = "summary" => suRun'[q].next = 1
      BY <2>1, RunsTyped
    <2>3. suLeft' \subseteq Rows
      BY <1>7, RunFailed, PendingListed, ListedShape DEF SuTypeOK
    <2>4. QED
      BY <1>1, <1>7, <2>2, <2>3 DEF RunFails, SuTypeOK
  <1>8. ASSUME NEW i \in Memories, ClientWrites(i) PROVE SuTypeOK'
    <2>1. PICK content \in Nat \ {0}, row \in SuRow :
            suRows' = [suRows EXCEPT ![i] = row] /\ suNewest' = [suNewest EXCEPT ![i] = content]
      BY <1>8, ClientWrote
    <2>2. i \in Rows
      BY DEF Rows
    <2>3. suRows' \in [Rows -> SuRow \cup {NoRow}] /\ IsFiniteSet({k \in Rows : suRows'[k] # NoRow})
      BY <2>1, <2>2, RowsTyped
    <2>4. suRaced' \subseteq Rows
      BY <1>8, <2>2, RacedIsListed DEF ClientWrites
    <2>5. suNewest' \in [Memories -> Nat]
      BY <2>1 DEF SuTypeOK
    <2>6. QED
      BY <1>1, <1>8, <2>3, <2>4, <2>5 DEF ClientWrites, SuTypeOK
  <1>9. ASSUME NEW i \in Rows, ClientDeletes(i) PROVE SuTypeOK'
    <2>1. suRows' \in [Rows -> SuRow \cup {NoRow}] /\ IsFiniteSet({k \in Rows : suRows'[k] # NoRow})
      BY <1>9, RowsTyped DEF ClientDeletes
    <2>2. suRaced' \subseteq Rows
      BY <1>9, RacedIsListed DEF ClientDeletes
    <2>3. suNewest' \in [Memories -> Nat]
      BY <1>9 DEF ClientDeletes, SuTypeOK
    <2>4. QED
      BY <1>1, <1>9, <2>1, <2>2, <2>3 DEF ClientDeletes, SuTypeOK
  <1>10. QED
    BY <1>1, <1>2, <1>3, <1>4, <1>5, <1>6, <1>7, <1>8, <1>9, SuSteps, Zenon

\* A record taken to be a summary is one: ids of summaries are used once.
LEMMA StoredStep ==
    ASSUME SuInv, [SuNext]_suVars
    PROVE  SummariesStored'
  <1>1. SuTypeOK /\ SummariesStored
    BY DEF SuInv
  <1>2. ASSUME NEW s \in Summaries, Summarised(s), suShown \subseteq suShown' PROVE Summarised(s)'
    BY <1>2 DEF Summarised
  <1>3. CASE Quiet
    BY <1>1, <1>3 DEF Quiet, SummariesStored, Summarised
  <1>4. ASSUME NEW r \in SuRuns, BeginRun(r) PROVE SummariesStored'
    <2>1. PICK j \in SuRunning :
            /\ Goes(r, j)
            /\ \A e \in Unwritten(j) : e.id \in Candidates /\ e.row = suRows[e.id]
      BY <1>1, <1>4, RunBegun
    <2>2. suRun'[r] = j /\ \A q \in SuRuns \ {r} : suRun'[q] = suRun[q]
      BY <1>1, <2>1, OneRunGoes
    <2>3. \A q \in SuRuns : \A e \in Unwritten(suRun'[q]) : e.id \in Candidates \/ e \in Unwritten(suRun[q])
      BY <2>1, <2>2
    <2>4. UNCHANGED <<suRows, suShown>>
      BY <1>4 DEF BeginRun
    <2>5. QED
      BY <1>1, <2>3, <2>4 DEF SummariesStored, Summarised, Candidates
  <1>5. ASSUME NEW r \in SuRuns, WriteSummary(r) PROVE SummariesStored'
    <2>1. PICK j \in SuRunning, s \in Summaries :
             /\ Goes(r, j) /\ Unwritten(j) = Unwritten(suRun[r])
             /\ Unwritten(suRun[r]) # {}
             /\ suRows' = [suRows EXCEPT ![s] = [content |-> 0, born |-> suRun[r].now, archived |-> FALSE]]
             /\ suShown' = suShown \cup {<<s, e.id, e.row.content>> : e \in Unwritten(suRun[r])}
      BY <1>1, <1>5, SummaryWritten
    <2>2. \A q \in SuRuns : Unwritten(suRun'[q]) \subseteq Unwritten(suRun[q])
      BY <1>1, <2>1, GoesOn
    <2>3. \E a \in suShown' : a[1] = s
      <3>1. PICK e \in Unwritten(suRun[r]) : TRUE
        BY <2>1
      <3>2. <<s, e.id, e.row.content>> \in suShown'
        BY <2>1
      <3>3. <<s, e.id, e.row.content>>[1] = s
        OBVIOUS
      <3>4. QED
        BY <3>2, <3>3
    <2>4. Summarised(s)' /\ suShown \subseteq suShown'
      BY <2>1, <2>3 DEF Summarised
    <2>5. \A i \in Rows : suRows'[i] # NoRow => suRows[i] # NoRow \/ i = s
      BY <1>1, <2>1 DEF SuTypeOK
    <2>6. \A i \in Summaries : suRows'[i] # NoRow => Summarised(i)'
      BY <1>1, <1>2, <2>4, <2>5 DEF SummariesStored, Rows
    <2>7. \A a \in suShown' : a[2] \in Summaries => Summarised(a[2])'
      BY <1>1, <1>2, <2>1, <2>4 DEF SummariesStored
    <2>8. \A q \in SuRuns : \A e \in Unwritten(suRun'[q]) : e.id \in Summaries => Summarised(e.id)'
      BY <1>1, <1>2, <2>2, <2>4 DEF SummariesStored
    <2>9. QED
      BY <2>6, <2>7, <2>8 DEF SummariesStored
  <1>6. ASSUME \A q \in SuRuns : Unwritten(suRun'[q]) \subseteq Unwritten(suRun[q]),
               \A i \in Summaries : suRows'[i] # NoRow => \/ suRows[i] # NoRow
                                                          \/ \E r \in SuRuns : \E e \in Unwritten(suRun[r]) : e.id = i,
               suShown' = suShown
        PROVE  SummariesStored'
    BY <1>1, <1>6 DEF SummariesStored, Summarised
  <1>7. ASSUME NEW r \in SuRuns, LookUp(r) PROVE SummariesStored'
    <2>1. PICK j \in SuRunning : Goes(r, j) /\ Unwritten(j) = Unwritten(suRun[r])
      BY <1>1, <1>7, LookedUp
    <2>2. \A q \in SuRuns : Unwritten(suRun'[q]) \subseteq Unwritten(suRun[q])
      BY <1>1, <2>1, GoesOn
    <2>3. QED
      BY <1>6, <1>7, <2>2 DEF LookUp
  <1>8. ASSUME NEW r \in SuRuns, StoreArchived(r) PROVE SummariesStored'
    <2>1. PICK j \in SuRunning \cup {NotRunning}, e \in Unwritten(suRun[r]) :
             /\ Goes(r, j) /\ Unwritten(j) \subseteq Unwritten(suRun[r])
             /\ suRows' = [suRows EXCEPT ![e.id] = [content |-> e.row.content, born |-> suRun[r].born, archived |-> TRUE]]
      BY <1>1, <1>8, ArchivedStored
    <2>2. \A q \in SuRuns : Unwritten(suRun'[q]) \subseteq Unwritten(suRun[q])
      BY <1>1, <2>1, GoesOn
    <2>3. \A i \in Summaries : suRows'[i] # NoRow => suRows[i] # NoRow \/ e.id = i
      BY <1>1, <2>1 DEF SuTypeOK, Rows
    <2>4. QED
      BY <1>6, <1>8, <2>1, <2>2, <2>3 DEF StoreArchived
  <1>9. ASSUME NEW r \in SuRuns, RunFails(r) PROVE SummariesStored'
    BY <1>1, <1>6, <1>9, RunFailed DEF RunFails
  <1>10. ASSUME NEW i \in Memories, ClientWrites(i) PROVE SummariesStored'
    <2>1. PICK row \in SuRow : suRows' = [suRows EXCEPT ![i] = row]
      BY <1>1, <1>10, ClientWrote
    <2>2. \A k \in Summaries : suRows'[k] = suRows[k]
      BY <1>1, <2>1, SummariesAssumption DEF SuTypeOK, Rows
    <2>3. QED
      BY <1>6, <1>10, <2>2 DEF ClientWrites
  <1>11. ASSUME NEW i \in Rows, ClientDeletes(i) PROVE SummariesStored'
    <2>1. \A k \in Summaries : suRows'[k] # NoRow => suRows[k] # NoRow
      BY <1>1, <1>11 DEF ClientDeletes, SuTypeOK, Rows
    <2>2. QED
      BY <1>6, <1>11, <2>1 DEF ClientDeletes
  <1>12. QED
    BY <1>1, <1>3, <1>4, <1>5, <1>7, <1>8, <1>9, <1>10, <1>11, SuSteps, Zenon

LEMMA SharedStep ==
    ASSUME SuInv, [SuNext]_suVars
    PROVE  ListedTwiceIsShared'
  <1>1. SuTypeOK /\ ListedTwiceIsShared
    BY DEF SuInv
  <1>2. ASSUME \A q \in SuRuns : Unwritten(suRun'[q]) \subseteq Unwritten(suRun[q]), suShared' = suShared
        PROVE  ListedTwiceIsShared'
    BY <1>1, <1>2 DEF ListedTwiceIsShared
  <1>3. CASE Quiet
    BY <1>2, <1>3 DEF Quiet
  <1>4. ASSUME NEW r \in SuRuns, BeginRun(r) PROVE ListedTwiceIsShared'
    <2>1. PICK j \in SuRunning :
            /\ Goes(r, j)
            /\ suShared' = suShared \cup ({e.id : e \in Unwritten(j)} \cap UNION {Listed(q) : q \in SuRuns})
      BY <1>1, <1>4, RunBegun
    <2>2. suRun'[r] = j /\ \A q \in SuRuns \ {r} : suRun'[q] = suRun[q]
      BY <1>1, <2>1, OneRunGoes
    <2>3. \A q \in SuRuns : Listed(q) = {e.id : e \in Unwritten(suRun[q])}
      BY <1>1, PendingListed
    <2>4. ASSUME NEW q \in SuRuns \ {r}, NEW e \in Unwritten(j), NEW f \in Unwritten(suRun[q]), e.id = f.id
          PROVE  e.id \in suShared'
      <3>1. e.id \in Listed(q)
        BY <2>3, <2>4
      <3>2. e.id \in {d.id : d \in Unwritten(j)}
        OBVIOUS
      <3>3. QED
        BY <2>1, <3>1, <3>2
    <2>5. suShared \subseteq suShared'
      BY <2>1
    <2>6. QED
      BY <1>1, <2>2, <2>4, <2>5 DEF ListedTwiceIsShared
  <1>5. ASSUME NEW r \in SuRuns, WriteSummary(r) PROVE ListedTwiceIsShared'
    <2>1. PICK j \in SuRunning : Goes(r, j) /\ Unwritten(j) = Unwritten(suRun[r])
      BY <1>1, <1>5, SummaryWritten
    <2>2. QED
      BY <1>1, <1>2, <1>5, <2>1, GoesOn DEF WriteSummary
  <1>6. ASSUME NEW r \in SuRuns, LookUp(r) PROVE ListedTwiceIsShared'
    <2>1. PICK j \in SuRunning : Goes(r, j) /\ Unwritten(j) = Unwritten(suRun[r])
      BY <1>1, <1>6, LookedUp
    <2>2. QED
      BY <1>1, <1>2, <1>6, <2>1, GoesOn DEF LookUp
  <1>7. ASSUME NEW r \in SuRuns, StoreArchived(r) PROVE ListedTwiceIsShared'
    <2>1. PICK j \in SuRunning \cup {NotRunning} : Goes(r, j) /\ Unwritten(j) \subseteq Unwritten(suRun[r])
      BY <1>1, <1>7, ArchivedStored
    <2>2. QED
      BY <1>1, <1>2, <1>7, <2>1, GoesOn DEF StoreArchived
  <1>8. ASSUME NEW r \in SuRuns, RunFails(r) PROVE ListedTwiceIsShared'
    BY <1>1, <1>2, <1>8, RunFailed DEF RunFails
  <1>9. ASSUME NEW i \in Memories, ClientWrites(i) PROVE ListedTwiceIsShared'
    BY <1>2, <1>9 DEF ClientWrites
  <1>10. ASSUME NEW i \in Rows, ClientDeletes(i) PROVE ListedTwiceIsShared'
    BY <1>2, <1>10 DEF ClientDeletes
  <1>11. QED
    BY <1>1, <1>3, <1>4, <1>5, <1>6, <1>7, <1>8, <1>9, <1>10, SuSteps, Zenon

\* The parts of the invariant that SuTypeStep, StoredStep and SharedStep leave.
SuRest == /\ ShownIsArchived /\ ToShowIsNew /\ ListedIsShown /\ ListedStands /\ FoundIsOld
          /\ ArchivedIsShown /\ ShownOnce /\ OnlyRacingRunsTakeBack /\ ArchivedIsOld

LEMMA RowShape ==
    ASSUME SuTypeOK, NEW i \in Rows
    PROVE  suRows[i] # NoRow => suRows[i].born \in Nat /\ suRows[i].archived \in BOOLEAN
  BY DEF SuTypeOK, SuRow

LEMMA RowWritten ==
    ASSUME SuTypeOK, NEW i \in Rows, NEW row, suRows' = [suRows EXCEPT ![i] = row]
    PROVE  /\ suRows'[i] = row /\ \A k \in Rows \ {i} : suRows'[k] = suRows[k]
           /\ row \in SuRow => row # NoRow
  BY SuNoRowAssumption DEF SuTypeOK

LEMMA QuietKeeps ==
    ASSUME SuInv, Quiet
    PROVE  SuRest'
  <1>1. /\ suClock \in Nat /\ suClock' \in Nat /\ suClock' >= suClock
        /\ UNCHANGED <<suRows, suRun, suNewest, suShown, suShared, suLeft, suRaced>> /\ SuTypeOK /\ MaxAge \in Nat
    BY SummariesAssumption DEF Quiet, SuInv
  <1>2. ListedStands'
    <2>1. \A r \in SuRuns : \A e \in Unwritten(suRun[r]) : suRows[e.id] # NoRow => suRows[e.id].born \in Nat
      BY <1>1, PendingListed, ListedShape, RowShape
    <2>2. QED
      BY <1>1, <2>1 DEF SuInv, ListedStands
  <1>3. FoundIsOld'
    <2>1. \A r \in SuRuns : suRun[r].at = "store" => suRun[r].born \in Nat
      <3>1. \A r \in SuRuns : suRun[r].at = "store" => suRun[r] \in SuRunning
        BY <1>1, PendingListed, NoneListed
      <3>2. QED
        BY <3>1, RunShape
    <2>2. QED
      BY <1>1, <2>1 DEF SuInv, FoundIsOld
  <1>4. ArchivedIsOld'
    BY <1>1, RowShape DEF SuInv, ArchivedIsOld
  <1>5. (ShownIsArchived /\ ToShowIsNew /\ ListedIsShown)'
    BY <1>1 DEF SuInv, ShownIsArchived, ToShowIsNew, ListedIsShown
  <1>6. (ArchivedIsShown /\ ShownOnce /\ OnlyRacingRunsTakeBack)'
    BY <1>1 DEF SuInv, ArchivedIsShown, ShownOnce, OnlyRacingRunsTakeBack
  <1>7. QED
    BY <1>2, <1>3, <1>4, <1>5, <1>6 DEF SuRest

LEMMA BeginKeeps ==
    ASSUME SuInv, NEW r \in SuRuns, BeginRun(r)
    PROVE  SuRest'
  <1>1. SuTypeOK
    BY DEF SuInv
  <1>2. PICK j \in SuRunning :
          /\ Goes(r, j) /\ j.at = "summary"
          /\ \A e \in Unwritten(j) : e.id \in Candidates /\ e.row = suRows[e.id]
          /\ suShared' = suShared \cup ({e.id : e \in Unwritten(j)} \cap UNION {Listed(q) : q \in SuRuns})
    BY <1>1, RunBegun
  <1>3. suRun'[r] = j /\ \A q \in SuRuns \ {r} : suRun'[q] = suRun[q]
    BY <1>1, <1>2, OneRunGoes
  <1>4. /\ UNCHANGED <<suClock, suRows, suNewest, suShown, suLeft, suRaced>> /\ suRun[r].at = "none"
        /\ suShared \subseteq suShared'
    BY <1>2, NoneListed DEF BeginRun
  <1>5. \A e \in Unwritten(j) : /\ e.id \in Rows /\ suRows[e.id] # NoRow /\ ~suRows[e.id].archived
                              /\ suRows[e.id].born <= suClock - MaxAge /\ e.row = suRows[e.id]
    BY <1>2 DEF Candidates
  <1>6. ShownIsArchived'
    <2>1. \A q \in SuRuns : Past(suRun[q]) => suRun'[q] = suRun[q]
      BY <1>3, <1>4 DEF Past
    <2>2. QED
      BY <1>4, <2>1, Zenon DEF SuInv, ShownIsArchived
  <1>7. ToShowIsNew'
    <2>1. ASSUME NEW e \in Unwritten(j), NEW a \in suShown, a[2] = e.id, a[3] = e.row.content
          PROVE  e.id \in suShared' \cup suLeft
      <3>1. \/ e.id \in suShared \cup suLeft
            \/ \E q \in SuRuns : \E f \in Unwritten(suRun[q]) : f.id = e.id
        BY <1>5, <2>1 DEF SuInv, ShownIsArchived
      <3>2. ASSUME NEW q \in SuRuns, NEW f \in Unwritten(suRun[q]), f.id = e.id
            PROVE  e.id \in suShared'
        <4>1. e.id \in Listed(q)
          BY <1>1, <3>2, PendingListed
        <4>2. e.id \in {d.id : d \in Unwritten(j)}
          OBVIOUS
        <4>3. QED
          BY <1>2, <4>1, <4>2
      <3>3. QED
        BY <1>4, <3>1, <3>2
    <2>2. \A q \in SuRuns \ {r} : suRun'[q].at = "summary" =>
            \A e \in Unwritten(suRun'[q]), a \in suShown :
              a[2] = e.id /\ a[3] = e.row.content => e.id \in suShared' \cup suLeft
      BY <1>3, <1>4 DEF SuInv, ToShowIsNew
    <2>3. QED
      BY <1>3, <1>4, <2>1, <2>2 DEF ToShowIsNew
  <1>8. ListedIsShown'
    BY <1>2, <1>3, <1>4 DEF SuInv, ListedIsShown, Past
  <1>9. ListedStands'
    <2>1. \A e \in Unwritten(j) : e.id \notin suRaced /\ e.id \in Memories => e.row.content = suNewest[e.id]
      BY <1>5 DEF SuInv, OnlyRacingRunsTakeBack
    <2>2. QED
      BY <1>3, <1>4, <1>5, <2>1 DEF SuInv, ListedStands
  <1>10. FoundIsOld'
    BY <1>2, <1>3, <1>4 DEF SuInv, FoundIsOld
  <1>11. (ArchivedIsShown /\ ShownOnce /\ OnlyRacingRunsTakeBack /\ ArchivedIsOld)'
    BY <1>4 DEF SuInv, ArchivedIsShown, ShownOnce, OnlyRacingRunsTakeBack, ArchivedIsOld
  <1>12. QED
    BY <1>6, <1>7, <1>8, <1>9, <1>10, <1>11 DEF SuRest

LEMMA SummaryKeeps ==
    ASSUME SuInv, NEW r \in SuRuns, WriteSummary(r)
    PROVE  SuRest'
  <1>1. SuTypeOK
    BY DEF SuInv
  <1>2. PICK j \in SuRunning, s \in Summaries :
          /\ Goes(r, j) /\ j.at = "lookup" /\ Unwritten(j) = Unwritten(suRun[r])
          /\ suRun[r].at = "summary"
          /\ suRows[s] = NoRow /\ ~Summarised(s)
          /\ suRows' = [suRows EXCEPT ![s] = [content |-> 0, born |-> suRun[r].now, archived |-> FALSE]]
          /\ suShown' = suShown \cup {<<s, e.id, e.row.content>> : e \in Unwritten(suRun[r])}
    BY <1>1, SummaryWritten
  <1>3. suRun'[r] = j /\ \A q \in SuRuns \ {r} : suRun'[q] = suRun[q]
    BY <1>1, <1>2, OneRunGoes
  <1>4. \A q \in SuRuns : Unwritten(suRun'[q]) = Unwritten(suRun[q])
    BY <1>2, <1>3
  <1>5. /\ UNCHANGED <<suClock, suNewest, suShared, suLeft, suRaced>>
        /\ suShown \subseteq suShown'
        /\ s \in Rows /\ s \notin Memories
    BY <1>2, SummariesAssumption DEF WriteSummary, configVars, Rows
  <1>6. /\ ~suRows'[s].archived
        /\ \A i \in Rows \ {s} : suRows'[i] = suRows[i]
    <2> DEFINE row == [content |-> 0, born |-> suRun[r].now, archived |-> FALSE]
    <2>1. suRows' = [suRows EXCEPT ![s] = row] /\ ~row.archived
      BY <1>2
    <2> HIDE DEF row
    <2>2. QED
      BY <1>1, <1>5, <2>1, RowWritten
  <1>7. \A q \in SuRuns : \A e \in Unwritten(suRun[q]) : e.id \in Rows \ {s}
    BY <1>1, <1>2, PendingListed, ListedShape DEF SuInv, SummariesStored
  <1>8. \A a \in suShown : a[2] \in Rows \ {s}
    BY <1>1, <1>2 DEF SuInv, SummariesStored, SuTypeOK
  <1>9. ASSUME NEW a \in suShown'
        PROVE  \/ a \in suShown
               \/ \E e \in Unwritten(suRun[r]) : a = <<s, e.id, e.row.content>> /\ a[2] = e.id /\ a[3] = e.row.content
    BY <1>2
  <1>10. ShownIsArchived'
    <2>1. ASSUME NEW a \in suShown, suRows'[a[2]] # NoRow, ~suRows'[a[2]].archived, suRows'[a[2]].content = a[3]
          PROVE  \/ a[2] \in suShared \cup suLeft
                 \/ \E q \in SuRuns : Past(suRun'[q]) /\ \E e \in Unwritten(suRun'[q]) : e.id = a[2]
      <3>1. suRows'[a[2]] = suRows[a[2]]
        BY <1>6, <1>8
      <3>2. \/ a[2] \in suShared \cup suLeft
            \/ \E q \in SuRuns : Past(suRun[q]) /\ \E e \in Unwritten(suRun[q]) : e.id = a[2]
        BY <2>1, <3>1 DEF SuInv, ShownIsArchived
      <3>3. \A q \in SuRuns : Past(suRun[q]) => Past(suRun'[q])
        BY <1>2, <1>3 DEF Past
      <3>4. QED
        BY <1>4, <3>2, <3>3, Zenon
    <2>2. ASSUME NEW a \in suShown', NEW e \in Unwritten(suRun[r]), a[2] = e.id
          PROVE  \E q \in SuRuns : Past(suRun'[q]) /\ \E f \in Unwritten(suRun'[q]) : f.id = a[2]
      <3>1. Past(suRun'[r])
        BY <1>2, <1>3 DEF Past
      <3>2. QED
        BY <1>4, <2>2, <3>1
    <2>3. QED
      BY <1>5, <1>9, <2>1, <2>2 DEF ShownIsArchived
  <1>11. ToShowIsNew'
    <2>1. ASSUME NEW q \in SuRuns, suRun'[q].at = "summary", NEW e \in Unwritten(suRun'[q]), NEW a \in suShown',
                 a[2] = e.id, a[3] = e.row.content
          PROVE  e.id \in suShared \cup suLeft
      <3>1. q # r /\ suRun'[q] = suRun[q] /\ e \in Unwritten(suRun[q])
        BY <1>2, <1>3, <2>1
      <3>2. CASE a \in suShown
        BY <2>1, <3>1, <3>2 DEF SuInv, ToShowIsNew
      <3>3. ASSUME NEW f \in Unwritten(suRun[r]), a[2] = f.id PROVE e.id \in suShared
        BY <2>1, <3>1, <3>3 DEF SuInv, ListedTwiceIsShared
      <3>4. QED
        BY <1>9, <3>2, <3>3
    <2>2. QED
      BY <1>5, <2>1 DEF ToShowIsNew
  <1>12. ListedIsShown'
    <2>1. \A e \in Unwritten(suRun[r]) : <<s, e.id, e.row.content>> \in suShown'
      BY <1>2
    <2>2. ASSUME NEW q \in SuRuns \ {r}, Past(suRun'[q]), NEW e \in Unwritten(suRun'[q])
          PROVE  \E t \in Summaries : <<t, e.id, e.row.content>> \in suShown'
      <3>1. \E t \in Summaries : <<t, e.id, e.row.content>> \in suShown
        BY <1>3, <2>2 DEF SuInv, ListedIsShown
      <3>2. QED
        BY <1>5, <3>1
    <2>3. QED
      BY <1>4, <2>1, <2>2 DEF ListedIsShown
  <1>13. ListedStands'
    <2>1. \A q \in SuRuns : \A e \in Unwritten(suRun[q]) : suRows'[e.id] = suRows[e.id]
      BY <1>6, <1>7
    <2>2. QED
      BY <1>4, <1>5, <2>1 DEF SuInv, ListedStands
  <1>14. FoundIsOld'
    BY <1>2, <1>3, <1>5 DEF SuInv, FoundIsOld
  <1>15. ArchivedIsShown'
    BY <1>5, <1>6 DEF SuInv, ArchivedIsShown
  <1>16. ShownOnce'
    <2>1. ASSUME NEW a \in suShown', NEW b \in suShown, a # b, a[2] = b[2], a[3] = b[3]
          PROVE  a[2] \in suShared \cup suLeft
      <3>1. CASE a \in suShown
        BY <2>1, <3>1 DEF SuInv, ShownOnce
      <3>2. ASSUME NEW e \in Unwritten(suRun[r]), a[2] = e.id, a[3] = e.row.content
            PROVE  a[2] \in suShared \cup suLeft
        BY <1>2, <2>1, <3>2 DEF SuInv, ToShowIsNew
      <3>3. QED
        BY <1>9, <3>1, <3>2
    <2>2. ASSUME NEW a \in suShown', NEW b \in suShown', a # b, a[2] = b[2], a[3] = b[3],
                 a \notin suShown, b \notin suShown
          PROVE  FALSE
      <3>1. PICK e \in Unwritten(suRun[r]) : a = <<s, e.id, e.row.content>> /\ a[2] = e.id /\ a[3] = e.row.content
        BY <1>9, <2>2
      <3>2. PICK f \in Unwritten(suRun[r]) : b = <<s, f.id, f.row.content>> /\ b[2] = f.id /\ b[3] = f.row.content
        BY <1>9, <2>2
      <3>3. QED
        BY <2>2, <3>1, <3>2
    <2>3. \A a, b \in suShown' : a # b /\ a[2] = b[2] /\ a[3] = b[3] => a[2] \in suShared \cup suLeft
      BY <2>1, <2>2
    <2>4. QED
      BY <1>5, <2>3 DEF ShownOnce
  <1>17. OnlyRacingRunsTakeBack'
    <2>1. \A i \in Memories : suRows'[i] = suRows[i]
      BY <1>5, <1>6 DEF Rows
    <2>2. QED
      BY <1>5, <2>1 DEF SuInv, OnlyRacingRunsTakeBack
  <1>18. ArchivedIsOld'
    BY <1>5, <1>6 DEF SuInv, ArchivedIsOld
  <1>19. QED
    BY <1>10, <1>11, <1>12, <1>13, <1>14, <1>15, <1>16, <1>17, <1>18 DEF SuRest

LEMMA LookUpKeeps ==
    ASSUME SuInv, NEW r \in SuRuns, LookUp(r)
    PROVE  SuRest'
  <1>1. SuTypeOK
    BY DEF SuInv
  <1>2. PICK j \in SuRunning, e \in Unwritten(suRun[r]) :
          /\ Goes(r, j) /\ j.at = "store" /\ Unwritten(j) = Unwritten(suRun[r])
          /\ suRun[r].at = "lookup" /\ e = j.list[j.next]
          /\ j.born = IF suRows[e.id] = NoRow THEN suRun[r].now ELSE suRows[e.id].born
    BY <1>1, LookedUp
  <1>3. suRun'[r] = j /\ \A q \in SuRuns \ {r} : suRun'[q] = suRun[q]
    BY <1>1, <1>2, OneRunGoes
  <1>4. \A q \in SuRuns : /\ Unwritten(suRun'[q]) = Unwritten(suRun[q]) /\ (Past(suRun'[q]) <=> Past(suRun[q]))
                          /\ suRun'[q].at = "summary" => suRun[q].at = "summary"
    BY <1>2, <1>3 DEF Past
  <1>5. UNCHANGED <<suClock, suRows, suNewest, suShown, suShared, suLeft, suRaced>>
    BY DEF LookUp, configVars
  <1>6. (ShownIsArchived /\ ToShowIsNew /\ ListedIsShown /\ ListedStands)'
    <2>1. ShownIsArchived'
      BY <1>4, <1>5, Zenon DEF SuInv, ShownIsArchived
    <2>2. ToShowIsNew'
      BY <1>4, <1>5 DEF SuInv, ToShowIsNew
    <2>3. ListedIsShown'
      BY <1>4, <1>5 DEF SuInv, ListedIsShown
    <2>4. ListedStands'
      BY <1>4, <1>5 DEF SuInv, ListedStands
    <2>5. QED
      BY <2>1, <2>2, <2>3, <2>4
  <1>7. FoundIsOld'
    <2>1. e.id \notin suRaced => j.born <= suClock - MaxAge
      BY <1>2 DEF SuInv, ListedStands
    <2>2. QED
      BY <1>2, <1>3, <1>5, <2>1 DEF SuInv, FoundIsOld
  <1>8. (ArchivedIsShown /\ ShownOnce /\ OnlyRacingRunsTakeBack /\ ArchivedIsOld)'
    BY <1>5 DEF SuInv, ArchivedIsShown, ShownOnce, OnlyRacingRunsTakeBack, ArchivedIsOld
  <1>9. QED
    BY <1>6, <1>7, <1>8 DEF SuRest

LEMMA ArchivedKeeps ==
    ASSUME SuInv, NEW r \in SuRuns, StoreArchived(r)
    PROVE  SuRest'
  <1>1. SuTypeOK
    BY DEF SuInv
  <1>2. PICK j \in SuRunning \cup {NotRunning}, e \in Unwritten(suRun[r]) :
          /\ Goes(r, j) /\ j.at \in {"lookup", "none"}
          /\ Unwritten(j) \subseteq Unwritten(suRun[r])
          /\ \A f \in Unwritten(suRun[r]) : f # e => f \in Unwritten(j)
          /\ suRun[r].at = "store" /\ e = suRun[r].list[suRun[r].next]
          /\ suRun[r].born \in Nat
          /\ suRows' = [suRows EXCEPT ![e.id] = [content |-> e.row.content, born |-> suRun[r].born, archived |-> TRUE]]
    BY <1>1, ArchivedStored
  <1>3. /\ suRun'[r] = j /\ \A q \in SuRuns \ {r} : suRun'[q] = suRun[q]
        /\ \A q \in SuRuns : Unwritten(suRun'[q]) \subseteq Unwritten(suRun[q])
    BY <1>1, <1>2, GoesOn
  <1>4. UNCHANGED <<suClock, suNewest, suShown, suShared, suLeft, suRaced>>
    BY DEF StoreArchived, configVars
  <1>5. e.id \in Rows /\ e.row.content \in Nat
    BY <1>1, PendingListed, ListedShape DEF SuRow
  <1> DEFINE row == [content |-> e.row.content, born |-> suRun[r].born, archived |-> TRUE]
  <1>6. /\ suRows'[e.id] = row /\ row # NoRow /\ row.archived = TRUE
        /\ row.content = e.row.content /\ row.born = suRun[r].born
        /\ \A i \in Rows \ {e.id} : suRows'[i] = suRows[i]
    <2>1. row \in SuRow /\ row.archived = TRUE /\ row.content = e.row.content /\ row.born = suRun[r].born
      BY <1>2, <1>5 DEF SuRow
    <2>2. suRows' = [suRows EXCEPT ![e.id] = row]
      BY <1>2
    <2> HIDE DEF row
    <2>3. QED
      BY <1>1, <1>5, <2>1, <2>2, RowWritten
  <1> HIDE DEF row
  <1>7. e.id \notin suRaced => row.born <= suClock - MaxAge
    BY <1>2, <1>6 DEF SuInv, FoundIsOld
  <1>8. ShownIsArchived'
    <2>1. ASSUME NEW a \in suShown, suRows'[a[2]] # NoRow, ~suRows'[a[2]].archived, suRows'[a[2]].content = a[3]
          PROVE  \/ a[2] \in suShared \cup suLeft
                 \/ \E q \in SuRuns : Past(suRun'[q]) /\ \E f \in Unwritten(suRun'[q]) : f.id = a[2]
      <3>1. a[2] \in Rows /\ a[2] # e.id
        BY <1>1, <1>6, <2>1 DEF SuTypeOK
      <3>2. \/ a[2] \in suShared \cup suLeft
            \/ \E q \in SuRuns : Past(suRun[q]) /\ \E f \in Unwritten(suRun[q]) : f.id = a[2]
        BY <1>6, <2>1, <3>1 DEF SuInv, ShownIsArchived
      <3>3. ASSUME NEW q \in SuRuns, Past(suRun[q]), NEW f \in Unwritten(suRun[q]), f.id = a[2]
            PROVE  Past(suRun'[q]) /\ f \in Unwritten(suRun'[q])
        <4>1. CASE q # r
          BY <1>3, <3>3, <4>1
        <4>2. CASE q = r
          <5>1. f \in Unwritten(j)
            BY <1>2, <3>1, <3>3, <4>2
          <5>2. j # NotRunning
            BY <5>1, NoneListed
          <5>3. j.at = "lookup"
            BY <1>2, <5>2, RunShape
          <5>4. QED
            BY <1>3, <4>2, <5>1, <5>3 DEF Past
        <4>3. QED
          BY <4>1, <4>2
      <3>4. QED
        BY <3>2, <3>3
    <2>2. QED
      BY <1>4, <2>1 DEF ShownIsArchived
  <1>9. ToShowIsNew'
    <2>1. \A q \in SuRuns : suRun'[q].at = "summary" => suRun'[q] = suRun[q]
      BY <1>2, <1>3
    <2>2. QED
      BY <1>4, <2>1 DEF SuInv, ToShowIsNew
  <1>10. ListedIsShown'
    <2>1. \A q \in SuRuns : Past(suRun'[q]) => Past(suRun[q])
      BY <1>2, <1>3 DEF Past
    <2>2. QED
      BY <1>3, <1>4, <2>1 DEF SuInv, ListedIsShown
  <1>11. ListedStands'
    <2>1. ASSUME NEW q \in SuRuns, NEW f \in Unwritten(suRun'[q]), f.id \notin suRaced
          PROVE  /\ suRows'[f.id] # NoRow /\ suRows'[f.id].born <= suClock - MaxAge
                 /\ f.id \in Memories => f.row.content = suNewest[f.id]
      <3>1. /\ f \in Unwritten(suRun[q]) /\ f.id \in Rows
        BY <1>1, <1>3, PendingListed, ListedShape
      <3>2. /\ suRows[f.id] # NoRow /\ suRows[f.id].born <= suClock - MaxAge
            /\ f.id \in Memories => f.row.content = suNewest[f.id]
        BY <2>1, <3>1 DEF SuInv, ListedStands
      <3>3. QED
        BY <1>6, <1>7, <2>1, <3>1, <3>2
    <2>2. QED
      BY <1>4, <2>1 DEF ListedStands
  <1>12. FoundIsOld'
    <2>1. \A q \in SuRuns : suRun'[q].at = "store" => suRun'[q] = suRun[q]
      BY <1>2, <1>3
    <2>2. QED
      BY <1>4, <2>1 DEF SuInv, FoundIsOld
  <1>13. ArchivedIsShown'
    <2>1. \E s \in Summaries : <<s, e.id, e.row.content>> \in suShown
      BY <1>2 DEF SuInv, ListedIsShown, Past
    <2>2. QED
      BY <1>4, <1>5, <1>6, <2>1 DEF SuInv, ArchivedIsShown
  <1>14. OnlyRacingRunsTakeBack'
    <2>1. e.id \in Memories /\ e.id \notin suRaced => suNewest[e.id] # 0 /\ row.content = suNewest[e.id]
      BY <1>6 DEF SuInv, ListedStands, OnlyRacingRunsTakeBack
    <2>2. Memories \subseteq Rows
      BY DEF Rows
    <2>3. QED
      BY <1>4, <1>6, <2>1, <2>2 DEF SuInv, OnlyRacingRunsTakeBack
  <1>15. (ShownOnce /\ ArchivedIsOld)'
    BY <1>4, <1>6, <1>7 DEF SuInv, ShownOnce, ArchivedIsOld
  <1>16. QED
    BY <1>8, <1>9, <1>10, <1>11, <1>12, <1>13, <1>14, <1>15 DEF SuRest

LEMMA FailKeeps ==
    ASSUME SuInv, NEW r \in SuRuns, RunFails(r)
    PROVE  SuRest'
  <1>1. SuTypeOK
    BY DEF SuInv
  <1>2. /\ suRun'[r] = NotRunning /\ \A q \in SuRuns \ {r} : suRun'[q] = suRun[q]
        /\ \A q \in SuRuns : Unwritten(suRun'[q]) \subseteq Unwritten(suRun[q])
        /\ suLeft' = IF suRun[r].at = "summary" THEN suLeft ELSE suLeft \cup {e.id : e \in Unwritten(suRun[r])}
    BY <1>1, RunFailed
  <1>3. UNCHANGED <<suClock, suRows, suNewest, suShown, suShared, suRaced>> /\ suLeft \subseteq suLeft'
    BY <1>2 DEF RunFails, configVars
  <1>4. \A q \in SuRuns : suRun'[q].at # "none" => suRun'[q] = suRun[q]
    BY <1>2, NoneListed
  <1>5. ShownIsArchived'
    <2>1. ASSUME NEW a \in suShown, NEW q \in SuRuns, Past(suRun[q]), NEW e \in Unwritten(suRun[q]), e.id = a[2]
          PROVE  \/ a[2] \in suLeft'
                 \/ Past(suRun'[q]) /\ e \in Unwritten(suRun'[q])
      <3>1. CASE q = r
        BY <1>2, <2>1, <3>1 DEF Past
      <3>2. CASE q # r
        BY <1>2, <2>1, <3>2
      <3>3. QED
        BY <3>1, <3>2
    <2>2. QED
      BY <1>3, <2>1 DEF SuInv, ShownIsArchived
  <1>6. (ToShowIsNew /\ ListedIsShown /\ FoundIsOld)'
    <2>1. ToShowIsNew'
      BY <1>3, <1>4 DEF SuInv, ToShowIsNew
    <2>2. ListedIsShown'
      BY <1>3, <1>4 DEF SuInv, ListedIsShown, Past
    <2>3. FoundIsOld'
      BY <1>3, <1>4 DEF SuInv, FoundIsOld
    <2>4. QED
      BY <2>1, <2>2, <2>3
  <1>7. ListedStands'
    BY <1>2, <1>3 DEF SuInv, ListedStands
  <1>8. (ArchivedIsShown /\ ShownOnce /\ OnlyRacingRunsTakeBack /\ ArchivedIsOld)'
    BY <1>3 DEF SuInv, ArchivedIsShown, ShownOnce, OnlyRacingRunsTakeBack, ArchivedIsOld
  <1>9. QED
    BY <1>5, <1>6, <1>7, <1>8 DEF SuRest

\* What clients do to one row, which from then on no run has listed, or races.
LEMMA ClientKeeps ==
    ASSUME SuInv, NEW i \in Rows, NEW row \in SuRow \cup {NoRow}, suRows' = [suRows EXCEPT ![i] = row],
           row # NoRow => ~row.archived /\ \A a \in suShown : a[3] # row.content,
           \A k \in Memories \ {i} : suNewest'[k] = suNewest[k],
           i \in Memories => IF suNewest'[i] = 0 THEN row = NoRow ELSE row # NoRow /\ row.content = suNewest'[i],
           suRaced' = Raced(i), UNCHANGED <<suClock, suRun, suShown, suShared, suLeft>>
    PROVE  SuRest'
  <1>1. SuTypeOK
    BY DEF SuInv
  <1>2. suRows'[i] = row /\ \A k \in Rows \ {i} : suRows'[k] = suRows[k]
    BY <1>1, RowWritten
  <1>3. /\ suRaced \ {i} \subseteq suRaced'
        /\ i \notin suRaced' => \A r \in SuRuns : \A e \in Unwritten(suRun[r]) : e.id # i
    BY <1>1, RacedIsListed
  <1>4. \A r \in SuRuns : \A e \in Unwritten(suRun[r]) : e.id \in Rows /\ (e.id \notin suRaced' => e.id # i /\ e.id \notin suRaced)
    BY <1>1, <1>3, PendingListed, ListedShape
  <1>5. ShownIsArchived'
    <2>1. \A a \in suShown : a[2] \in Rows
      BY <1>1 DEF SuTypeOK
    <2>2. \A a \in suShown : suRows'[a[2]] # NoRow /\ ~suRows'[a[2]].archived /\ suRows'[a[2]].content = a[3] =>
            suRows'[a[2]] = suRows[a[2]]
      BY <1>2, <2>1
    <2>3. QED
      BY <2>2 DEF SuInv, ShownIsArchived
  <1>6. (ToShowIsNew /\ ListedIsShown /\ ShownOnce)'
    BY DEF SuInv, ToShowIsNew, ListedIsShown, ShownOnce
  <1>7. ListedStands'
    <2>1. \A r \in SuRuns : \A e \in Unwritten(suRun[r]) : e.id \notin suRaced' =>
            /\ suRows'[e.id] = suRows[e.id] /\ (e.id \in Memories => suNewest'[e.id] = suNewest[e.id])
            /\ e.id \notin suRaced
      BY <1>2, <1>4
    <2>2. QED
      BY <2>1 DEF SuInv, ListedStands
  <1>8. FoundIsOld'
    <2>1. \A r \in SuRuns : suRun[r].at = "store" => suRun[r].list[suRun[r].next] \in Unwritten(suRun[r])
      BY <1>1, PendingListed
    <2>2. QED
      BY <1>4, <2>1 DEF SuInv, FoundIsOld
  <1>9. ArchivedIsShown'
    <2>1. \A k \in Rows : suRows'[k] # NoRow /\ suRows'[k].archived => suRows'[k] = suRows[k]
      BY <1>2
    <2>2. QED
      BY <2>1 DEF SuInv, ArchivedIsShown
  <1>10. OnlyRacingRunsTakeBack'
    <2>1. Memories \subseteq Rows
      BY DEF Rows
    <2>2. \A k \in Memories \ {i} : k \notin suRaced' => k \notin suRaced
      BY <1>3
    <2>3. QED
      BY <1>2, <2>1, <2>2 DEF SuInv, OnlyRacingRunsTakeBack
  <1>11. ArchivedIsOld'
    BY <1>2, <1>3 DEF SuInv, ArchivedIsOld
  <1>12. QED
    BY <1>5, <1>6, <1>7, <1>8, <1>9, <1>10, <1>11 DEF SuRest

LEMMA SuInvStep ==
    ASSUME SuInv, [SuNext]_suVars
    PROVE  SuInv'
  <1>1. SuTypeOK /\ OneInterval
    BY DEF SuInv
  <1>2. ASSUME NEW i \in Memories, ClientWrites(i) PROVE SuRest'
    <2>1. PICK content \in Nat \ {0}, row \in SuRow :
             /\ \A a \in suShown : a[3] # content
             /\ row.content = content /\ ~row.archived
             /\ suRows' = [suRows EXCEPT ![i] = row]
             /\ suNewest' = [suNewest EXCEPT ![i] = content]
      BY <1>1, <1>2, ClientWrote
    <2>2. i \in Rows /\ row # NoRow /\ suNewest'[i] = content /\ \A k \in Memories \ {i} : suNewest'[k] = suNewest[k]
      BY <1>1, <2>1, SuNoRowAssumption DEF Rows, SuTypeOK
    <2>3. suRaced' = Raced(i) /\ UNCHANGED <<suClock, suRun, suShown, suShared, suLeft>>
      BY <1>2 DEF ClientWrites
    <2>4. QED
      BY <2>1, <2>2, <2>3, ClientKeeps
  <1>3. ASSUME NEW i \in Rows, ClientDeletes(i) PROVE SuRest'
    <2>1. /\ suRows' = [suRows EXCEPT ![i] = NoRow]
          /\ suRaced' = Raced(i) /\ UNCHANGED <<suClock, suRun, suShown, suShared, suLeft>>
      BY <1>3 DEF ClientDeletes
    <2>2. /\ \A k \in Memories \ {i} : suNewest'[k] = suNewest[k]
          /\ i \in Memories => suNewest'[i] = 0
      BY <1>1, <1>3 DEF ClientDeletes, SuTypeOK
    <2>3. QED
      BY <2>1, <2>2, ClientKeeps
  <1>4. ASSUME NEW r \in SuRuns, BeginRun(r) \/ WriteSummary(r) \/ LookUp(r) \/ StoreArchived(r) \/ RunFails(r)
        PROVE  SuRest'
    BY <1>4, BeginKeeps, SummaryKeeps, LookUpKeeps, ArchivedKeeps, FailKeeps
  <1>5. SuRest'
    BY <1>1, <1>2, <1>3, <1>4, QuietKeeps, SuSteps, Zenon
  <1>6. (SuTypeOK /\ OneInterval /\ SummariesStored /\ ListedTwiceIsShared)'
    BY <1>1, SuTypeStep, StoredStep, SharedStep
  <1>7. QED
    BY <1>5, <1>6 DEF SuInv, SuRest

LEMMA SuInvInit == SuInit => SuInv
  <1> SUFFICES ASSUME SuInit PROVE SuInv
    OBVIOUS
  <1>1. /\ \A i \in Rows : suRows[i] = NoRow
        /\ \A r \in SuRuns : suRun[r] = NotRunning /\ Unwritten(suRun[r]) = {} /\ suRun[r].at = "none"
        /\ \A i \in Memories : suNewest[i] = 0
        /\ suShown = {} /\ suClock = 0
    BY NoneListed DEF SuInit
  <1>2. {i \in Rows : suRows[i] # NoRow} = {}
    BY <1>1
  <1>3. SuTypeOK /\ OneInterval
    BY <1>1, <1>2, FS_EmptySet DEF SuInit, SuTypeOK, OneInterval
  <1>4. SummariesStored /\ ListedTwiceIsShared /\ ShownIsArchived /\ ToShowIsNew
    BY <1>1 DEF SummariesStored, ListedTwiceIsShared, ShownIsArchived, ToShowIsNew, Rows
  <1>5. ListedIsShown /\ ListedStands /\ FoundIsOld
    BY <1>1 DEF ListedIsShown, ListedStands, FoundIsOld
  <1>6. ArchivedIsShown /\ ShownOnce /\ OnlyRacingRunsTakeBack /\ ArchivedIsOld
    BY <1>1 DEF ArchivedIsShown, ShownOnce, OnlyRacingRunsTakeBack, ArchivedIsOld, Rows
  <1>7. QED
    BY <1>3, <1>4, <1>5, <1>6 DEF SuInv

\* Runs of the summarisation hold what they listed in the shapes the code gives it.
THEOREM SummariesTypeCorrect == SuSpec => []SuTypeOK
  <1>1. SuInv => SuTypeOK
    BY DEF SuInv
  <1>2. QED
    BY <1>1, SuInvInit, SuInvStep, PTL DEF SuSpec

\* What is archived was shown as it is, once unless runs met or failed, and is
\* taken back from clients only by runs that had it listed when they wrote.
THEOREM SummariesKept == SuSpec => []SummariesSound
  <1>1. SuInv => SummariesSound
    BY DEF SuInv, SummariesSound
  <1>2. QED
    BY <1>1, SuInvInit, SuInvStep, PTL DEF SuSpec


-----------------------------------------------------------------------------
(* The stores and the summaries side by side.                              *)

mcVars == <<vars, smVars, suVars, store>>

\* Whose record a write replaces matters only where the index is claimed to hold.
OwnRecordsAlone == store = "one call" => OwnRecordsOnly

\* The bounds of an instance: one call at a time, or writes to a project.
BoundsInv == /\ store = "one call" => OneCallAtATime /\ IndexInv
             /\ store = "overlapping" =>
                  /\ OnlyReviewed
                  /\ \A i \in Ids : records[i] # None => records[i].place.scope = "project"

LEMMA SideBySide ==
    [MCNext]_mcVars => [Next]_vars /\ [SmNext]_smVars /\ [SuNext]_suVars /\ UNCHANGED store
  BY Zenon DEF MCNext, mcVars

LEMMA BoundsKeep ==
    ASSUME StoreInv, BoundsInv, OwnRecordsAlone, [MCNext]_mcVars
    PROVE  BoundsInv'
  <1>1. [Next]_vars /\ store' = store
    BY SideBySide
  <1>2. CASE store = "one call"
    <2>1. OneCallAtATime'
      <3>1. CASE UNCHANGED vars
        BY <1>2, <3>1 DEF BoundsInv, OneCallAtATime, vars
      <3>2. CASE MCNext /\ ~UNCHANGED vars
        BY <1>2, <3>2 DEF MCNext
      <3> QED
        BY <3>1, <3>2 DEF mcVars
    <2>2. IndexInv'
      BY <1>1, <1>2, IndexStepKeeps DEF BoundsInv, OwnRecordsAlone
    <2> QED
      BY <1>1, <1>2, <2>1, <2>2 DEF BoundsInv
  <1>3. CASE store = "overlapping"
    <2>1. CASE UNCHANGED vars
      <3>1. OnlyReviewed'
        BY <1>3, <2>1 DEF BoundsInv, OnlyReviewed, Writing, Reviewed, vars
      <3> QED
        BY <1>1, <1>3, <2>1, <3>1 DEF BoundsInv, vars
    <2>2. CASE MCNext /\ ~UNCHANGED vars
      <3>1. OnlyReviewed' /\ Next
        BY <1>3, <2>2 DEF MCNext
      <3>2. \A w \in Calls : Writing(w) => call[w].input.scope = "project"
        <4>1. \A w \in Calls : Writing(w) => call[w].input # None
          BY CallKinds, NoneAssumption DEF StoreInv, Writing, Write
        <4> QED
          BY <1>3, <4>1 DEF BoundsInv, OnlyReviewed, Reviewed
      <3>3. ASSUME NEW i \in Ids, records'[i] # None PROVE records'[i].place.scope = "project"
        BY <1>3, <3>1, <3>2, <3>3, RecordsStored DEF BoundsInv
      <3> QED
        BY <1>1, <1>3, <3>1, <3>3 DEF BoundsInv
    <2> QED
      BY <2>1, <2>2 DEF mcVars
  <1>4. CASE store \notin {"one call", "overlapping"}
    BY <1>1, <1>4 DEF BoundsInv
  <1> QED
    BY <1>2, <1>3, <1>4

LEMMA BoundsStart == ASSUME MCInit PROVE BoundsInv
  <1>1. Init /\ \A w \in Calls : call[w] = None
    BY DEF MCInit, Init
  <1>2. OneCallAtATime /\ \A i \in Ids : records[i] = None
    BY <1>1 DEF OneCallAtATime, Init
  <1>3. OnlyReviewed
    BY <1>1 DEF OnlyReviewed, Init, Reviewed, Writing
  <1> QED
    BY <1>1, <1>2, <1>3, StoreStarts DEF BoundsInv

\* No write moves a record to another scope, where calls do not overlap or all
\* write to a project.
LEMMA NoneMovesScope ==
    ASSUME StoreInv, BoundsInv, MCNext, ~UNCHANGED vars,
           NEW i \in Ids, records[i] # None, records'[i] # None
    PROVE  records'[i].place.scope = records[i].place.scope
  <1>1. Next /\ store \in {"one call", "overlapping"} /\ store' = store
        /\ (store = "overlapping" => OnlyReviewed')
    BY DEF MCNext
  <1>2. CASE records'[i] = records[i]
    BY <1>2
  <1>3. ASSUME NEW w \in Calls, Store(w), Writing(w), i = call[w].id,
               records'[i].place.scope = call[w].input.scope
        PROVE  records'[i].place.scope = records[i].place.scope
    <2>1. CASE store = "one call"
      <3>1. Stands(call[w]) /\ call[w].does = "write"
        BY <1>3, <2>1 DEF BoundsInv, IndexInv, FoundStands, Writing
      <3> QED
        BY <1>3, <3>1 DEF Stands
    <2>2. CASE store = "overlapping"
      <3>1. call[w].input # None
        BY <1>3, CallKinds, NoneAssumption DEF StoreInv, Writing, Write
      <3> QED
        BY <1>3, <2>2, <3>1 DEF BoundsInv, OnlyReviewed, Reviewed
    <2> QED
      BY <1>1, <2>1, <2>2
  <1> QED
    BY <1>1, <1>2, <1>3, RecordsStored

\* In every instance of the stores and the summaries: the maps of the store in
\* memory are typed, and its two ways to a record agree as long as no two calls
\* overlap and no write takes the id of a record of another organisation; reads
\* of the store in SQL find what they may, and its conflicts are settled; what
\* is archived was summarised.
THEOREM MemoryKept == MCSpec /\ []OwnRecordsAlone => []MemoryConsistent
  <1>1. MCInit => Init /\ SmInit /\ SuInit /\ StoreInv /\ BoundsInv
    BY StoreStarts, BoundsStart DEF MCInit
  <1>2. StoreInv /\ BoundsInv /\ OwnRecordsAlone /\ [MCNext]_mcVars => (StoreInv /\ BoundsInv)'
    BY StoreStepKeeps, SideBySide, BoundsKeep
  <1>3. MCSpec /\ []OwnRecordsAlone => [](StoreInv /\ BoundsInv)
    BY <1>1, <1>2, PTL DEF MCSpec, mcVars
  <1>4. MCSpec => SmSpec /\ SuSpec
    BY <1>1, SideBySide, PTL DEF MCSpec, SmSpec, SuSpec, mcVars
  <1>5. StoreInv /\ BoundsInv /\ SqlMemorySound /\ SummariesSound => MemoryConsistent
    BY DEF StoreInv, BoundsInv, IndexInv, OnlyOverlappingCallsBreakIndex, MemoryConsistent
  <1> QED
    BY <1>3, <1>4, <1>5, SqlMemoryKept, SummariesKept, PTL

\* In every instance no write takes a record away or moves it to another scope,
\* unless it looked before another call changed what it found.
THEOREM RecordsKeptByWrites == MCSpec /\ []OwnRecordsAlone => WritesKeepRecords
  <1>1. MCInit => Init /\ SmInit /\ StoreInv /\ BoundsInv
    BY StoreStarts, BoundsStart DEF MCInit
  <1>2. StoreInv /\ BoundsInv /\ OwnRecordsAlone /\ [MCNext]_mcVars => (StoreInv /\ BoundsInv)'
    BY StoreStepKeeps, SideBySide, BoundsKeep
  <1>3. StoreInv /\ BoundsInv /\ [MCNext]_mcVars
          => [\A i \in Ids : records[i] # None /\ records'[i] # None
                => records'[i].place.scope = records[i].place.scope]_vars
    BY NoneMovesScope, Zenon DEF mcVars
  <1>4. MCSpec /\ []OwnRecordsAlone => ScopeIsImmutable
    BY <1>1, <1>2, <1>3, PTL DEF MCSpec, ScopeIsImmutable, mcVars
  <1>5. MCSpec => SmSpec
    BY <1>1, SideBySide, PTL DEF MCSpec, SmSpec, mcVars
  <1> QED
    BY <1>4, <1>5, OnlyStaleReplace DEF WritesKeepRecords
===============================================================================
