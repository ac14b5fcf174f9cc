------------------------------- MODULE SqlMemory -------------------------------
(***************************************************************************)
(* SqlMemoryStore of packages/core/src/memory-store.ts: the decisions of   *)
(* MemoryStore taken on rows, with an await at every statement, so that    *)
(* what a SELECT has found may have changed by the time of the INSERT.  A  *)
(* unique index lets a key have one row; INSERT OR REPLACE drops the other *)
(* one.  The payload of a conflict stays in its row.                       *)
(***************************************************************************)
EXTENDS MemoryStore

VARIABLES smRows,       \* memories: the row of each id, or None
          smExpired,    \* ids of rows whose expires_at is past
          smConflicts,  \* memory_conflicts, or None
          smCall,       \* the statement each call awaits next, and what it has found
          smAccepted,   \* history: conflicts resolved by accept-incoming
          smStored,     \* history: conflicts whose incoming write took place
          smTwice,      \* history: conflicts resolved when they were so already
          smOverlapped  \* history: conflicts that two calls resolved at once

smVars == <<smRows, smExpired, smConflicts, smCall, smAccepted, smStored, smTwice, smOverlapped>>
conflictVars == <<smConflicts, smAccepted, smStored, smTwice, smOverlapped>>

(* A call: its SELECT of the key or of what it accepts awaited; its embedding;
   its UPDATE of a conflict; its DELETE. *)
SmLooking == [at : {"holder", "queue"}, id : Ids, key : Keys, input : Input,
              resolves : Conflicts \cup {None}, stale : BOOLEAN]
SmReviewing == [at : {"payload"}, id : Ids, input : Input, resolves : Conflicts, stale : BOOLEAN]
SmFound == [at : {"embedding"}, id : Ids, key : Keys \cup {None}, place : Place,
            resolves : Conflicts \cup {None}, stale : BOOLEAN]
SmResolving == [at : {"resolve"}, id : Ids, resolves : Conflicts, accepts : BOOLEAN, stale : BOOLEAN]
SmDeleting == [at : {"delete"}, id : Ids, stale : BOOLEAN]
SmCalls == SmLooking \cup SmReviewing \cup SmFound \cup SmResolving \cup SmDeleting
SmConflict == [status : {"pending", "resolved"}, existing : Ids, payload : Input, place : Place]

ASSUME SmNoneAssumption == None \notin SmCalls \cup SmConflict

SmTypeOK == /\ smRows \in [Ids -> Record \cup {None}] /\ smExpired \subseteq Ids
            /\ smConflicts \in [Conflicts -> SmConflict \cup {None}]
            /\ smCall \in [Calls -> SmCalls \cup {None}]
            /\ {smAccepted, smStored, smTwice, smOverlapped} \subseteq SUBSET Conflicts

SmInit == /\ smRows = [i \in Ids |-> None] /\ smExpired = {}
          /\ smConflicts = [c \in Conflicts |-> None]
          /\ smCall = [w \in Calls |-> None]
          /\ smAccepted = {} /\ smStored = {} /\ smTwice = {} /\ smOverlapped = {}

Under(w, step) == smCall[w] # None /\ smCall[w].at = step
Ends(w) == smCall' = [smCall EXCEPT ![w] = None]

-----------------------------------------------------------------------------
(* write *)

KeyOf(in) == IF in.key = None /\ smRows[in.id] # None THEN smRows[in.id].key ELSE in.key

(* The row of the id, and then the scope context. *)
Rejects(in) == \/ smRows[in.id] # None /\ smRows[in.id].place.scope # in.scope
               \/ ~HasContext(in.scope, in.context)

(* The write that has found its row and key, and awaits the embedding. *)
Embedding(id, key, in, c, stale) ==
  [at |-> "embedding", id |-> id, key |-> key, place |-> ScopeContext(in.scope, in.context),
   resolves |-> c, stale |-> stale]

(* What goes on when the row of the id has been selected. *)
Selected(in, c) ==
  IF Rejects(in) THEN None
  ELSE IF KeyOf(in) = None THEN Embedding(in.id, None, in, c, FALSE)
  ELSE [at |-> "holder", id |-> in.id, key |-> KeyOf(in), input |-> in, resolves |-> c, stale |-> FALSE]

SqlWrite(w) == /\ smCall[w] = None
               /\ \E in \in Input : /\ ~Rejects(in)
                                    /\ smCall' = [smCall EXCEPT ![w] = Selected(in, None)]
               /\ UNCHANGED <<smRows, smExpired, conflictVars>>

(* The rows of a key: at most one, by the unique index. *)
HoldersOf(org, key) == {i \in Ids : smRows[i] # None /\ smRows[i].place.org = org /\ smRows[i].key = key}

(* A mistake in OtherHolder: the key is not looked for. *)
OtherHolderUnseen(found) == {}

OtherHolder(found) == HoldersOf(found.input.context.org, found.key) \ {found.input.id}

(* A holder of another scope, or the strategy, may refuse the write. *)
SelectHolder(w) ==
  LET found == smCall[w]
      strategy == Strategy[found.input.context]
      goesOn(i) == Embedding(i, found.key, found.input, found.resolves, found.stale)
      with(i) == IF smRows[i].place.scope # found.input.scope \/ strategy = "first-write-wins" THEN None
                 ELSE IF strategy = "manual-review" THEN [found EXCEPT !.at = "queue", !.id = i, !.stale = FALSE]
                 ELSE goesOn(i)
  IN  /\ Under(w, "holder")
      /\ smCall' = [smCall EXCEPT ![w] = IF OtherHolder(found) = {} THEN goesOn(found.id)
                                         ELSE with(CHOOSE i \in OtherHolder(found) : TRUE)]
      /\ UNCHANGED <<smRows, smExpired, conflictVars>>

(* manual-review: the conflict is inserted and the call rejects. *)
QueueConflict(w) ==
  /\ Under(w, "queue")
  /\ \E c \in Conflicts :
       /\ smConflicts[c] = None
       /\ smConflicts' = [smConflicts EXCEPT ![c] =
            [status |-> "pending", existing |-> smCall[w].id, payload |-> smCall[w].input,
             place |-> ScopeContext(smCall[w].input.scope, smCall[w].input.context)]]
  /\ Ends(w)
  /\ UNCHANGED <<smRows, smExpired, smAccepted, smStored, smTwice, smOverlapped>>

(* What other calls have found is stale once rows of their id or key change. *)
Disturbed(changed, keys) ==
  [v \in Calls |->
     IF smCall[v] = None \/ smCall[v].at \in {"queue", "payload", "resolve"} THEN smCall[v]
     ELSE [smCall[v] EXCEPT !.stale = @ \/ smCall[v].id \in changed
                                        \/ ("key" \in DOMAIN smCall[v] /\ smCall[v].key \in keys \ {None})]]

(* A call about to set the status of its conflict. *)
Resolving(id, c, accepts) ==
  [at |-> "resolve", id |-> id, resolves |-> c, accepts |-> accepts, stale |-> FALSE]

(* The embedding has come, and the statement runs. *)
InsertOrReplace(w) ==
  LET found == smCall[w]
      dropped == IF found.key = None THEN {} ELSE HoldersOf(found.place.org, found.key) \ {found.id}
      changed == dropped \cup {found.id}
  IN  /\ Under(w, "embedding")
      /\ smRows' = [i \in Ids |-> IF i = found.id THEN [key |-> found.key, place |-> found.place]
                                  ELSE IF i \in dropped THEN None ELSE smRows[i]]
      /\ smExpired' = smExpired \ changed
      /\ smCall' = [Disturbed(changed, {found.key} \cup {smRows[i].key : i \in {j \in changed : smRows[j] # None}})
                      EXCEPT ![w] = IF found.resolves = None THEN None ELSE Resolving(found.id, found.resolves, TRUE)]
      /\ smStored' = IF found.resolves = None THEN smStored ELSE smStored \cup {found.resolves}
      /\ UNCHANGED <<smConflicts, smAccepted, smTwice, smOverlapped>>

(* The embedding or a statement fails: the call rejects. *)
SqlFails(w) == /\ EmbedMayFail /\ smCall[w] # None /\ Ends(w)
               /\ UNCHANGED <<smRows, smExpired, conflictVars>>

-----------------------------------------------------------------------------
(* resolveConflict *)

Resolves(w, c) == smCall[w] # None /\ "resolves" \in DOMAIN smCall[w] /\ smCall[w].resolves = c

(* The pending conflicts of the organisation and project are listed.  The
   incoming write is then that of its row, to the id of the one that was
   there, in the context of the caller. *)
ListPending(w, c, ctx) ==
  /\ smCall[w] = None /\ smConflicts[c] # None /\ smConflicts[c].status = "pending"
  /\ smConflicts[c].place.org = ctx.org
  /\ ctx.project # None => smConflicts[c].place.project \in {ctx.project, None}
  /\ \/ smCall' = [smCall EXCEPT ![w] = Resolving(smConflicts[c].existing, c, FALSE)]
     \/ smCall' = [smCall EXCEPT ![w] = [at |-> "payload", id |-> smConflicts[c].existing, resolves |-> c, stale |-> FALSE,
                      input |-> [smConflicts[c].payload EXCEPT !.id = smConflicts[c].existing, !.context = ctx]]]
  /\ smOverlapped' = IF \E v \in Calls : Resolves(v, c) THEN smOverlapped \cup {c} ELSE smOverlapped
  /\ UNCHANGED <<smRows, smExpired, smConflicts, smAccepted, smStored, smTwice>>

SelectForReview(w) ==
  /\ Under(w, "payload")
  /\ smCall' = [smCall EXCEPT ![w] = Selected(smCall[w].input, smCall[w].resolves)]
  /\ UNCHANGED <<smRows, smExpired, conflictVars>>

(* The UPDATE looks at no status. *)
MarkResolved(w) ==
  /\ Under(w, "resolve") /\ Ends(w)
  /\ LET c == smCall[w].resolves
     IN  /\ smConflicts' = [smConflicts EXCEPT ![c].status = "resolved"]
         /\ smAccepted' = IF smCall[w].accepts THEN smAccepted \cup {c} ELSE smAccepted
         /\ smTwice' = IF smConflicts[c].status = "resolved" THEN smTwice \cup {c} ELSE smTwice
  /\ UNCHANGED <<smRows, smExpired, smStored, smOverlapped>>

-----------------------------------------------------------------------------
(* deleteById, expiry *)

SeenForDeletion(w, i, ctx) ==
  /\ smCall[w] = None /\ smRows[i] # None /\ i \notin smExpired
  /\ CanReadById(smRows[i].place, ctx, TRUE)
  /\ smCall' = [smCall EXCEPT ![w] = [at |-> "delete", id |-> i, stale |-> FALSE]]
  /\ UNCHANGED <<smRows, smExpired, conflictVars>>

DeleteRow(w) ==
  LET i == smCall[w].id
  IN  /\ Under(w, "delete")
      /\ smRows' = [smRows EXCEPT ![i] = None] /\ smExpired' = smExpired \ {i}
      /\ smCall' = [Disturbed({i}, IF smRows[i] = None THEN {} ELSE {smRows[i].key}) EXCEPT ![w] = None]
      /\ UNCHANGED conflictVars

SqlExpire(i) == /\ smRows[i] # None /\ smRows[i].place.scope = "session" /\ i \notin smExpired
                /\ smExpired' = smExpired \cup {i}
                /\ UNCHANGED <<smRows, smCall, conflictVars>>

DeleteExpired ==
  /\ smExpired # {} /\ smExpired' = {}
  /\ smRows' = [i \in Ids |-> IF i \in smExpired THEN None ELSE smRows[i]]
  /\ smCall' = Disturbed(smExpired, {smRows[i].key : i \in smExpired})
  /\ UNCHANGED conflictVars

SmNext == \/ DeleteExpired
          \/ \E i \in Ids : SqlExpire(i)
          \/ \E w \in Calls :
               \/ SqlWrite(w) \/ SelectHolder(w) \/ QueueConflict(w) \/ InsertOrReplace(w) \/ SqlFails(w)
               \/ SelectForReview(w) \/ MarkResolved(w) \/ DeleteRow(w)
               \/ \E ctx \in Contexts : \/ \E i \in Ids : SeenForDeletion(w, i, ctx)
                                        \/ \E c \in Conflicts : ListPending(w, c, ctx)

SmSpec == SmInit /\ [][SmNext]_smVars
-----------------------------------------------------------------------------
(* Reads.  The WHERE of a list names the project and the session of the
   caller, whatever is shared. *)
ListedRows(scope, ctx, shared) ==
  {i \in Ids \ smExpired :
     /\ smRows[i] # None
     /\ scope \in {"session", "project"} => smRows[i].place.project = ctx.project
     /\ scope = "session" => smRows[i].place.session = ctx.session
     /\ CanRead(smRows[i].place, scope, ctx, shared)}

(* The row a key leads to from a context: of its session, its project, or the
   organisation. *)
RowsOfKey(key, ctx) ==
  {i \in HoldersOf(ctx.org, key) :
     LET place == smRows[i].place
     IN  \/ place.session = None /\ place.project = None
         \/ ctx.project # None /\ place.project = ctx.project
              /\ (place.session = None \/ (ctx.session # None /\ place.session = ctx.session))}

-----------------------------------------------------------------------------
(* A list of a scope has the live rows of that place, and of broader scopes
   none; a key leads from a context to each row that may be read there. *)
ReadsFindWhatMayBeRead ==
  \A ctx \in Contexts :
    /\ \A scope \in {s \in Scopes : HasContext(s, ctx)}, shared \in BOOLEAN :
         ListedRows(scope, ctx, shared) = {i \in Ids \ smExpired : smRows[i] # None /\ CanRead(smRows[i].place, scope, ctx, FALSE)}
    /\ \A i \in Ids : smRows[i] # None /\ smRows[i].key # None /\ CanReadById(smRows[i].place, ctx, TRUE) =>
         RowsOfKey(smRows[i].key, ctx) = {i}

(* A conflict resolved by accept-incoming has its incoming write stored, and is
   resolved once unless two calls resolved it at a time. *)
ConflictsAreSettled == smAccepted \subseteq smStored /\ smTwice \subseteq smOverlapped

SqlMemorySound == ReadsFindWhatMayBeRead /\ ConflictsAreSettled

(* A row goes away or changes its scope only by its deletion, its expiry, or a
   write that had looked before another call changed its row or its key. *)
OnlyStaleWritesReplaceRows ==
  [][\A i \in Ids : smRows[i] # None /\ (smRows'[i] = None \/ smRows'[i].place.scope # smRows[i].place.scope) =>
       \/ i \in smExpired
       \/ \E w \in Calls : /\ smCall[w] # None /\ smCall'[w] # smCall[w]
                           /\ smCall[w].stale \/ (smCall[w].at = "delete" /\ smCall[w].id = i)]_smVars
=============================================================================
