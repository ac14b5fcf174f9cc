--------------------------- MODULE ConfigDocuments ---------------------------
(***************************************************************************)
(* The document side of packages/config-hub: the API server in front of    *)
(* the scope documents on disk (api-server.ts, crud.ts), the versioned     *)
(* store with its optimistic locking (optimistic-locking.ts), the change   *)
(* records (audit-history.ts) and the webhook dispatcher (webhooks.ts).    *)
(*                                                                         *)
(* A written content is the number of the write; 0 stands for content that *)
(* is not a canonical document.  The files are also edited by hand.        *)
(***************************************************************************)
EXTENDS Integers, FiniteSets, Sequences

CONSTANTS Clients,       \* concurrent requests of the API
          Routes,        \* records of a scope and a scope id (or NoId)
          NoId,
          Editors,       \* callers of the versioned store
          MaxWrites,     \* bound on the writes of either store
          MaxRequests,   \* bound on the requests
          Hooks,         \* webhooks that may be registered: records [scope, scopeId]
          MaxHooks,      \* bound on the registrations
          Events,        \* events to dispatch: records [id, scope, scopeId]
          MaxRetries

ASSUME ConfigAssumption ==
  /\ MaxWrites \in Nat /\ MaxRequests \in Nat /\ MaxRetries \in Nat /\ MaxHooks \in Nat
  /\ \A r \in Routes : r.scope \in {"org", "team", "project"}

VARIABLES cdFiles,      \* what each path holds: a write's number, 0 when invalid, or NoDocument
          cdBirths,     \* history: how often each path came to be less how often it went
          cdWrites,     \* numbers given to writes so far
          cdRequests,   \* requests so far
          cdClient,     \* what each client waits for or was answered
          cdDocument,   \* the document of the versioned store
          cdEditor,     \* what each editor read last
          cdUpdate,     \* history: the last step's successful update
          cdRecords,    \* the change records
          cdRegistered, \* the webhooks: the number of each is its id
          cdDispatch,   \* how far each event's dispatch is
          cdReceived    \* history: what the endpoint of each hook received

cdApiVars == <<cdFiles, cdBirths, cdRequests, cdClient>>
cdLockVars == <<cdDocument, cdEditor, cdUpdate, cdRecords>>
cdHookVars == <<cdRegistered, cdDispatch, cdReceived>>
cdVars == <<cdApiVars, cdLockVars, cdHookVars, cdWrites>>

NoDocument == -1
Contents == 0..MaxWrites

(* Only a team's document depends on the scope id; a team without one has no path. *)
ResolvePath(route) == IF route.scope = "team" THEN <<"team", route.scopeId>>
                      ELSE <<route.scope, NoId>>
HasPath(route) == ~(route.scope = "team" /\ route.scopeId = NoId)

Paths == {ResolvePath(r) : r \in {q \in Routes : HasPath(q)}}
IdleClient == [state |-> "idle"]
Answer(status, content) == [state |-> "answered", status |-> status, content |-> content]

CdInit == /\ cdFiles = [p \in Paths |-> NoDocument] /\ cdBirths = [p \in Paths |-> 0]
          /\ cdWrites = 0 /\ cdRequests = 0
          /\ cdClient = [c \in Clients |-> IdleClient]
          /\ cdDocument = [version |-> 0, content |-> 0, creation |-> 0]
          /\ cdEditor = [e \in Editors |-> [version |-> 0, content |-> 0, creation |-> 0]]
          /\ cdUpdate = [done |-> FALSE]
          /\ cdRecords = <<>>
          /\ cdRegistered = <<>>
          /\ cdDispatch = [e \in Events |-> [state |-> "new"]]
          /\ cdReceived = [n \in 1..MaxHooks |-> <<>>]

-----------------------------------------------------------------------------
(* The API server and the documents on disk *)

Free(c) == cdClient[c].state # "waiting" /\ cdRequests < MaxRequests
Respond(c, status, content) == cdClient' = [cdClient EXCEPT ![c] = Answer(status, content)]

Unauthorized(c) ==
  /\ Free(c)
  /\ cdRequests' = cdRequests + 1
  /\ Respond(c, 401, NoDocument)
  /\ UNCHANGED <<cdFiles, cdBirths, cdWrites, cdLockVars, cdHookVars>>

(* ScopeDocumentStore.read: a document that does not parse is not served. *)
Read(c, route) ==
  /\ Free(c)
  /\ cdRequests' = cdRequests + 1
  /\ IF ~HasPath(route) THEN Respond(c, 400, NoDocument)
     ELSE LET file == cdFiles[ResolvePath(route)]
          IN  CASE file = NoDocument -> Respond(c, 404, NoDocument)
                [] file = 0 -> Respond(c, 400, NoDocument)
                [] file > 0 -> Respond(c, 200, file)
  /\ UNCHANGED <<cdFiles, cdBirths, cdWrites, cdLockVars, cdHookVars>>

DeleteConfig(c, route) ==
  /\ Free(c)
  /\ cdRequests' = cdRequests + 1
  /\ IF ~HasPath(route) THEN Respond(c, 400, NoDocument) /\ UNCHANGED <<cdFiles, cdBirths>>
     ELSE IF cdFiles[ResolvePath(route)] = NoDocument
     THEN Respond(c, 404, NoDocument) /\ UNCHANGED <<cdFiles, cdBirths>>
     ELSE /\ Respond(c, 200, NoDocument)
          /\ cdFiles' = [cdFiles EXCEPT ![ResolvePath(route)] = NoDocument]
          /\ cdBirths' = [cdBirths EXCEPT ![ResolvePath(route)] = @ - 1]
  /\ UNCHANGED <<cdWrites, cdLockVars, cdHookVars>>

(* POST and PUT await the body before they look at the store. *)
StartWrite(c, method, route) ==
  /\ Free(c)
  /\ cdRequests' = cdRequests + 1
  /\ cdClient' = [cdClient EXCEPT ![c] = [state |-> "waiting", method |-> method, route |-> route]]
  /\ UNCHANGED <<cdFiles, cdBirths, cdWrites, cdLockVars, cdHookVars>>

(* A body that is no JSON, or holds no content, or breaks off. *)
BodyFails(c) ==
  /\ cdClient[c].state = "waiting"
  /\ \E status \in {400, 500} : Respond(c, status, NoDocument)
  /\ UNCHANGED <<cdFiles, cdBirths, cdWrites, cdRequests, cdLockVars, cdHookVars>>

(* create refuses an existing file and update a missing one, both before
   the content is parsed. *)
WriteStatus(method, file, valid) ==
  CASE method = "POST" /\ file # NoDocument -> 409
    [] method = "PUT" /\ file = NoDocument -> 404
    [] (method = "POST") = (file = NoDocument) -> IF valid THEN (IF method = "POST" THEN 201 ELSE 200)
                                              ELSE 400

BodyArrives(c, valid) ==
  /\ cdClient[c].state = "waiting" /\ cdWrites < MaxWrites
  /\ cdWrites' = cdWrites + 1
  /\ LET route == cdClient[c].route
         path == ResolvePath(route)
         status == WriteStatus(cdClient[c].method, cdFiles[path], valid)
     IN  IF ~HasPath(route) THEN Respond(c, 400, NoDocument) /\ UNCHANGED <<cdFiles, cdBirths>>
         ELSE /\ Respond(c, status, IF status < 300 THEN cdWrites' ELSE NoDocument)
              /\ cdFiles' = IF status < 300 THEN [cdFiles EXCEPT ![path] = cdWrites'] ELSE cdFiles
              /\ cdBirths' = IF status = 201 THEN [cdBirths EXCEPT ![path] = @ + 1] ELSE cdBirths
  /\ UNCHANGED <<cdRequests, cdLockVars, cdHookVars>>

Lives(file) == IF file = NoDocument THEN 0 ELSE 1

EditByHand(path) ==
  /\ cdWrites < MaxWrites
  /\ cdWrites' = cdWrites + 1
  /\ \E content \in {0, NoDocument, cdWrites'} :
        /\ cdFiles' = [cdFiles EXCEPT ![path] = content]
        /\ cdBirths' = [cdBirths EXCEPT ![path] = @ + Lives(content) - Lives(cdFiles[path])]
  /\ UNCHANGED <<cdRequests, cdClient, cdLockVars, cdHookVars>>

ApiNext == \/ \E c \in Clients : \/ Unauthorized(c) \/ BodyFails(c)
                                 \/ \E valid \in BOOLEAN : BodyArrives(c, valid)
                                 \/ \E r \in Routes : \/ Read(c, r) \/ DeleteConfig(c, r)
                                                      \/ \E m \in {"POST", "PUT"} : StartWrite(c, m, r)
           \/ \E p \in Paths : EditByHand(p)

-----------------------------------------------------------------------------
(* The versioned store: version 0 is no document *)

Recorded(action) == cdRecords' = Append(cdRecords, [id |-> Len(cdRecords) + 1, action |-> action])

(* create asks nothing: a document that exists starts over at version 1. *)
CreateVersioned ==
  /\ cdWrites < MaxWrites
  /\ cdWrites' = cdWrites + 1
  /\ cdDocument' = [version |-> 1, content |-> cdWrites', creation |-> cdDocument.creation + 1]
  /\ cdUpdate' = [done |-> FALSE]
  /\ Recorded("create")
  /\ UNCHANGED <<cdApiVars, cdEditor, cdHookVars>>

GetVersioned(e) ==
  /\ cdDocument.version > 0
  /\ cdEditor' = [cdEditor EXCEPT ![e] = cdDocument]
  /\ cdUpdate' = [done |-> FALSE]
  /\ UNCHANGED <<cdApiVars, cdDocument, cdRecords, cdHookVars, cdWrites>>

AcceptsOlder(document, expectedVersion) == expectedVersion <= document.version

Accepts(document, expectedVersion) == document.version = expectedVersion

(* An update names the version its author read; another one is refused. *)
UpdateVersioned(e) ==
  /\ cdEditor[e].version > 0 /\ cdWrites < MaxWrites
  /\ cdWrites' = cdWrites + 1
  /\ IF Accepts(cdDocument, cdEditor[e].version)
     THEN /\ cdDocument' = [cdDocument EXCEPT !.version = @ + 1, !.content = cdWrites']
          /\ cdUpdate' = [done |-> TRUE, by |-> e, over |-> cdDocument]
          /\ Recorded("update")
     ELSE /\ cdUpdate' = [done |-> FALSE]
          /\ UNCHANGED <<cdDocument, cdRecords>>
  /\ UNCHANGED <<cdApiVars, cdEditor, cdHookVars>>

LockNext == \/ CreateVersioned
            \/ \E e \in Editors : GetVersioned(e) \/ UpdateVersioned(e)

-----------------------------------------------------------------------------
(* Webhooks *)

Register(h) ==
  /\ Len(cdRegistered) < MaxHooks
  /\ cdRegistered' = Append(cdRegistered, h)
  /\ UNCHANGED <<cdApiVars, cdLockVars, cdDispatch, cdReceived, cdWrites>>

(* registry.list with the scope only: the scope's every id is told. *)
Listed(scope) == {n \in DOMAIN cdRegistered : cdRegistered[n].scope = scope}

StartDispatch(e) ==
  /\ cdDispatch[e].state = "new"
  /\ cdDispatch' = [d \in Events |->
       IF d = e
       THEN [state |-> "sending", hooks |-> Listed(e.scope),
             attempts |-> 0, results |-> <<>>,
             overlapped |-> {f \in Events : cdDispatch[f].state = "sending"}]
       ELSE IF cdDispatch[d].state = "sending"
       THEN [cdDispatch[d] EXCEPT !.overlapped = @ \cup {e}] ELSE cdDispatch[d]]
  /\ UNCHANGED <<cdApiVars, cdLockVars, cdRegistered, cdReceived, cdWrites>>

(* The hooks are told one after the other, in the order of their registration. *)
Target(e, n) ==
  /\ cdDispatch[e].state = "sending"
  /\ n \in cdDispatch[e].hooks /\ \A m \in cdDispatch[e].hooks : n <= m

Proceed(dispatch, n, success) ==
  [dispatch EXCEPT !.hooks = @ \ {n}, !.attempts = 0,
                   !.results = Append(@, [hook |-> n, success |-> success,
                                          attempts |-> dispatch.attempts + 1])]

Sent(e, n) ==
  /\ Target(e, n)
  /\ cdReceived' = [cdReceived EXCEPT ![n] = Append(@, e)]
  /\ cdDispatch' = [cdDispatch EXCEPT ![e] = Proceed(@, n, TRUE)]
  /\ UNCHANGED <<cdApiVars, cdLockVars, cdRegistered, cdWrites>>

GivesUp(attempts) == attempts + 1 > MaxRetries
Retried(dispatch) == [dispatch EXCEPT !.attempts = @ + 1]

(* A sender that rejects may have reached its endpoint; it is asked again
   after a delay until the retries are used up. *)
SendFails(e, n, reached) ==
  /\ Target(e, n)
  /\ cdReceived' = IF reached THEN [cdReceived EXCEPT ![n] = Append(@, e)] ELSE cdReceived
  /\ cdDispatch' = [cdDispatch EXCEPT ![e] =
       IF GivesUp(@.attempts) THEN Proceed(@, n, FALSE) ELSE Retried(@)]
  /\ UNCHANGED <<cdApiVars, cdLockVars, cdRegistered, cdWrites>>

Dispatched(e) ==
  /\ cdDispatch[e].state = "sending" /\ cdDispatch[e].hooks = {}
  /\ cdDispatch' = [cdDispatch EXCEPT ![e].state = "done"]
  /\ UNCHANGED <<cdApiVars, cdLockVars, cdRegistered, cdReceived, cdWrites>>

HooksNext == \/ \E h \in Hooks : Register(h)
             \/ \E e \in Events : \/ StartDispatch(e) \/ Dispatched(e)
                                  \/ \E n \in 1..MaxHooks :
                                       \/ Sent(e, n)
                                       \/ \E reached \in BOOLEAN : SendFails(e, n, reached)

CdNext == ApiNext \/ LockNext \/ HooksNext
CdSpec == CdInit /\ [][CdNext]_cdVars

CdTypeOK == /\ cdFiles \in [Paths -> Contents \cup {NoDocument}]
            /\ cdDocument.version \in Contents /\ cdDocument.content \in Contents
            /\ cdRegistered \in Seq(Hooks) /\ Len(cdRegistered) <= MaxHooks
            /\ cdReceived \in [1..MaxHooks -> Seq(Events)]

-----------------------------------------------------------------------------
(* Whatever clients' bodies arrive in whatever order, and whatever is done by
   hand, of the requests that create a document one succeeds per life of its
   file and of those that delete it one per death. *)
OneBirthPerLife == \A p \in Paths : cdBirths[p] = Lives(cdFiles[p])

(* A successful update replaces exactly what its author had read: whatever
   another editor wrote in between is noticed, except after the document was
   created anew, when an old version number counts again. *)
OnlyRecreationLosesUpdates ==
  cdUpdate.done =>
    LET read == cdEditor[cdUpdate.by]
    IN  read.content = cdUpdate.over.content \/ read.creation # cdUpdate.over.creation

(* The change records tell the story of the document: as many updates since
   the last creation as its version says. *)
VersionCountsUpdates ==
  LET creations == {i \in DOMAIN cdRecords : cdRecords[i].action = "create"}
      last == CHOOSE i \in creations : \A j \in creations : j <= i
  IN  creations # {} => cdDocument.version = Len(cdRecords) - last + 1

(* What a dispatch reports is what happened: a success was received, a
   failure was tried once more than the retries, and the endpoint saw it at
   most once per attempt. *)
ReportsAreTrue ==
  \A e \in Events : cdDispatch[e].state \in {"sending", "done"} =>
    \A i \in DOMAIN cdDispatch[e].results :
      LET r == cdDispatch[e].results[i]
          copies == Cardinality({j \in DOMAIN cdReceived[r.hook] : cdReceived[r.hook][j] = e})
      IN  /\ r.success => copies \in 1..r.attempts
          /\ ~r.success => r.attempts = MaxRetries + 1
          /\ cdRegistered[r.hook].scope = e.scope

(* A hook receives two events in another order than they were dispatched in
   only when their dispatches overlapped, also when attempts that reached it
   are repeated. *)
OrderKeptUnlessOverlapping ==
  \A h \in 1..MaxHooks : \A i, j \in DOMAIN cdReceived[h] :
    LET a == cdReceived[h][i] b == cdReceived[h][j]
    IN  i < j /\ a # b /\ b \notin cdDispatch[a].overlapped =>
          \A k \in DOMAIN cdReceived[h] : cdReceived[h][k] = a => k < j

(* The documents of the hub stay what their writers made them. *)
ConfigDocumentsSound == /\ OneBirthPerLife /\ OnlyRecreationLosesUpdates
                        /\ VersionCountsUpdates /\ ReportsAreTrue
                        /\ OrderKeptUnlessOverlapping
=============================================================================
