----------------------------- MODULE Mcp_proofs -----------------------------
(***************************************************************************)
(* Proofs about McpServers, for any servers, refreshes, removals and       *)
(* viewers, and about McpOperations: the health monitor, for any servers,  *)
(* runs, retries and thresholds, and the propagation of registrations, for *)
(* any targets and number of registrations.                                *)
(***************************************************************************)
EXTENDS McpServers, McpOperations, SequenceTheorems, TLAPS

\* The server a refresh awaits is one of its list, and the list is right about
\* the servers nobody else has written since it was taken.
ListFaithful ==
    \A r \in Refreshers : refresh[r] # None =>
        /\ refresh[r].list[refresh[r].at] # None
        /\ \A k \in Keys \ touched[r] : refresh[r].list[k] = servers[k]

\* A list that will be stored was exported with consent.
ExportedWithConsent ==
    \A v \in Viewers :
        importing[v] # None /\ importing[v] # {} => consent \/ v \in withdrawn

IndInv == /\ TypeOK
          /\ AuditMatchesRegistry
          /\ ListFaithful
          /\ ExportedWithConsent
          /\ OnlyRacingImportOutlivesConsent

LEMMA InitInv == Init => IndInv
<1> SUFFICES ASSUME Init PROVE IndInv
  OBVIOUS
<1>1. TypeOK
  BY DEF Init, TypeOK, Registry
<1>2. \A v \in Viewers : importing[v] = None /\ imported[v] = {}
  BY DEF Init
<1>3. \A r \in Refreshers : refresh[r] = None
  BY DEF Init
<1> QED
  BY <1>1, <1>2, <1>3 DEF Init, IndInv, AuditMatchesRegistry, ListFaithful,
     ExportedWithConsent, OnlyRacingImportOutlivesConsent

-----------------------------------------------------------------------------

LEMMA PutKeeps ==
    ASSUME TypeOK, AuditMatchesRegistry, NEW k \in Keys,
           NEW s \in Server \cup {None}, Put(k, s)
    PROVE  servers' \in Registry /\ audited' \in Registry /\ AuditMatchesRegistry'
BY DEF TypeOK, Put, Registry, AuditMatchesRegistry

\* What another writes of the server k, the lists know to be no longer right.
LEMMA UserPutKeeps ==
    ASSUME IndInv, NEW k \in Keys, NEW s \in Server \cup {None}, UserPut(k, s),
           removal' \in [Removals -> Keys \cup {None}]
    PROVE  IndInv'
<1>1. servers' \in Registry /\ audited' \in Registry /\ AuditMatchesRegistry'
  BY PutKeeps DEF IndInv, UserPut
<1>2. touched' \in [Refreshers -> SUBSET Keys]
  BY DEF IndInv, TypeOK, UserPut, Touch
<1>3. TypeOK'
  BY <1>1, <1>2 DEF IndInv, TypeOK, UserPut, discoveryVars, federationVars
<1>4. ListFaithful'
  <2> SUFFICES ASSUME NEW r \in Refreshers, refresh'[r] # None
               PROVE  /\ refresh'[r].list[refresh'[r].at] # None
                      /\ \A j \in Keys \ touched'[r] : refresh'[r].list[j] = servers'[j]
    BY DEF ListFaithful
  <2>1. refresh' = refresh
    BY DEF UserPut, discoveryVars
  <2>2. touched'[r] = touched[r] \cup {k}
    BY <2>1 DEF UserPut, Touch
  <2>3. \A j \in Keys \ {k} : servers'[j] = servers[j]
    BY DEF UserPut, Put, IndInv, TypeOK, Registry
  <2> QED BY <2>1, <2>2, <2>3 DEF IndInv, ListFaithful
<1>5. ExportedWithConsent' /\ OnlyRacingImportOutlivesConsent'
  BY DEF IndInv, UserPut, federationVars, ExportedWithConsent,
         OnlyRacingImportOutlivesConsent
<1> QED BY <1>1, <1>3, <1>4, <1>5 DEF IndInv

LEMMA RegistryKeeps ==
    ASSUME IndInv, NEW k \in Keys,
           \/ Register(k) \/ Update(k) \/ Deregister(k)
           \/ \E e \in BOOLEAN : SetEnabled(k, e)
           \/ \E c \in Credentials : RotateCredentials(k, c)
           \/ \E d \in Removals : CheckOrphans(d, k)
    PROVE  IndInv'
<1>1. removal \in [Removals -> Keys \cup {None}] /\ servers \in Registry
  BY DEF IndInv, TypeOK
<1>2. \A e \in BOOLEAN, c \in Credentials : Stored(e, c) \in Server
  BY DEF Stored, Server
<1>3. servers[k] # None =>
        servers[k].enabled \in BOOLEAN /\ servers[k].credentials \in Credentials
  BY <1>1 DEF Registry, Server
<1>4. CASE Register(k) \/ Update(k) \/ Deregister(k)
  BY <1>1, <1>2, <1>4, UserPutKeeps DEF Register, Update, Deregister
<1>5. ASSUME NEW e \in BOOLEAN, SetEnabled(k, e) PROVE IndInv'
  BY <1>1, <1>2, <1>3, <1>5, UserPutKeeps DEF SetEnabled
<1>6. ASSUME NEW c \in Credentials, RotateCredentials(k, c) PROVE IndInv'
  BY <1>1, <1>2, <1>3, <1>6, UserPutKeeps DEF RotateCredentials
<1>7. ASSUME NEW d \in Removals, CheckOrphans(d, k) PROVE IndInv'
  <2>1. removal' \in [Removals -> Keys \cup {None}]
    BY <1>1, <1>7 DEF CheckOrphans
  <2> QED
    BY <2>1, <1>7 DEF CheckOrphans, IndInv, TypeOK, AuditMatchesRegistry, ListFaithful,
       ExportedWithConsent, OnlyRacingImportOutlivesConsent, registryVars,
       discoveryVars, federationVars
<1> QED BY <1>4, <1>5, <1>6, <1>7

LEMMA OrphansCheckedKeeps ==
    ASSUME IndInv, NEW d \in Removals, OrphansChecked(d)
    PROVE  IndInv'
<1>1. removal[d] \in Keys /\ removal' \in [Removals -> Keys \cup {None}]
  BY DEF IndInv, TypeOK, OrphansChecked
<1>2. CASE UserPut(removal[d], None)
  BY <1>1, <1>2, UserPutKeeps
<1>3. CASE UNCHANGED <<registryVars, discoveryVars, federationVars, touched>>
  BY <1>1, <1>3 DEF IndInv, TypeOK, AuditMatchesRegistry, ListFaithful,
     ExportedWithConsent, OnlyRacingImportOutlivesConsent, registryVars,
     discoveryVars, federationVars
<1> QED BY <1>2, <1>3 DEF OrphansChecked

-----------------------------------------------------------------------------

\* A refresh goes on with a server of its list, or ends.
LEMMA GoOnKeeps ==
    ASSUME TypeOK, NEW r \in Refreshers, NEW list \in Registry,
           NEW todo \in SUBSET Keys, NEW force \in BOOLEAN, NEW known,
           GoOn(r, list, todo, force, known)
    PROVE  \E f \in Refresh \cup {None} :
             /\ refresh' = [refresh EXCEPT ![r] = f]
             /\ f # None => f.list = list /\ list[f.at] # None
<1>1. CASE refresh' = [refresh EXCEPT ![r] = None]
  BY <1>1
<1>2. CASE \E k \in todo \cap Skippable(list),
              skipped \in SUBSET (todo \ (todo \cap Wanted(list, force, known))) :
             refresh' = [refresh EXCEPT ![r] =
               [list |-> list, todo |-> todo \ ({k} \cup skipped),
                at |-> k, force |-> force]]
  <2>1. PICK k \in todo \cap Skippable(list),
             skipped \in SUBSET (todo \ (todo \cap Wanted(list, force, known))) :
             refresh' = [refresh EXCEPT ![r] =
               [list |-> list, todo |-> todo \ ({k} \cup skipped),
                at |-> k, force |-> force]]
    BY <1>2
  <2> DEFINE f == [list |-> list, todo |-> todo \ ({k} \cup skipped),
                   at |-> k, force |-> force]
  <2>2. f \in Refresh /\ f.list = list /\ list[f.at] # None
    BY DEF Refresh, Skippable, Registered
  <2> QED BY <2>1, <2>2
<1> QED BY <1>1, <1>2 DEF GoOn

LEMMA RefreshAllKeeps ==
    ASSUME IndInv, NEW r \in Refreshers, NEW force \in BOOLEAN,
           RefreshAll(r, force)
    PROVE  IndInv'
<1>1. PICK f \in Refresh \cup {None} :
        /\ refresh' = [refresh EXCEPT ![r] = f]
        /\ f # None => f.list = servers /\ servers[f.at] # None
  <2>1. /\ TypeOK /\ servers \in Registry
        /\ Registered(servers) \in SUBSET Keys
        /\ GoOn(r, servers, Registered(servers), force, discovered')
    BY DEF IndInv, TypeOK, RefreshAll, Registered
  <2> HIDE DEF GoOn
  <2> QED BY <2>1, GoOnKeeps
<1>2. TypeOK'
  <2>1. refresh' \in [Refreshers -> Refresh \cup {None}]
    BY <1>1 DEF IndInv, TypeOK
  <2>2. discovered' \in [Keys -> {"discovered", "failed", None}]
    BY DEF IndInv, TypeOK, RefreshAll
  <2>3. touched' \in [Refreshers -> SUBSET Keys]
    BY DEF IndInv, TypeOK, RefreshAll
  <2> QED BY <2>1, <2>2, <2>3 DEF IndInv, TypeOK, RefreshAll, registryVars, federationVars
<1>3. ListFaithful'
  <2> SUFFICES ASSUME NEW q \in Refreshers, refresh'[q] # None
               PROVE  /\ refresh'[q].list[refresh'[q].at] # None
                      /\ \A j \in Keys \ touched'[q] : refresh'[q].list[j] = servers'[j]
    BY DEF ListFaithful
  <2>1. servers' = servers /\ touched' = [touched EXCEPT ![r] = {}]
    BY DEF RefreshAll, registryVars
  <2>2. CASE q = r
    BY <1>1, <2>1, <2>2 DEF IndInv, TypeOK
  <2>3. CASE q # r
    BY <1>1, <2>1, <2>3 DEF IndInv, TypeOK, ListFaithful
  <2> QED BY <2>2, <2>3
<1> QED
  BY <1>2, <1>3 DEF IndInv, RefreshAll, AuditMatchesRegistry, ExportedWithConsent,
     OnlyRacingImportOutlivesConsent, registryVars, federationVars

LEMMA RefreshServerKeeps ==
    ASSUME IndInv, NEW r \in Refreshers, RefreshServer(r)
    PROVE  IndInv'
<1> DEFINE g == refresh[r]
<1>1. /\ g \in Refresh
      /\ g.list \in Registry /\ g.at \in Keys /\ g.todo \in SUBSET Keys
      /\ g.force \in BOOLEAN /\ g.list[g.at] \in Server
  <2>1. g # None /\ g.list[g.at] # None
    BY DEF RefreshServer, IndInv, ListFaithful
  <2> QED BY <2>1 DEF IndInv, TypeOK, Refresh, Registry
<1>2. Discovered(g.list[g.at]) = g.list[g.at]
  BY <1>1 DEF Discovered, Stored, Server
<1>3. PICK f \in Refresh \cup {None} :
        /\ refresh' = [refresh EXCEPT ![r] = f]
        /\ f # None => f.list = g.list /\ g.list[f.at] # None
  <2>1. PICK known : GoOn(r, g.list, g.todo, g.force, known)
    BY DEF RefreshServer
  <2>2. TypeOK
    BY DEF IndInv
  <2>3. PICK list \in Registry, todo \in SUBSET Keys, force \in BOOLEAN :
          list = g.list /\ todo = g.todo /\ force = g.force
    BY <1>1
  <2>4. GoOn(r, list, todo, force, known)
    BY <2>1, <2>3
  <2>5. \E f \in Refresh \cup {None} :
          /\ refresh' = [refresh EXCEPT ![r] = f]
          /\ f # None => f.list = list /\ list[f.at] # None
    BY <2>2, <2>4, GoOnKeeps
  <2> QED BY <2>3, <2>5
<1>4. refresh' \in [Refreshers -> Refresh \cup {None}]
  BY <1>3 DEF IndInv, TypeOK
<1>5. discovered' \in [Keys -> {"discovered", "failed", None}]
  BY <1>1 DEF IndInv, TypeOK, RefreshServer
<1>6. ExportedWithConsent' /\ OnlyRacingImportOutlivesConsent'
  BY DEF IndInv, RefreshServer, federationVars, ExportedWithConsent,
         OnlyRacingImportOutlivesConsent
<1>7. CASE Put(g.at, g.list[g.at]) /\ touched' = Touch(g.at, Refreshers \ {r})
  <2>1. servers' \in Registry /\ audited' \in Registry /\ AuditMatchesRegistry'
    <3> HIDE DEF g
    <3> QED BY <1>1, <1>7, PutKeeps DEF IndInv
  <2>2. touched' \in [Refreshers -> SUBSET Keys]
    BY <1>1, <1>7 DEF IndInv, TypeOK, Touch
  <2>3. TypeOK'
    BY <1>4, <1>5, <2>1, <2>2 DEF IndInv, TypeOK, RefreshServer, federationVars
  <2>4. ListFaithful'
    <3> SUFFICES ASSUME NEW q \in Refreshers, refresh'[q] # None
                 PROVE  /\ refresh'[q].list[refresh'[q].at] # None
                        /\ \A j \in Keys \ touched'[q] :
                             refresh'[q].list[j] = servers'[j]
      BY DEF ListFaithful
    <3>1. servers' = [servers EXCEPT ![g.at] = g.list[g.at]]
      BY <1>7 DEF Put
    <3>2. CASE q = r
      <4>1. touched'[q] = touched[q]
        BY <1>7, <3>2 DEF Touch
      <4>2. \A j \in Keys \ touched[q] : g.list[j] = servers[j]
        BY <3>2, <1>1 DEF IndInv, ListFaithful, RefreshServer
      <4>3. \A j \in Keys \ touched[q] : g.list[j] = servers'[j]
        BY <4>2, <3>1, <1>1 DEF IndInv, TypeOK, Registry
      <4>4. refresh'[q] = f
        BY <1>3, <3>2 DEF IndInv, TypeOK
      <4> QED BY <4>1, <4>3, <4>4, <1>3
    <3>3. CASE q # r
      <4>1. refresh'[q] = refresh[q]
        BY <1>3, <3>3 DEF IndInv, TypeOK
      <4>2. touched'[q] = touched[q] \cup {g.at}
        BY <1>7, <3>3, <4>1 DEF Touch
      <4>3. \A j \in Keys \ {g.at} : servers'[j] = servers[j]
        BY <3>1 DEF IndInv, TypeOK, Registry
      <4> QED BY <4>1, <4>2, <4>3 DEF IndInv, ListFaithful
    <3> QED BY <3>2, <3>3
  <2> QED BY <2>1, <2>3, <2>4, <1>6 DEF IndInv
<1>8. CASE UNCHANGED <<registryVars, touched>>
  <2>1. TypeOK'
    BY <1>4, <1>5, <1>8 DEF IndInv, TypeOK, RefreshServer, registryVars, federationVars
  <2>2. ListFaithful'
    <3> SUFFICES ASSUME NEW q \in Refreshers, refresh'[q] # None
                 PROVE  /\ refresh'[q].list[refresh'[q].at] # None
                        /\ \A j \in Keys \ touched[q] : refresh'[q].list[j] = servers[j]
      BY <1>8 DEF ListFaithful, registryVars
    <3>1. CASE q = r
      BY <1>3, <3>1 DEF IndInv, TypeOK, ListFaithful, RefreshServer
    <3>2. CASE q # r
      BY <1>3, <3>2 DEF IndInv, TypeOK, ListFaithful
    <3> QED BY <3>1, <3>2
  <2> QED BY <2>1, <2>2, <1>6, <1>8 DEF IndInv, AuditMatchesRegistry, registryVars
<1> QED BY <1>2, <1>7, <1>8 DEF RefreshServer

-----------------------------------------------------------------------------

LEMMA FederationKeeps ==
    ASSUME IndInv, NEW v \in Viewers,
           ImportFromPeer(v) \/ ImportStored(v) \/ RevokeImportedPeer(v)
    PROVE  IndInv'
<1>1. /\ AuditMatchesRegistry' /\ ListFaithful'
      /\ UNCHANGED <<registryVars, removal, discoveryVars, touched>>
  BY DEF IndInv, AuditMatchesRegistry, ListFaithful, ImportFromPeer, ImportStored,
         RevokeImportedPeer, registryVars, discoveryVars
<1>2. CASE ImportFromPeer(v)
  <2>1. PublicServers \in SUBSET Keys
    BY McpAssumption DEF PublicServers
  <2> HIDE DEF PublicServers
  <2>2. TypeOK'
    BY <1>1, <1>2, <2>1 DEF IndInv, TypeOK, ImportFromPeer, registryVars, discoveryVars
  <2> QED
    BY <1>1, <1>2, <2>2 DEF IndInv, TypeOK, ImportFromPeer, ExportedWithConsent,
       OnlyRacingImportOutlivesConsent
<1>3. CASE ImportStored(v)
  <2>1. TypeOK'
    <3>1. importing[v] \in SUBSET Keys
      BY <1>3 DEF IndInv, TypeOK, ImportStored
    <3>2. imported' \in [Viewers -> SUBSET Keys]
      BY <1>3, <3>1 DEF IndInv, TypeOK, ImportStored
    <3>3. importing' \in [Viewers -> (SUBSET Keys) \cup {None}]
      BY <1>3 DEF IndInv, TypeOK, ImportStored
    <3> QED
      BY <1>1, <1>3, <3>2, <3>3 DEF IndInv, TypeOK, ImportStored, registryVars,
         discoveryVars
  <2> QED
    BY <1>1, <1>3, <2>1 DEF IndInv, TypeOK, ImportStored, ExportedWithConsent,
       OnlyRacingImportOutlivesConsent
<1>4. CASE RevokeImportedPeer(v)
  <2>1. TypeOK'
    BY <1>1, <1>4 DEF IndInv, TypeOK, RevokeImportedPeer, registryVars, discoveryVars
  <2> QED
    BY <1>1, <1>4, <2>1 DEF IndInv, TypeOK, RevokeImportedPeer, ExportedWithConsent,
       OnlyRacingImportOutlivesConsent
<1> QED BY <1>2, <1>3, <1>4

LEMMA ConsentKeeps ==
    ASSUME IndInv, NEW share \in BOOLEAN, SetSharingConsent(share)
    PROVE  IndInv'
<1>1. TypeOK'
  BY DEF IndInv, TypeOK, SetSharingConsent, WithoutImports, registryVars, discoveryVars
<1> QED
  BY <1>1 DEF IndInv, TypeOK, SetSharingConsent, WithoutImports, AuditMatchesRegistry,
     ListFaithful, ExportedWithConsent, OnlyRacingImportOutlivesConsent,
     registryVars, discoveryVars

LEMMA StepInv == IndInv /\ [Next]_vars => IndInv'
<1> SUFFICES ASSUME IndInv, [Next]_vars PROVE IndInv'
  OBVIOUS
<1>1. CASE UNCHANGED vars
  BY <1>1 DEF IndInv, TypeOK, AuditMatchesRegistry, ListFaithful, ExportedWithConsent,
     OnlyRacingImportOutlivesConsent, vars
<1>2. CASE Next
  <2>1. ASSUME NEW k \in Keys,
               \/ Register(k) \/ Update(k) \/ Deregister(k)
               \/ \E e \in BOOLEAN : SetEnabled(k, e)
               \/ \E c \in Credentials : RotateCredentials(k, c)
               \/ \E d \in Removals : CheckOrphans(d, k)
        PROVE  IndInv'
    BY <2>1, RegistryKeeps
  <2>2. ASSUME NEW d \in Removals, OrphansChecked(d) PROVE IndInv'
    BY <2>2, OrphansCheckedKeeps
  <2>3. ASSUME NEW r \in Refreshers, NEW force \in BOOLEAN, RefreshAll(r, force)
        PROVE  IndInv'
    BY <2>3, RefreshAllKeeps
  <2>4. ASSUME NEW r \in Refreshers, RefreshServer(r) PROVE IndInv'
    BY <2>4, RefreshServerKeeps
  <2>5. ASSUME NEW v \in Viewers,
               ImportFromPeer(v) \/ ImportStored(v) \/ RevokeImportedPeer(v)
        PROVE  IndInv'
    BY <2>5, FederationKeeps
  <2>6. ASSUME NEW share \in BOOLEAN, SetSharingConsent(share) PROVE IndInv'
    BY <2>6, ConsentKeeps
  <2> QED BY <1>2, <2>1, <2>2, <2>3, <2>4, <2>5, <2>6 DEF Next
<1> QED BY <1>1, <1>2

LEMMA Invariance == Spec => []IndInv
BY InitInv, StepInv, PTL DEF Spec

\* Every variable of the registry, discovery and federation keeps its type.
THEOREM TypeCorrect == Spec => []TypeOK
<1>1. IndInv => TypeOK
  BY DEF IndInv
<1> QED BY <1>1, Invariance, PTL

\* The audit log's last entry of a server is what the registry holds
\* (recordAudit), however many refreshes and removals are under way.
THEOREM AuditExact == Spec => []AuditMatchesRegistry
<1>1. IndInv => AuditMatchesRegistry
  BY DEF IndInv
<1> QED BY <1>1, Invariance, PTL

\* Without consent only an import that was under way when it was withdrawn
\* (importFromPeer) shows a server.
THEOREM ConsentUnlessRacing == Spec => []OnlyRacingImportOutlivesConsent
<1>1. IndInv => OnlyRacingImportOutlivesConsent
  BY DEF IndInv
<1> QED BY <1>1, Invariance, PTL

\* A refresh (refreshServer) takes back only what was written to a server after
\* the refresh had listed it.
THEOREM RefreshUndoesOnlyRaces == Spec => OnlyRacingRefreshUndoes
<1>1. ASSUME IndInv, NEW r \in Refreshers, RefreshServer(r),
             NEW k \in Registered(servers) \ touched[r]
      PROVE  servers'[k] = servers[k]
  <2> DEFINE g == refresh[r]
  <2>1. g # None /\ k \in Keys /\ g.list[k] = servers[k]
    BY <1>1 DEF IndInv, ListFaithful, RefreshServer, Registered
  <2>2. g.at \in Keys /\ g.list[g.at] \in Server
    BY <1>1, <2>1 DEF IndInv, TypeOK, ListFaithful, Refresh, Registry
  <2>3. Discovered(g.list[g.at]) = g.list[g.at]
    BY <2>2 DEF Discovered, Stored, Server
  <2>4. \/ servers' = [servers EXCEPT ![g.at] = g.list[g.at]]
        \/ servers' = servers
    BY <1>1, <2>3 DEF RefreshServer, Put, registryVars
  <2> QED BY <2>1, <2>2, <2>4, <1>1 DEF IndInv, TypeOK, Registry
<1>2. IndInv =>
        [\A r \in Refreshers : RefreshServer(r) =>
           \A k \in Registered(servers) \ touched[r] :
             /\ servers'[k].enabled = servers[k].enabled
             /\ servers'[k].credentials = servers[k].credentials]_vars
  BY <1>1
<1> QED BY <1>2, Invariance, PTL DEF OnlyRacingRefreshUndoes


-----------------------------------------------------------------------------
(* Registrations sent to the targets *)

PrTyped == /\ prSent \in 0..MaxRegistrations
           /\ prStatus \in [Registrations -> [Targets -> {"none", "waiting", "success", "failure"}]]
           /\ prWork \subseteq Registrations \X Targets
           /\ prHeld \in [Targets -> Nat]

PrInv == /\ PrTyped
         /\ \A p \in Registrations, t \in Targets :
              /\ prStatus[p][t] = "none" <=> p > prSent
              /\ prStatus[p][t] = "waiting" => <<p, t>> \in prWork
              /\ <<p, t>> \in prWork => p <= prSent
              /\ <<p, t>> \in prWork /\ prStatus[p][t] = "failure" => <<p, t>> \in prLeft
              /\ <<p, t>> \in prWork /\ t \notin prMixed => p = prSent
         /\ \A t \in Targets : prHeld[t] <= prSent
         /\ \A p \in prReported : p \in Registrations /\ p <= prSent
         /\ PropagationSound

LEMMA PrInitInv == PrInit => PrInv
<1> SUFFICES ASSUME PrInit PROVE PrInv
  OBVIOUS
<1>1. PrTyped
  BY PropagationAssumption DEF PrInit, PrTyped, Registrations
<1>2. PropagationSound
  BY DEF PrInit, PropagationSound, ReportsAreComplete, OnlyOverlapKeepsAnEarlierOne, FailuresAreFailures
<1> QED BY <1>1, <1>2 DEF PrInv, PrInit, Registrations

\* The status of one target, where it was still waited for.
LEMMA Settled ==
  ASSUME PrInv, NEW p \in Registrations, NEW t \in Targets, NEW outcome \in {"success", "failure"},
         Settle(p, t, outcome)
  PROVE  /\ prStatus' \in [Registrations -> [Targets -> {"none", "waiting", "success", "failure"}]]
         /\ \A q \in Registrations, u \in Targets :
              prStatus'[q][u] = IF q = p /\ u = t /\ prStatus[p][t] = "waiting" THEN outcome
                                ELSE prStatus[q][u]
BY DEF PrInv, PrTyped, Settle

LEMMA PropagateKeeps == PrInv /\ Propagate => PrInv'
<1> SUFFICES ASSUME PrInv, Propagate PROVE PrInv'
  OBVIOUS
<1>1. PICK throwing \in SUBSET Targets :
        /\ prStatus' = [prStatus EXCEPT ![prSent + 1] =
                          [t \in Targets |-> IF t \in throwing THEN "failure" ELSE "waiting"]]
        /\ prWork' = prWork \cup ({prSent + 1} \X (Targets \ throwing))
  BY DEF Propagate
<1>2. /\ prSent < MaxRegistrations /\ prSent' = prSent + 1
      /\ prMixed' = prMixed \cup {w[2] : w \in prWork}
      /\ UNCHANGED <<prReported, prHeld, prLeft>>
  BY DEF Propagate
<1>3. /\ prSent \in Nat /\ MaxRegistrations \in Nat /\ prSent + 1 \in Registrations
      /\ Registrations \subseteq Nat
  BY <1>2, PropagationAssumption DEF PrInv, PrTyped, Registrations
<1> DEFINE n == prSent + 1
<1>4. /\ prStatus' \in [Registrations -> [Targets -> {"none", "waiting", "success", "failure"}]]
      /\ \A q \in Registrations, u \in Targets :
           prStatus'[q][u] = IF q = n THEN (IF u \in throwing THEN "failure" ELSE "waiting")
                             ELSE prStatus[q][u]
  BY <1>1, <1>3 DEF PrInv, PrTyped
<1>5. \A q \in Registrations, u \in Targets :
        <<q, u>> \in prWork' <=> <<q, u>> \in prWork \/ (q = n /\ u \notin throwing)
  BY <1>1
<1>6. PrTyped'
  BY <1>1, <1>2, <1>3, <1>4 DEF PrInv, PrTyped
<1>7. ASSUME NEW p \in Registrations, NEW t \in Targets
      PROVE  /\ prStatus'[p][t] = "none" <=> p > n
             /\ prStatus'[p][t] = "waiting" => <<p, t>> \in prWork'
             /\ <<p, t>> \in prWork' => p <= n
             /\ <<p, t>> \in prWork' /\ prStatus'[p][t] = "failure" => <<p, t>> \in prLeft
             /\ <<p, t>> \in prWork' /\ t \notin prMixed' => p = n
  <2>1. CASE p = n
    <3>1. <<n, t>> \notin prWork
      BY <1>3 DEF PrInv
    <3> QED BY <1>3, <1>4, <1>5, <2>1, <3>1
  <2>2. CASE p # n
    <3>1. <<p, t>> \in prWork => t \in prMixed'
      BY <1>2
    <3>2. /\ prStatus[p][t] = "none" <=> p > prSent
          /\ prStatus[p][t] = "waiting" => <<p, t>> \in prWork
          /\ <<p, t>> \in prWork => p <= prSent
          /\ <<p, t>> \in prWork /\ prStatus[p][t] = "failure" => <<p, t>> \in prLeft
      BY DEF PrInv
    <3> QED BY <1>3, <1>4, <1>5, <2>2, <3>1, <3>2
  <2> QED BY <2>1, <2>2
<1>8. \A t \in Targets : prHeld'[t] <= prSent'
  BY <1>2, <1>3 DEF PrInv, PrTyped
<1>9. \A p \in prReported' : p \in Registrations /\ p <= prSent /\ p # n /\ p <= prSent'
  <2> SUFFICES ASSUME NEW p \in prReported
               PROVE  p \in Registrations /\ p <= prSent /\ p # prSent + 1 /\ p <= prSent + 1
    BY <1>2
  <2>1. p \in Registrations /\ p <= prSent
    BY DEF PrInv
  <2>2. p \in Nat
    BY <1>3, <2>1
  <2> QED BY <1>3, <2>1, <2>2
<1>10. ReportsAreComplete'
  BY <1>2, <1>4, <1>9 DEF PrInv, PropagationSound, ReportsAreComplete
<1>11. OnlyOverlapKeepsAnEarlierOne'
  BY <1>2, <1>4 DEF PrInv, PropagationSound, OnlyOverlapKeepsAnEarlierOne
<1>12. FailuresAreFailures'
  <2> SUFFICES ASSUME NEW t \in Targets, prHeld[t] # 0, prStatus'[prHeld[t]][t] = "failure"
               PROVE  <<prHeld[t], t>> \in prLeft
    BY <1>2 DEF FailuresAreFailures
  <2>1. prHeld[t] \in Registrations /\ prHeld[t] # n
    BY <1>3 DEF PrInv, PrTyped, Registrations
  <2>2. prStatus[prHeld[t]][t] = "failure"
    BY <1>4, <2>1
  <2> QED BY <2>2 DEF PrInv, PropagationSound, FailuresAreFailures
<1> QED BY <1>2, <1>6, <1>7, <1>8, <1>9, <1>10, <1>11, <1>12 DEF PrInv, PropagationSound

\* A target's answer: it is not waited for any more, and may hold the registration.
LEMMA AnswerKeeps ==
  ASSUME PrInv, NEW p \in Registrations, NEW t \in Targets, <<p, t>> \in prWork,
         NEW outcome \in {"success", "failure"}, Settle(p, t, outcome),
         prWork' = prWork \ {<<p, t>>}, NEW held \in {p, prHeld[t]},
         prHeld' = [prHeld EXCEPT ![t] = held], prLeft \subseteq prLeft',
         held = p /\ outcome = "failure" => <<p, t>> \in prLeft',
         outcome = "success" => held = p,
         UNCHANGED <<prSent, prReported, prMixed>>
  PROVE  PrInv'
<1>1. /\ prStatus' \in [Registrations -> [Targets -> {"none", "waiting", "success", "failure"}]]
      /\ \A q \in Registrations, u \in Targets :
           prStatus'[q][u] = IF q = p /\ u = t /\ prStatus[p][t] = "waiting" THEN outcome
                             ELSE prStatus[q][u]
  BY Settled
<1>2. /\ prSent \in Nat /\ p \in Nat /\ prHeld[t] \in Nat /\ p <= prSent /\ p # 0
      /\ prHeld[t] <= prSent /\ held \in Nat /\ held <= prSent
  BY PropagationAssumption DEF PrInv, PrTyped, Registrations
<1>3. prHeld' \in [Targets -> Nat] /\ \A u \in Targets : prHeld'[u] = IF u = t THEN held ELSE prHeld[u]
  BY <1>2 DEF PrInv, PrTyped
<1>4. PrTyped'
  BY <1>1, <1>3 DEF PrInv, PrTyped
<1>5. ASSUME NEW q \in Registrations, NEW u \in Targets
      PROVE  /\ prStatus'[q][u] = "none" <=> q > prSent
             /\ prStatus'[q][u] = "waiting" => <<q, u>> \in prWork'
             /\ <<q, u>> \in prWork' => q <= prSent
             /\ <<q, u>> \in prWork' /\ prStatus'[q][u] = "failure" => <<q, u>> \in prLeft'
             /\ <<q, u>> \in prWork' /\ u \notin prMixed => q = prSent
  <2>1. <<q, u>> \in prWork' <=> <<q, u>> \in prWork /\ ~(q = p /\ u = t)
    OBVIOUS
  <2>2. /\ prStatus[q][u] = "none" <=> q > prSent
        /\ prStatus[q][u] = "waiting" => <<q, u>> \in prWork
        /\ <<q, u>> \in prWork => q <= prSent
        /\ <<q, u>> \in prWork /\ prStatus[q][u] = "failure" => <<q, u>> \in prLeft
        /\ <<q, u>> \in prWork /\ u \notin prMixed => q = prSent
    BY DEF PrInv
  <2> QED BY <1>1, <2>1, <2>2
<1>6. \A u \in Targets : prHeld'[u] <= prSent
  BY <1>2, <1>3 DEF PrInv
<1>7. ReportsAreComplete'
  BY <1>1 DEF PrInv, PropagationSound, ReportsAreComplete
<1>8. OnlyOverlapKeepsAnEarlierOne'
  <2> SUFFICES ASSUME NEW u \in Targets \ prMixed, NEW q \in Registrations, prStatus'[q][u] = "success"
               PROVE  prHeld'[u] >= q
    BY DEF OnlyOverlapKeepsAnEarlierOne
  <2>1. q \in Nat
    BY DEF Registrations
  <2>2. q <= prSent
    <3>1. prStatus[q][u] # "none"
      BY <1>1
    <3>2. ~(q > prSent)
      BY <3>1 DEF PrInv
    <3> QED BY <1>2, <2>1, <3>2
  <2>3. CASE u = t /\ held = p
    <3>1. p = prSent
      BY <2>3 DEF PrInv
    <3> QED BY <1>2, <1>3, <2>1, <2>2, <2>3, <3>1
  <2>4. CASE ~(u = t /\ held = p)
    <3>1. prStatus[q][u] = "success" /\ prHeld'[u] = prHeld[u]
      BY <1>1, <1>3, <2>4
    <3> QED BY <3>1 DEF PrInv, PropagationSound, OnlyOverlapKeepsAnEarlierOne
  <2> QED BY <2>3, <2>4
<1>9. FailuresAreFailures'
  <2> SUFFICES ASSUME NEW u \in Targets, prHeld'[u] # 0, prStatus'[prHeld'[u]][u] = "failure"
               PROVE  <<prHeld'[u], u>> \in prLeft'
    BY DEF FailuresAreFailures
  <2>1. prHeld'[u] \in Registrations
    <3>1. prHeld'[u] \in Nat
      BY <1>3
    <3>2. prHeld'[u] <= prSent
      BY <1>6
    <3>3. prSent \in Nat /\ prSent <= MaxRegistrations
      BY PropagationAssumption DEF PrInv, PrTyped
    <3> QED BY <3>1, <3>2, <3>3, PropagationAssumption DEF Registrations
  <2>2. CASE u = t /\ held = p
    <3>1. prStatus'[p][t] = "failure" /\ prHeld'[u] = p
      BY <1>3, <2>2
    <3>2. CASE prStatus[p][t] = "waiting"
      BY <1>1, <2>2, <3>1, <3>2
    <3>3. CASE prStatus[p][t] # "waiting"
      BY <1>1, <2>2, <3>1, <3>3 DEF PrInv
    <3> QED BY <3>2, <3>3
  <2>3. CASE ~(u = t /\ held = p)
    <3>1. prHeld'[u] = prHeld[u] /\ ~(prHeld[u] = p /\ u = t)
      BY <1>3, <2>3
    <3>2. prStatus[prHeld[u]][u] = "failure"
      BY <1>1, <2>1, <3>1
    <3>3. <<prHeld[u], u>> \in prLeft
      BY <3>1, <3>2 DEF PrInv, PropagationSound, FailuresAreFailures
    <3> QED BY <3>1, <3>3
  <2> QED BY <2>2, <2>3
<1>10. \A q \in prReported' : q \in Registrations /\ q <= prSent'
  BY DEF PrInv
<1> QED BY <1>4, <1>5, <1>6, <1>7, <1>8, <1>9, <1>10 DEF PrInv, PropagationSound

LEMMA TargetTimesOutKeeps ==
  ASSUME PrInv, NEW p \in Registrations, NEW t \in Targets, TargetTimesOut(p, t)
  PROVE  PrInv'
<1>1. /\ <<p, t>> \in prWork /\ prStatus[p][t] = "waiting" /\ prLeft' = prLeft \cup {<<p, t>>}
      /\ Settle(p, t, "failure") /\ UNCHANGED <<prSent, prReported, prWork, prHeld, prMixed>>
  BY DEF TargetTimesOut
<1>2. /\ prStatus' \in [Registrations -> [Targets -> {"none", "waiting", "success", "failure"}]]
      /\ \A q \in Registrations, u \in Targets :
           prStatus'[q][u] = IF q = p /\ u = t THEN "failure" ELSE prStatus[q][u]
  BY <1>1, Settled
<1>3. PrTyped'
  BY <1>1, <1>2 DEF PrInv, PrTyped
<1>4. ASSUME NEW q \in Registrations, NEW u \in Targets
      PROVE  /\ prStatus'[q][u] = "none" <=> q > prSent
             /\ prStatus'[q][u] = "waiting" => <<q, u>> \in prWork
             /\ <<q, u>> \in prWork /\ prStatus'[q][u] = "failure" => <<q, u>> \in prLeft'
  BY <1>1, <1>2 DEF PrInv
<1>5. ReportsAreComplete'
  BY <1>1, <1>2 DEF PrInv, PropagationSound, ReportsAreComplete
<1>6. OnlyOverlapKeepsAnEarlierOne'
  BY <1>1, <1>2 DEF PrInv, PropagationSound, OnlyOverlapKeepsAnEarlierOne
<1>7. FailuresAreFailures'
  <2> SUFFICES ASSUME NEW u \in Targets, prHeld[u] # 0, prStatus'[prHeld[u]][u] = "failure"
               PROVE  <<prHeld[u], u>> \in prLeft'
    BY <1>1 DEF FailuresAreFailures
  <2>1. prHeld[u] \in Registrations
    BY PropagationAssumption DEF PrInv, PrTyped, Registrations
  <2>2. prStatus[prHeld[u]][u] = "failure" \/ (prHeld[u] = p /\ u = t)
    BY <1>2, <2>1
  <2>3. prStatus[prHeld[u]][u] = "failure" => <<prHeld[u], u>> \in prLeft
    BY DEF PrInv, PropagationSound, FailuresAreFailures
  <2> QED BY <1>1, <2>2, <2>3
<1> QED BY <1>1, <1>3, <1>4, <1>5, <1>6, <1>7 DEF PrInv, PropagationSound

LEMMA ReportKeeps ==
  ASSUME PrInv, NEW p \in Registrations, Report(p)
  PROVE  PrInv'
<1>1. /\ p <= prSent /\ \A t \in Targets : prStatus[p][t] # "waiting"
      /\ prReported' = prReported \cup {p}
      /\ UNCHANGED <<prSent, prStatus, prWork, prHeld, prLeft, prMixed>>
  BY DEF Report
<1>2. \A t \in Targets : prStatus[p][t] \in {"success", "failure"}
  <2> TAKE t \in Targets
  <2>1. prStatus[p][t] \in {"none", "waiting", "success", "failure"}
    BY DEF PrInv, PrTyped
  <2>2. p \in Nat /\ prSent \in Nat
    BY PropagationAssumption DEF PrInv, PrTyped, Registrations
  <2>3. prStatus[p][t] # "none"
    <3>1. prStatus[p][t] = "none" <=> p > prSent
      BY DEF PrInv
    <3> QED BY <1>1, <2>2, <3>1
  <2> QED BY <1>1, <2>1, <2>3
<1>3. ReportsAreComplete'
  BY <1>1, <1>2 DEF PrInv, PropagationSound, ReportsAreComplete
<1>4. OnlyOverlapKeepsAnEarlierOne' /\ FailuresAreFailures'
  BY <1>1 DEF PrInv, PropagationSound, OnlyOverlapKeepsAnEarlierOne, FailuresAreFailures
<1> QED BY <1>1, <1>3, <1>4 DEF PrInv, PrTyped, PropagationSound

LEMMA PrNextInv == PrInv /\ [PrNext]_prVars => PrInv'
<1> SUFFICES ASSUME PrInv, [PrNext]_prVars PROVE PrInv'
  OBVIOUS
<1>1. ASSUME NEW p \in Registrations, NEW t \in Targets, Arrives(p, t) PROVE PrInv'
  <2>1. /\ <<p, t>> \in prWork /\ prWork' = prWork \ {<<p, t>>} /\ prHeld' = [prHeld EXCEPT ![t] = p]
        /\ Settle(p, t, "success") /\ UNCHANGED <<prSent, prReported, prLeft, prMixed>>
    BY <1>1 DEF Arrives
  <2> QED BY <2>1, AnswerKeeps
<1>2. ASSUME NEW p \in Registrations, NEW t \in Targets, TargetFails(p, t) PROVE PrInv'
  <2>1. PICK held \in {p, prHeld[t]} :
          /\ prHeld' = [prHeld EXCEPT ![t] = held]
          /\ prLeft' = IF held = p THEN prLeft \cup {<<p, t>>} ELSE prLeft
    BY <1>2 DEF TargetFails
  <2>2. /\ <<p, t>> \in prWork /\ prWork' = prWork \ {<<p, t>>} /\ Settle(p, t, "failure")
        /\ UNCHANGED <<prSent, prReported, prMixed>>
    BY <1>2 DEF TargetFails
  <2>3. prLeft \subseteq prLeft' /\ (held = p => <<p, t>> \in prLeft')
    BY <2>1
  <2> QED BY <2>1, <2>2, <2>3, AnswerKeeps
<1>3. CASE UNCHANGED prVars
  BY <1>3 DEF prVars, PrInv, PrTyped, PropagationSound, ReportsAreComplete,
     OnlyOverlapKeepsAnEarlierOne, FailuresAreFailures
<1> QED BY <1>1, <1>2, <1>3, PropagateKeeps, ReportKeeps, TargetTimesOutKeeps DEF PrNext

(* For any targets and registrations: a report is of every target and stands,
   only work of two registrations at once leaves a target with the earlier
   one, and what a target holds failed only if it had taken it. *)
THEOREM RegistrationsReported == PrSpec => []PropagationSound
<1>1. PrInv => PropagationSound
  BY DEF PrInv
<1> QED BY <1>1, PrInitInv, PrNextInv, PTL DEF PrSpec
-----------------------------------------------------------------------------
(* The health of the servers *)

Statuses == {"unknown", "degraded", "healthy", "unhealthy"}
ServerStates == [status : Statuses, lastCheck : Nat, failures : Nat, streak : Nat, success : BOOLEAN,
                 timedOut : BOOLEAN, retries : Nat, lastSuccess : Int, lastFailure : Int]
AskingChecks == [at : {"asking"}, attempt : Nat, timedOut : BOOLEAN, retries : Nat]
HookChecks == [at : {"onCheckComplete", "onTransition", "onAudit", "onUnhealthy"},
               from : Statuses, to : Statuses, nth : Nat]
HealthChecks == {NoCheck} \cup AskingChecks \cup HookChecks
HeardEntries == [from : Statuses, to : Statuses, nth : Nat]

HcTyped == /\ hcStates \in [HealthServers -> ServerStates]
           /\ hcRun \in [HealthRuns -> {"idle", "listing", "checking"}]
           /\ hcCheck \in [HealthRuns -> [HealthServers -> HealthChecks]]
           /\ hcOutcomes \in [HealthServers -> Seq(BOOLEAN)]
           /\ hcStatuses \in [HealthServers -> Seq(Statuses)]
           /\ hcHeard \in [HealthServers -> [Hooks3 -> Seq(HeardEntries)]]

\* n outcomes at the end have this value, and none before them.
Trails(outcomes, value, n) ==
  /\ n <= Len(outcomes)
  /\ \A i \in (Len(outcomes) - n + 1)..Len(outcomes) : outcomes[i] = value
  /\ n < Len(outcomes) => outcomes[Len(outcomes) - n] # value

\* time is when this value was stored last.
LastAt(outcomes, value, time) ==
  \/ time = -1 /\ \A i \in DOMAIN outcomes : outcomes[i] # value
  \/ /\ time \in DOMAIN outcomes /\ outcomes[time] = value
     /\ \A i \in DOMAIN outcomes : outcomes[i] = value => i <= time

StateSound(state, outcomes) ==
  /\ Trails(outcomes, FALSE, state.failures) /\ Trails(outcomes, TRUE, state.streak)
  /\ LastAt(outcomes, TRUE, state.lastSuccess) /\ LastAt(outcomes, FALSE, state.lastFailure)
  /\ state.lastCheck = Len(outcomes)
  /\ state.status = "unknown" <=> outcomes = <<>>
  /\ state.status = "unhealthy" <=> state.failures >= FailureThreshold
  /\ state.status = "healthy" <=> state.streak >= SuccessThreshold
  /\ state.success /\ state.timedOut => HealthRetries > 0
  /\ state.success => state.retries < HealthRetries \/ HealthRetries = 0
  /\ ~state.success /\ state.status # "unknown" => state.retries = HealthRetries

\* A check that is being made: how often it was tried.
AskingSound(check) ==
  check.at = "asking" =>
    /\ check.attempt <= HealthRetries
    /\ check.retries = IF check.attempt = 0 THEN 0 ELSE check.attempt - 1
    /\ check.timedOut => check.attempt > 0

\* A check whose hooks are awaited tells the statuses around its place.
TellingSound(check, statuses) ==
  Awaiting(check) =>
    /\ check.nth \in 2..Len(statuses)
    /\ check.from = statuses[check.nth - 1] /\ check.to = statuses[check.nth]
    /\ check.at # "onCheckComplete" => check.from # check.to
    /\ check.at = "onUnhealthy" => check.to = "unhealthy"

Called(check, h) ==
  CASE h = "onTransition" -> check.at \in Hooks3
    [] h = "onAudit" -> check.at \in {"onAudit", "onUnhealthy"}
    [] h = "onUnhealthy" -> check.at = "onUnhealthy"

\* The hook will be called for this check, if it is due.
AheadOf(check, h) == Awaiting(check) /\ ~Called(check, h)

\* What a hook has heard.
HeardSound(s, h) ==
  /\ \A i \in DOMAIN hcHeard[s][h] :
       /\ hcHeard[s][h][i].nth \in DueTo(h, hcStatuses[s])
       /\ hcHeard[s][h][i].from = hcStatuses[s][hcHeard[s][h][i].nth - 1]
       /\ hcHeard[s][h][i].to = hcStatuses[s][hcHeard[s][h][i].nth]
  /\ \A i, j \in DOMAIN hcHeard[s][h] : hcHeard[s][h][i].nth = hcHeard[s][h][j].nth => i = j
  /\ \A r \in HealthRuns : AheadOf(hcCheck[r][s], h) =>
       \A i \in DOMAIN hcHeard[s][h] : hcHeard[s][h][i].nth # hcCheck[r][s].nth

\* Undisturbed, it has heard all that is due but for the check whose hooks are awaited.
HeardInOrder(s, h) ==
  /\ \A i, j \in DOMAIN hcHeard[s][h] : i < j => hcHeard[s][h][i].nth < hcHeard[s][h][j].nth
  /\ \A n \in DueTo(h, hcStatuses[s]) :
       \/ \E i \in DOMAIN hcHeard[s][h] : hcHeard[s][h][i].nth = n
       \/ \E r \in HealthRuns : AheadOf(hcCheck[r][s], h) /\ hcCheck[r][s].nth = n

\* Checks of one server whose hooks are awaited at the same time.
AwaitedSound(s) ==
  /\ \A q, r \in HealthRuns : q # r /\ Awaiting(hcCheck[q][s]) /\ Awaiting(hcCheck[r][s]) =>
       s \in hcCrossed /\ hcCheck[q][s].nth # hcCheck[r][s].nth
  /\ s \notin hcCrossed => \A r \in HealthRuns :
       Awaiting(hcCheck[r][s]) => hcCheck[r][s].nth = Len(hcStatuses[s])

ServerSound(s) ==
  /\ StateSound(hcStates[s], hcOutcomes[s])
  /\ Len(hcStatuses[s]) = Len(hcOutcomes[s]) + 1
  /\ hcStates[s].status = hcStatuses[s][Len(hcStatuses[s])]
  /\ \A r \in HealthRuns : AskingSound(hcCheck[r][s]) /\ TellingSound(hcCheck[r][s], hcStatuses[s])
  /\ AwaitedSound(s)
  /\ \A h \in Hooks3 : HeardSound(s, h)
  /\ \A h \in Hooks3 : s \notin hcCrossed \cup hcBroken => HeardInOrder(s, h)

HcInv ==
  /\ HcTyped
  /\ \A r \in HealthRuns : hcRun[r] # "checking" => \A s \in HealthServers : hcCheck[r][s] = NoCheck
  /\ \A s \in HealthServers : ServerSound(s)

LEMMA HcInitInv == HcInit => HcInv
<1> SUFFICES ASSUME HcInit PROVE HcInv
  OBVIOUS
<1>1. HcTyped
  <2>1. NeverChecked \in ServerStates
    BY DEF NeverChecked, ServerStates, Statuses
  <2>2. <<"unknown">> \in Seq(Statuses)
    BY DEF Statuses
  <2> QED BY <2>1, <2>2 DEF HcInit, HcTyped, HealthChecks
<1>2. \A r \in HealthRuns, s \in HealthServers : hcCheck[r][s] = NoCheck
  BY DEF HcInit
<1>3. ~Awaiting(NoCheck) /\ NoCheck.at # "asking"
  BY DEF Awaiting, NoCheck, Hooks3
<1>4. ASSUME NEW s \in HealthServers PROVE ServerSound(s)
  <2>1. /\ hcStates[s] = NeverChecked /\ hcOutcomes[s] = <<>> /\ hcStatuses[s] = <<"unknown">>
        /\ \A h \in Hooks3 : hcHeard[s][h] = <<>>
    BY DEF HcInit
  <2>2. StateSound(NeverChecked, <<>>)
    BY HealthAssumption DEF StateSound, NeverChecked, Trails, LastAt
  <2>3. \A h \in Hooks3 : DueTo(h, <<"unknown">>) = {}
    BY DEF DueTo
  <2>4. \A r \in HealthRuns : AskingSound(hcCheck[r][s]) /\ TellingSound(hcCheck[r][s], hcStatuses[s])
    BY <1>2, <1>3 DEF AskingSound, TellingSound
  <2>5. AwaitedSound(s)
    BY <1>2, <1>3 DEF AwaitedSound
  <2>6. \A h \in Hooks3 : HeardSound(s, h) /\ HeardInOrder(s, h)
    BY <2>1, <2>3 DEF HeardSound, HeardInOrder
  <2>7. Len(hcStatuses[s]) = Len(hcOutcomes[s]) + 1 /\ hcStates[s].status = hcStatuses[s][Len(hcStatuses[s])]
    BY <2>1 DEF NeverChecked
  <2> QED BY <2>1, <2>2, <2>4, <2>5, <2>6, <2>7 DEF ServerSound
<1> QED BY <1>1, <1>2, <1>4 DEF HcInv

LEMMA CheckFields ==
  ASSUME NEW k \in HealthChecks
  PROVE  /\ k.at = "none" => k = NoCheck
         /\ k.at = "asking" => k \in AskingChecks
         /\ Awaiting(k) => k \in HookChecks
         /\ k.at = "asking" \/ k.at = "none" <=> ~Awaiting(k)
BY DEF HealthChecks, NoCheck, AskingChecks, HookChecks, Awaiting, Hooks3

\* The checks of a server either stay or change while none of their hooks is awaited.
LEMMA QuietKeeps ==
  ASSUME NEW s \in HealthServers, ServerSound(s),
         hcStates'[s] = hcStates[s], hcOutcomes'[s] = hcOutcomes[s], hcStatuses'[s] = hcStatuses[s],
         hcHeard'[s] = hcHeard[s], s \in hcCrossed' <=> s \in hcCrossed, s \in hcBroken' <=> s \in hcBroken,
         \A r \in HealthRuns : \/ hcCheck'[r][s] = hcCheck[r][s]
                               \/ /\ ~Awaiting(hcCheck[r][s]) /\ ~Awaiting(hcCheck'[r][s])
                                  /\ AskingSound(hcCheck'[r][s])
  PROVE  ServerSound(s)'
<1>1. \A r \in HealthRuns, h \in Hooks3 :
        /\ AheadOf(hcCheck'[r][s], h) => hcCheck'[r][s] = hcCheck[r][s]
        /\ AheadOf(hcCheck[r][s], h) => hcCheck'[r][s] = hcCheck[r][s]
  BY DEF AheadOf
<1>2. \A r \in HealthRuns : AskingSound(hcCheck'[r][s]) /\ TellingSound(hcCheck'[r][s], hcStatuses'[s])
  BY DEF ServerSound, TellingSound
<1>3. AwaitedSound(s)'
  BY DEF ServerSound, AwaitedSound
<1>4. ASSUME NEW h \in Hooks3 PROVE HeardSound(s, h)'
  BY <1>1 DEF ServerSound, HeardSound
<1>5. ASSUME NEW h \in Hooks3, s \notin hcCrossed' \cup hcBroken' PROVE HeardInOrder(s, h)'
  BY <1>1, <1>5 DEF ServerSound, HeardInOrder
<1> QED BY <1>2, <1>3, <1>4, <1>5 DEF ServerSound

-----------------------------------------------------------------------------
(* Steps that store nothing and call no hook *)

\* One check changes, and nothing else.
LEMMA CheckMoves ==
  ASSUME HcInv, NEW r \in HealthRuns, NEW s \in HealthServers, NEW k \in HealthChecks,
         Becomes(r, s, k), hcCheck[r][s].at = "asking", ~Awaiting(k), AskingSound(k),
         UNCHANGED <<hcStates, hcRun, hcTold>>
  PROVE  HcInv'
<1>1. /\ hcCheck' = [hcCheck EXCEPT ![r][s] = k]
      /\ UNCHANGED <<hcStates, hcRun, hcOutcomes, hcStatuses, hcHeard, hcCrossed, hcBroken>>
  BY DEF Becomes, hcTold
<1>2. /\ hcCheck \in [HealthRuns -> [HealthServers -> HealthChecks]]
      /\ hcCheck' \in [HealthRuns -> [HealthServers -> HealthChecks]]
      /\ \A q \in HealthRuns, t \in HealthServers :
           hcCheck'[q][t] = IF q = r /\ t = s THEN k ELSE hcCheck[q][t]
  BY <1>1 DEF HcInv, HcTyped
<1>3. HcTyped'
  BY <1>1, <1>2 DEF HcInv, HcTyped
<1>4. ~Awaiting(hcCheck[r][s])
  BY <1>2, CheckFields
<1>5. ASSUME NEW t \in HealthServers PROVE ServerSound(t)'
  <2>1. ServerSound(t)
    BY DEF HcInv
  <2>2. \A q \in HealthRuns : \/ hcCheck'[q][t] = hcCheck[q][t]
                              \/ /\ ~Awaiting(hcCheck[q][t]) /\ ~Awaiting(hcCheck'[q][t])
                                 /\ AskingSound(hcCheck'[q][t])
    BY <1>2, <1>4
  <2> QED BY <1>1, <2>1, <2>2, QuietKeeps
<1>6. \A q \in HealthRuns : hcRun'[q] # "checking" => \A t \in HealthServers : hcCheck'[q][t] = NoCheck
  <2>1. NoCheck.at # "asking"
    BY DEF NoCheck
  <2> QED BY <1>1, <1>2, <2>1 DEF HcInv
<1> QED BY <1>3, <1>5, <1>6 DEF HcInv

LEMMA RetriesKeeps ==
  ASSUME HcInv, NEW r \in HealthRuns, NEW s \in HealthServers, NEW timedOut \in BOOLEAN,
         hcCheck[r][s].at = "asking", Retries(r, s, timedOut)
  PROVE  HcInv'
<1> DEFINE k == hcCheck[r][s]
           j == [k EXCEPT !.attempt = @ + 1, !.retries = k.attempt, !.timedOut = timedOut]
<1>1. k.attempt < HealthRetries /\ Becomes(r, s, j) /\ UNCHANGED <<hcStates, hcRun, hcTold>>
  BY DEF Retries
<1>2. k \in AskingChecks
  BY CheckFields DEF HcInv, HcTyped
<1>3. j = [k EXCEPT !.attempt = k.attempt + 1, !.retries = k.attempt, !.timedOut = timedOut]
  OBVIOUS
<1> HIDE DEF k, j
<1>4. /\ k.attempt \in Nat
      /\ j = [at |-> "asking", attempt |-> k.attempt + 1, timedOut |-> timedOut, retries |-> k.attempt]
  <2>1. k \in [at : {"asking"}, attempt : Nat, timedOut : BOOLEAN, retries : Nat]
    BY <1>2 DEF AskingChecks
  <2> QED BY <1>3, <2>1
<1>5. j \in HealthChecks /\ ~Awaiting(j)
  BY <1>4 DEF HealthChecks, AskingChecks, Awaiting, Hooks3
<1>6. AskingSound(j)
  BY <1>1, <1>4, HealthAssumption DEF AskingSound
<1> QED BY <1>1, <1>5, <1>6, CheckMoves

LEMMA ThrowsKeeps ==
  ASSUME HcInv, NEW r \in HealthRuns, NEW s \in HealthServers, ThrowsAtOnce(r, s)
  PROVE  HcInv'
<1>1. NoCheck \in HealthChecks /\ ~Awaiting(NoCheck) /\ AskingSound(NoCheck)
  BY DEF HealthChecks, NoCheck, Awaiting, Hooks3, AskingSound
<1> QED BY <1>1, CheckMoves DEF ThrowsAtOnce, At

LEMMA RunsKeep ==
  ASSUME HcInv, NEW r \in HealthRuns, RunChecks(r) \/ ServersListed(r) \/ RunEnds(r)
  PROVE  HcInv'
<1>1. UNCHANGED <<hcStates, hcOutcomes, hcStatuses, hcHeard, hcCrossed, hcBroken>>
  BY DEF RunChecks, ServersListed, RunEnds, hcTold
<1>2. ~Awaiting(NoCheck) /\ AskingSound(NoCheck) /\ NoCheck \in HealthChecks
  BY DEF HealthChecks, NoCheck, Awaiting, Hooks3, AskingSound
<1>3. ~Awaiting(NewCheck) /\ AskingSound(NewCheck) /\ NewCheck \in HealthChecks
  BY HealthAssumption DEF HealthChecks, AskingChecks, NewCheck, Awaiting, Hooks3, AskingSound
<1>4. CASE RunChecks(r) \/ RunEnds(r)
  <2>1. hcCheck' = hcCheck
    BY <1>4 DEF RunChecks, RunEnds
  <2>2. \A s \in HealthServers : ServerSound(s)'
    BY <1>1, <2>1, QuietKeeps DEF HcInv
  <2>3. RunEnds(r) => \A s \in HealthServers : hcCheck[r][s] = NoCheck
    BY CheckFields DEF RunEnds, At, HcInv, HcTyped
  <2>4. \A q \in HealthRuns : hcRun'[q] # "checking" => \A s \in HealthServers : hcCheck'[q][s] = NoCheck
    <3> SUFFICES ASSUME NEW q \in HealthRuns, hcRun'[q] # "checking"
                 PROVE  \A s \in HealthServers : hcCheck[q][s] = NoCheck
      BY <2>1
    <3>1. CASE q # r
      <4>1. hcRun'[q] = hcRun[q]
        BY <1>4, <3>1 DEF RunChecks, RunEnds, HcInv, HcTyped
      <4> QED BY <4>1 DEF HcInv
    <3>2. CASE q = r /\ RunChecks(r)
      BY <3>2 DEF RunChecks, HcInv
    <3> QED BY <1>4, <2>3, <3>1, <3>2
  <2>5. HcTyped'
    BY <1>1, <1>4, <2>1 DEF HcInv, HcTyped, RunChecks, RunEnds
  <2> QED BY <2>2, <2>4, <2>5 DEF HcInv
<1>5. CASE ServersListed(r)
  <2>1. PICK enabled \in SUBSET HealthServers :
          hcCheck' = [hcCheck EXCEPT ![r] =
                        [s \in HealthServers |-> IF s \in enabled THEN NewCheck ELSE NoCheck]]
    BY <1>5 DEF ServersListed
  <2>2. /\ hcRun[r] = "listing" /\ hcRun' = [hcRun EXCEPT ![r] = "checking"]
        /\ hcRun \in [HealthRuns -> {"idle", "listing", "checking"}]
    BY <1>5 DEF ServersListed, HcInv, HcTyped
  <2>3. /\ hcCheck' \in [HealthRuns -> [HealthServers -> HealthChecks]]
        /\ \A q \in HealthRuns, s \in HealthServers :
             hcCheck'[q][s] = IF q = r THEN (IF s \in enabled THEN NewCheck ELSE NoCheck) ELSE hcCheck[q][s]
    BY <1>2, <1>3, <2>1 DEF HcInv, HcTyped
  <2>4. \A s \in HealthServers : hcCheck[r][s] = NoCheck
    BY <2>2 DEF HcInv
  <2>5. ASSUME NEW s \in HealthServers PROVE ServerSound(s)'
    <3>1. \A q \in HealthRuns : \/ hcCheck'[q][s] = hcCheck[q][s]
                                \/ /\ ~Awaiting(hcCheck[q][s]) /\ ~Awaiting(hcCheck'[q][s])
                                   /\ AskingSound(hcCheck'[q][s])
      BY <1>2, <1>3, <2>3, <2>4
    <3>2. ServerSound(s)
      BY DEF HcInv
    <3> QED BY <1>1, <3>1, <3>2, QuietKeeps
  <2>6. \A q \in HealthRuns : hcRun'[q] # "checking" => q # r /\ hcRun'[q] = hcRun[q]
    BY <2>2
  <2>7. \A q \in HealthRuns : hcRun'[q] # "checking" => \A s \in HealthServers : hcCheck'[q][s] = NoCheck
    BY <2>3, <2>6 DEF HcInv
  <2>8. HcTyped'
    BY <1>1, <2>2, <2>3 DEF HcInv, HcTyped
  <2> QED BY <2>5, <2>7, <2>8 DEF HcInv
<1> QED BY <1>4, <1>5

-----------------------------------------------------------------------------
(* A result that is stored *)

LEMMA TrailsOn ==
  ASSUME NEW outcomes \in Seq(BOOLEAN), NEW success \in BOOLEAN, NEW value \in BOOLEAN, NEW n \in Nat,
         Trails(outcomes, value, n)
  PROVE  Trails(Append(outcomes, success), value, IF success = value THEN n + 1 ELSE 0)
<1> DEFINE new == Append(outcomes, success)
           l == Len(outcomes)
<1>1. /\ l \in Nat /\ Len(new) = l + 1 /\ new[l + 1] = success
      /\ \A i \in 1..l : new[i] = outcomes[i]
  OBVIOUS
<1>2. /\ n <= l /\ \A i \in (l - n + 1)..l : outcomes[i] = value
      /\ n < l => outcomes[l - n] # value
  BY DEF Trails
<1> HIDE DEF new, l
<1>3. CASE success = value
  <2>1. n + 1 <= l + 1
    BY <1>1, <1>2
  <2>2. \A i \in ((l + 1) - (n + 1) + 1)..(l + 1) : new[i] = value
    <3> TAKE i \in ((l + 1) - (n + 1) + 1)..(l + 1)
    <3>1. CASE i = l + 1
      BY <1>1, <1>3, <3>1
    <3>2. CASE i # l + 1
      <4>1. i \in (l - n + 1)..l /\ i \in 1..l
        BY <1>1, <1>2, <3>2
      <4> QED BY <1>1, <1>2, <4>1
    <3> QED BY <3>1, <3>2
  <2>3. ASSUME n + 1 < l + 1 PROVE new[(l + 1) - (n + 1)] # value
    <3>1. n < l /\ l - n \in 1..l /\ (l + 1) - (n + 1) = l - n
      BY <1>1, <2>3
    <3> QED BY <1>1, <1>2, <3>1
  <2>4. Trails(new, value, n + 1)
    BY <1>1, <2>1, <2>2, <2>3 DEF Trails
  <2> QED BY <1>3, <2>4 DEF new
<1>4. CASE success # value
  <2>1. Trails(new, value, 0)
    BY <1>1, <1>4 DEF Trails
  <2> QED BY <1>4, <2>1 DEF new
<1> QED BY <1>3, <1>4

LEMMA LastOn ==
  ASSUME NEW outcomes \in Seq(BOOLEAN), NEW success \in BOOLEAN, NEW value \in BOOLEAN, NEW time \in Int,
         LastAt(outcomes, value, time)
  PROVE  LastAt(Append(outcomes, success), value, IF success = value THEN Len(outcomes) + 1 ELSE time)
<1> DEFINE new == Append(outcomes, success)
           l == Len(outcomes)
<1>1. /\ l \in Nat /\ DOMAIN new = 1..(l + 1) /\ DOMAIN outcomes = 1..l /\ new[l + 1] = success
      /\ \A i \in 1..l : new[i] = outcomes[i]
  OBVIOUS
<1> HIDE DEF new, l
<1>2. CASE success = value
  <2>1. LastAt(new, value, l + 1)
    BY <1>1, <1>2 DEF LastAt
  <2> QED BY <1>2, <2>1 DEF new, l
<1>3. CASE success # value
  <2>1. \A i \in DOMAIN new : new[i] = value => i \in DOMAIN outcomes /\ outcomes[i] = value
    BY <1>1, <1>3
  <2>2. \A i \in DOMAIN outcomes : i \in DOMAIN new /\ new[i] = outcomes[i]
    BY <1>1
  <2>3. LastAt(new, value, time)
    BY <2>1, <2>2 DEF LastAt
  <2> QED BY <1>3, <2>3 DEF new
<1> QED BY <1>2, <1>3

\* What updateState stores.
LEMMA NextStateSound ==
  ASSUME NEW old \in ServerStates, NEW outcomes \in Seq(BOOLEAN), StateSound(old, outcomes),
         NEW success \in BOOLEAN, NEW timedOut \in BOOLEAN, NEW check \in AskingChecks,
         timedOut /\ success => HealthRetries > 0,
         success => check.retries < HealthRetries \/ HealthRetries = 0,
         ~success => check.retries = HealthRetries
  PROVE  LET new == NextState(old, check, success, timedOut, Len(outcomes) + 1)
         IN  new \in ServerStates /\ StateSound(new, Append(outcomes, success))
<1> DEFINE now == Len(outcomes) + 1
           new == NextState(old, check, success, timedOut, now)
           failures == IF success THEN 0 ELSE old.failures + 1
           streak == IF success THEN old.streak + 1 ELSE 0
<1>1. now \in Nat /\ old.failures \in Nat /\ old.streak \in Nat /\ old.lastSuccess \in Int
      /\ old.lastFailure \in Int /\ check.retries \in Nat
  BY DEF ServerStates, AskingChecks
<1>2. new = [status |-> IF success /\ streak >= SuccessThreshold THEN "healthy"
                        ELSE IF ~success /\ failures >= FailureThreshold THEN "unhealthy" ELSE "degraded",
             lastCheck |-> now, failures |-> failures, streak |-> streak,
             success |-> success, timedOut |-> timedOut, retries |-> check.retries,
             lastSuccess |-> IF success THEN now ELSE old.lastSuccess,
             lastFailure |-> IF success THEN old.lastFailure ELSE now]
  BY DEF NextState
<1>3. failures \in Nat /\ streak \in Nat
  BY <1>1
<1>4. /\ Trails(outcomes, FALSE, old.failures) /\ Trails(outcomes, TRUE, old.streak)
      /\ LastAt(outcomes, TRUE, old.lastSuccess) /\ LastAt(outcomes, FALSE, old.lastFailure)
  BY DEF StateSound
<1>5. /\ Trails(Append(outcomes, success), FALSE, failures)
      /\ Trails(Append(outcomes, success), TRUE, streak)
  <2>1. Trails(Append(outcomes, success), FALSE, IF success = FALSE THEN old.failures + 1 ELSE 0)
    BY <1>1, <1>4, TrailsOn
  <2>2. Trails(Append(outcomes, success), TRUE, IF success = TRUE THEN old.streak + 1 ELSE 0)
    BY <1>1, <1>4, TrailsOn
  <2>3. CASE success = TRUE
    BY <2>1, <2>2, <2>3
  <2>4. CASE success = FALSE
    BY <2>1, <2>2, <2>4
  <2> QED BY <2>3, <2>4
<1>6. /\ LastAt(Append(outcomes, success), TRUE, IF success THEN now ELSE old.lastSuccess)
      /\ LastAt(Append(outcomes, success), FALSE, IF success THEN old.lastFailure ELSE now)
  <2>1. LastAt(Append(outcomes, success), TRUE, IF success = TRUE THEN now ELSE old.lastSuccess)
    BY <1>1, <1>4, LastOn
  <2>2. LastAt(Append(outcomes, success), FALSE, IF success = FALSE THEN now ELSE old.lastFailure)
    BY <1>1, <1>4, LastOn
  <2>3. CASE success = TRUE
    BY <2>1, <2>2, <2>3
  <2>4. CASE success = FALSE
    BY <2>1, <2>2, <2>4
  <2> QED BY <2>3, <2>4
<1>7. Len(Append(outcomes, success)) = now /\ Append(outcomes, success) # <<>>
  OBVIOUS
<1>8. success => failures = 0
  OBVIOUS
<1>9. ~success => streak = 0
  OBVIOUS
<1> HIDE DEF new, failures, streak, now
<1>10. new \in ServerStates
  BY <1>1, <1>2, <1>3 DEF ServerStates, Statuses
<1>11. /\ new.status = "unhealthy" <=> new.failures >= FailureThreshold
       /\ new.status = "healthy" <=> new.streak >= SuccessThreshold
       /\ new.status # "unknown"
  BY <1>2, <1>3, <1>8, <1>9, HealthAssumption
<1>12. /\ new.failures = failures /\ new.streak = streak /\ new.lastCheck = now
       /\ new.lastSuccess = IF success THEN now ELSE old.lastSuccess
       /\ new.lastFailure = IF success THEN old.lastFailure ELSE now
       /\ new.success = success /\ new.timedOut = timedOut /\ new.retries = check.retries
  BY <1>2
<1>13. StateSound(new, Append(outcomes, success))
  BY <1>5, <1>6, <1>7, <1>11, <1>12 DEF StateSound
<1> QED BY <1>10, <1>13 DEF new, now

\* The new status is due to a hook or not, and nothing else becomes due.
LEMMA DueOn ==
  ASSUME NEW statuses \in Seq(Statuses), NEW status \in Statuses, NEW h \in Hooks3
  PROVE  /\ DueTo(h, statuses) \subseteq DueTo(h, Append(statuses, status))
         /\ DueTo(h, Append(statuses, status)) \subseteq DueTo(h, statuses) \cup {Len(statuses) + 1}
         /\ \A n \in DueTo(h, statuses) : n \in 2..Len(statuses)
<1> DEFINE new == Append(statuses, status)
           l == Len(statuses)
<1>1. l \in Nat /\ Len(new) = l + 1 /\ \A i \in 1..l : new[i] = statuses[i]
  OBVIOUS
<1> HIDE DEF new, l
<1>2. \A n \in 2..l : n \in 1..l /\ n - 1 \in 1..l /\ new[n] = statuses[n] /\ new[n - 1] = statuses[n - 1]
  BY <1>1
<1>3. /\ DueTo(h, statuses) = {n \in 2..l : /\ statuses[n - 1] # statuses[n]
                                            /\ h = "onUnhealthy" => statuses[n] = "unhealthy"}
      /\ DueTo(h, new) = {n \in 2..(l + 1) : /\ new[n - 1] # new[n]
                                             /\ h = "onUnhealthy" => new[n] = "unhealthy"}
  BY <1>1 DEF DueTo, l
<1>4. \A n : n \in 2..(l + 1) <=> n \in 2..l \/ (n = l + 1 /\ l >= 1)
  BY <1>1
<1>5. DueTo(h, statuses) \subseteq DueTo(h, new)
  BY <1>2, <1>3, <1>4
<1>6. DueTo(h, new) \subseteq DueTo(h, statuses) \cup {l + 1}
  BY <1>2, <1>3, <1>4
<1>7. \A n \in DueTo(h, statuses) : n \in 2..l
  BY <1>3
<1> QED BY <1>5, <1>6, <1>7 DEF new, l

LEMMA StoreKeeps ==
  ASSUME HcInv, NEW r \in HealthRuns, NEW s \in HealthServers, NEW success \in BOOLEAN,
         NEW timedOut \in BOOLEAN, hcCheck[r][s].at = "asking", StoreResult(r, s, success, timedOut),
         success => timedOut = hcCheck[r][s].timedOut,
         ~success => hcCheck[r][s].attempt = HealthRetries
  PROVE  HcInv'
<1> DEFINE k == hcCheck[r][s]
           old == hcStates[s]
           asked == [k EXCEPT !.retries = IF success THEN k.retries ELSE k.attempt]
           new == NextState(old, asked, success, timedOut, Len(hcOutcomes[s]) + 1)
           l == Len(hcStatuses[s])
           j == [at |-> "onCheckComplete", from |-> old.status, to |-> new.status, nth |-> l + 1]
<1>1. /\ hcStates' = [hcStates EXCEPT ![s] = new]
      /\ hcCheck' = [hcCheck EXCEPT ![r][s] = j]
      /\ hcOutcomes' = [hcOutcomes EXCEPT ![s] = Append(@, success)]
      /\ hcStatuses' = [hcStatuses EXCEPT ![s] = Append(@, new.status)]
      /\ hcCrossed' = IF \E q \in HealthRuns \ {r} : Awaiting(hcCheck[q][s])
                      THEN hcCrossed \cup {s} ELSE hcCrossed
      /\ UNCHANGED <<hcRun, hcHeard, hcBroken>>
  BY DEF StoreResult, Becomes, Now
<1>2. /\ k \in AskingChecks /\ AskingSound(k) /\ ~Awaiting(k)
      /\ old \in ServerStates /\ hcOutcomes[s] \in Seq(BOOLEAN) /\ hcStatuses[s] \in Seq(Statuses)
      /\ StateSound(old, hcOutcomes[s])
  BY CheckFields DEF HcInv, HcTyped, ServerSound
<1>3. asked = [k EXCEPT !.retries = IF success THEN k.retries ELSE k.attempt]
  OBVIOUS
<1>4. k.at = "asking" /\ (success => timedOut = k.timedOut) /\ (~success => k.attempt = HealthRetries)
  OBVIOUS
<1> HIDE DEF k, asked
<1>5. /\ asked \in AskingChecks
      /\ asked.retries = IF success THEN k.retries ELSE k.attempt
  <2>1. k \in [at : {"asking"}, attempt : Nat, timedOut : BOOLEAN, retries : Nat]
    BY <1>2 DEF AskingChecks
  <2>2. asked = [at |-> "asking", attempt |-> k.attempt, timedOut |-> k.timedOut,
                 retries |-> IF success THEN k.retries ELSE k.attempt]
    BY <1>3, <2>1
  <2>3. k.attempt \in Nat /\ k.timedOut \in BOOLEAN /\ k.retries \in Nat
    BY <2>1
  <2> QED BY <2>2, <2>3 DEF AskingChecks
<1>6. /\ k.attempt \in Nat /\ k.attempt <= HealthRetries
      /\ k.retries = IF k.attempt = 0 THEN 0 ELSE k.attempt - 1
      /\ k.timedOut => k.attempt > 0
  BY <1>2, <1>4 DEF AskingSound, AskingChecks
<1>7. /\ timedOut /\ success => HealthRetries > 0
      /\ success => asked.retries < HealthRetries \/ HealthRetries = 0
      /\ ~success => asked.retries = HealthRetries
  BY <1>4, <1>5, <1>6, HealthAssumption
<1>8. new \in ServerStates /\ StateSound(new, Append(hcOutcomes[s], success))
  BY <1>2, <1>5, <1>7, NextStateSound
<1> HIDE DEF new
<1>9. /\ l \in Nat /\ l = Len(hcOutcomes[s]) + 1 /\ old.status = hcStatuses[s][l]
      /\ new.status \in Statuses /\ old.status \in Statuses
  BY <1>2, <1>8 DEF HcInv, ServerSound, ServerStates
<1>10. /\ j \in HealthChecks /\ Awaiting(j) /\ j.at = "onCheckComplete" /\ j.nth = l + 1
       /\ j.from = old.status /\ j.to = new.status
  BY <1>9 DEF HealthChecks, HookChecks, Awaiting
<1> HIDE DEF j
<1>11. /\ hcCheck \in [HealthRuns -> [HealthServers -> HealthChecks]]
       /\ hcCheck' \in [HealthRuns -> [HealthServers -> HealthChecks]]
       /\ \A q \in HealthRuns, t \in HealthServers :
            hcCheck'[q][t] = IF q = r /\ t = s THEN j ELSE hcCheck[q][t]
  BY <1>1, <1>10 DEF HcInv, HcTyped
<1>12. /\ hcStates' \in [HealthServers -> ServerStates] /\ hcStates'[s] = new
       /\ hcOutcomes' \in [HealthServers -> Seq(BOOLEAN)] /\ hcOutcomes'[s] = Append(hcOutcomes[s], success)
       /\ hcStatuses' \in [HealthServers -> Seq(Statuses)] /\ hcStatuses'[s] = Append(hcStatuses[s], new.status)
       /\ \A t \in HealthServers : t # s =>
            hcStates'[t] = hcStates[t] /\ hcOutcomes'[t] = hcOutcomes[t] /\ hcStatuses'[t] = hcStatuses[t]
  BY <1>1, <1>8, <1>9 DEF HcInv, HcTyped
<1>13. HcTyped'
  BY <1>1, <1>11, <1>12 DEF HcInv, HcTyped
<1>14. ASSUME NEW t \in HealthServers, t # s PROVE ServerSound(t)'
  <2>1. ServerSound(t)
    BY DEF HcInv
  <2>2. /\ hcHeard'[t] = hcHeard[t] /\ (t \in hcCrossed' <=> t \in hcCrossed)
        /\ (t \in hcBroken' <=> t \in hcBroken)
    BY <1>1, <1>14
  <2>3. \A q \in HealthRuns : hcCheck'[q][t] = hcCheck[q][t]
    BY <1>11, <1>14
  <2> QED BY <1>12, <1>14, <2>1, <2>2, <2>3, QuietKeeps
<1>15. /\ Len(hcStatuses'[s]) = l + 1 /\ hcStatuses'[s][l + 1] = new.status
       /\ \A i \in 1..l : hcStatuses'[s][i] = hcStatuses[s][i]
  BY <1>2, <1>12
<1>16. ASSUME NEW q \in HealthRuns
       PROVE  AskingSound(hcCheck'[q][s]) /\ TellingSound(hcCheck'[q][s], hcStatuses'[s])
  <2>1. CASE q = r
    <3>1. hcCheck'[q][s] = j
      BY <1>11, <2>1
    <3>2. l \in Nat /\ l >= 1
      BY <1>9, <1>2
    <3> HIDE DEF l
    <3>3. l \in 1..l /\ (l + 1) - 1 = l /\ l + 1 \in 2..(l + 1)
      BY <3>2
    <3>4. hcStatuses'[s][(l + 1) - 1] = old.status /\ hcStatuses'[s][l + 1] = new.status
      BY <1>9, <1>15, <3>3
    <3>5. AskingSound(j)
      BY <1>10 DEF AskingSound
    <3>6. TellingSound(j, hcStatuses'[s])
      BY <1>10, <1>15, <3>3, <3>4 DEF TellingSound
    <3> QED BY <3>1, <3>5, <3>6
  <2>2. CASE q # r
    <3>1. hcCheck'[q][s] = hcCheck[q][s] /\ AskingSound(hcCheck[q][s]) /\ TellingSound(hcCheck[q][s], hcStatuses[s])
      BY <1>11, <2>2 DEF HcInv, ServerSound
    <3> DEFINE c == hcCheck[q][s]
    <3>2. ASSUME Awaiting(c)
          PROVE  /\ c.nth \in 2..(l + 1) /\ hcStatuses'[s][c.nth - 1] = hcStatuses[s][c.nth - 1]
                 /\ hcStatuses'[s][c.nth] = hcStatuses[s][c.nth]
      <4> DEFINE n == c.nth
      <4>1. n \in 2..l
        BY <3>1, <3>2 DEF TellingSound
      <4> HIDE DEF n, l
      <4>2. n \in 1..l /\ n - 1 \in 1..l /\ n \in 2..(l + 1)
        BY <1>9, <4>1
      <4>3. hcStatuses'[s][n - 1] = hcStatuses[s][n - 1] /\ hcStatuses'[s][n] = hcStatuses[s][n]
        BY <1>15, <4>2
      <4> QED BY <4>2, <4>3 DEF n
    <3> HIDE DEF c
    <3>3. AskingSound(c) /\ TellingSound(c, hcStatuses'[s])
      <4>1. TellingSound(c, hcStatuses[s]) /\ AskingSound(c)
        BY <3>1 DEF c
      <4> QED BY <1>15, <3>2, <4>1 DEF TellingSound
    <3> QED BY <3>1, <3>3 DEF c
  <2> QED BY <2>1, <2>2
<1>17. \A q \in HealthRuns : Awaiting(hcCheck[q][s]) => hcCheck[q][s].nth \in 2..l
  BY DEF HcInv, ServerSound, TellingSound
<1>18. AwaitedSound(s)'
  <2>1. AwaitedSound(s) /\ hcCrossed \subseteq hcCrossed'
    BY <1>1 DEF HcInv, ServerSound
  <2>2. \A q \in HealthRuns \ {r} : hcCheck'[q][s] = hcCheck[q][s]
    BY <1>11
  <2>3. hcCheck'[r][s] = j
    BY <1>11
  <2>4. \A q \in HealthRuns \ {r} : Awaiting(hcCheck[q][s]) => s \in hcCrossed' /\ hcCheck[q][s].nth # l + 1
    BY <1>1, <1>9, <1>17
  <2> QED BY <1>10, <1>15, <2>1, <2>2, <2>3, <2>4 DEF AwaitedSound
<1>19. \A h \in Hooks3 : /\ DueTo(h, hcStatuses[s]) \subseteq DueTo(h, hcStatuses'[s])
                         /\ DueTo(h, hcStatuses'[s]) \subseteq DueTo(h, hcStatuses[s]) \cup {l + 1}
                         /\ \A n \in DueTo(h, hcStatuses[s]) : n \in 2..l
  BY <1>2, <1>9, <1>12, DueOn
<1>20. ASSUME NEW h \in Hooks3 PROVE HeardSound(s, h)'
  <2>1. HeardSound(s, h) /\ hcHeard'[s][h] = hcHeard[s][h]
    BY <1>1 DEF HcInv, ServerSound
  <2>2. \A i \in DOMAIN hcHeard[s][h] :
          /\ hcHeard[s][h][i].nth \in DueTo(h, hcStatuses[s]) /\ hcHeard[s][h][i].nth \in 2..l
    BY <1>19, <2>1 DEF HeardSound
  <2>3. \A n \in 2..l : hcStatuses'[s][n - 1] = hcStatuses[s][n - 1] /\ hcStatuses'[s][n] = hcStatuses[s][n]
    <3> TAKE n \in 2..l
    <3>1. n \in 1..l /\ n - 1 \in 1..l
      BY <1>9
    <3> QED BY <1>15, <3>1
  <2>4. \A i \in DOMAIN hcHeard[s][h] :
          /\ hcHeard[s][h][i].nth \in DueTo(h, hcStatuses'[s])
          /\ hcHeard[s][h][i].from = hcStatuses'[s][hcHeard[s][h][i].nth - 1]
          /\ hcHeard[s][h][i].to = hcStatuses'[s][hcHeard[s][h][i].nth]
    BY <1>19, <2>1, <2>2, <2>3 DEF HeardSound
  <2>5. \A i \in DOMAIN hcHeard[s][h] : hcHeard[s][h][i].nth # l + 1
    BY <1>9, <2>2
  <2>6. \A q \in HealthRuns : AheadOf(hcCheck'[q][s], h) =>
          \A i \in DOMAIN hcHeard[s][h] : hcHeard[s][h][i].nth # hcCheck'[q][s].nth
    <3> TAKE q \in HealthRuns
    <3>1. CASE q = r
      BY <1>10, <1>11, <2>5, <3>1
    <3>2. CASE q # r
      BY <1>11, <2>1, <3>2 DEF HeardSound
    <3> QED BY <3>1, <3>2
  <2> QED BY <2>1, <2>4, <2>6 DEF HeardSound
<1>21. ASSUME NEW h \in Hooks3, s \notin hcCrossed' \cup hcBroken' PROVE HeardInOrder(s, h)'
  <2>1. s \notin hcCrossed \cup hcBroken /\ \A q \in HealthRuns \ {r} : ~Awaiting(hcCheck[q][s])
    BY <1>1, <1>21
  <2>2. HeardInOrder(s, h) /\ hcHeard'[s][h] = hcHeard[s][h]
    BY <1>1, <2>1 DEF HcInv, ServerSound
  <2>3. \A q \in HealthRuns : ~AheadOf(hcCheck[q][s], h)
    BY <1>2, <2>1 DEF AheadOf, k
  <2>4. AheadOf(hcCheck'[r][s], h) /\ hcCheck'[r][s].nth = l + 1
    BY <1>10, <1>11 DEF AheadOf, Called, Hooks3
  <2>5. \A n \in DueTo(h, hcStatuses'[s]) : \/ n = l + 1
                                            \/ \E i \in DOMAIN hcHeard[s][h] : hcHeard[s][h][i].nth = n
    BY <1>19, <2>2, <2>3 DEF HeardInOrder
  <2> QED BY <2>2, <2>4, <2>5 DEF HeardInOrder
<1>22. Len(hcStatuses'[s]) = Len(hcOutcomes'[s]) + 1 /\ hcStates'[s].status = hcStatuses'[s][Len(hcStatuses'[s])]
  BY <1>2, <1>9, <1>12, <1>15
<1>23. ServerSound(s)'
  BY <1>8, <1>12, <1>16, <1>18, <1>20, <1>21, <1>22 DEF ServerSound
<1>24. \A q \in HealthRuns : hcRun'[q] # "checking" => \A t \in HealthServers : hcCheck'[q][t] = NoCheck
  <2>1. NoCheck.at # "asking"
    BY DEF NoCheck
  <2> QED BY <1>1, <1>4, <1>11, <2>1 DEF HcInv, k
<1> QED BY <1>13, <1>14, <1>23, <1>24 DEF HcInv

-----------------------------------------------------------------------------
(* Hooks *)

\* What follows a place, and for whom it still has to come.
LEMMA FollowingIs ==
  ASSUME NEW k \in HookChecks, NEW h \in Hooks3
  PROVE  LET next == Following(k)
             j == [k EXCEPT !.at = next]
         IN  /\ Awaiting(k) /\ next \in Hooks3 \cup {"none"}
             /\ next = "none" /\ AheadOf(k, h) =>
                  k.from = k.to \/ (h = "onUnhealthy" /\ k.to # "unhealthy")
             /\ next # "none" =>
                  /\ j \in HookChecks /\ j.from = k.from /\ j.to = k.to /\ j.nth = k.nth /\ j.at = next
                  /\ AheadOf(k, next)
                  /\ AheadOf(j, h) <=> AheadOf(k, h) /\ h # next
                  /\ k.at # "onCheckComplete" \/ k.from # k.to
                  /\ next = "onUnhealthy" => k.to = "unhealthy"
<1> DEFINE next == Following(k)
           j == [k EXCEPT !.at = next]
<1>1. Awaiting(k)
  BY DEF HookChecks, Awaiting, Hooks3
<1>2. /\ k.at \in {"onCheckComplete", "onTransition", "onAudit", "onUnhealthy"}
      /\ next = CASE k.at = "onCheckComplete" /\ k.from # k.to -> "onTransition"
                  [] k.at = "onTransition" -> "onAudit"
                  [] k.at = "onAudit" /\ k.to = "unhealthy" -> "onUnhealthy"
                  [] OTHER -> "none"
  BY DEF Following, HookChecks
<1> HIDE DEF next
<1>3. /\ k.at = "onCheckComplete" => next = IF k.from # k.to THEN "onTransition" ELSE "none"
      /\ k.at = "onTransition" => next = "onAudit"
      /\ k.at = "onAudit" => next = IF k.to = "unhealthy" THEN "onUnhealthy" ELSE "none"
      /\ k.at = "onUnhealthy" => next = "none"
  BY <1>2
<1>4. next \in Hooks3 \cup {"none"}
  BY <1>2, <1>3 DEF Hooks3
<1>5. ASSUME next = "none", AheadOf(k, h)
      PROVE  k.from = k.to \/ (h = "onUnhealthy" /\ k.to # "unhealthy")
  BY <1>2, <1>3, <1>5 DEF AheadOf, Called, Hooks3
<1>6. ASSUME next # "none"
      PROVE  /\ j \in HookChecks /\ j.from = k.from /\ j.to = k.to /\ j.nth = k.nth /\ j.at = next
             /\ AheadOf(k, next)
             /\ AheadOf(j, h) <=> AheadOf(k, h) /\ h # next
             /\ k.at # "onCheckComplete" \/ k.from # k.to
             /\ next = "onUnhealthy" => k.to = "unhealthy"
  <2>1. j = [k EXCEPT !.at = next]
    OBVIOUS
  <2> HIDE DEF j
  <2>2. /\ j \in HookChecks /\ j.from = k.from /\ j.to = k.to /\ j.nth = k.nth /\ j.at = next
    BY <1>4, <1>6, <2>1 DEF HookChecks, Hooks3
  <2>3. AheadOf(k, next)
    BY <1>1, <1>2, <1>3, <1>6 DEF AheadOf, Called, Hooks3
  <2>4. Awaiting(j)
    BY <1>4, <1>6, <2>2 DEF Awaiting
  <2>5. Called(j, h) <=> Called(k, h) \/ h = next
    BY <1>2, <1>3, <1>6, <2>2 DEF Called, Hooks3
  <2>6. k.at # "onCheckComplete" \/ k.from # k.to
    BY <1>3, <1>6
  <2>7. next = "onUnhealthy" => k.to = "unhealthy"
    BY <1>2, <1>3
  <2> QED BY <1>1, <2>2, <2>3, <2>4, <2>5, <2>6, <2>7 DEF AheadOf
<1> QED BY <1>1, <1>4, <1>5, <1>6 DEF next

\* The last hook that is called has resolved, or one was rejected.
LEMMA CheckEnds ==
  ASSUME HcInv, NEW r \in HealthRuns, NEW s \in HealthServers, Awaiting(hcCheck[r][s]),
         Becomes(r, s, NoCheck), UNCHANGED <<hcStates, hcRun, hcOutcomes, hcStatuses, hcHeard, hcCrossed>>,
         hcBroken \subseteq hcBroken', hcBroken' \subseteq hcBroken \cup {s},
         s \in hcBroken' \/ Following(hcCheck[r][s]) = "none"
  PROVE  HcInv'
<1> DEFINE k == hcCheck[r][s]
<1>1. /\ hcCheck \in [HealthRuns -> [HealthServers -> HealthChecks]]
      /\ hcCheck' = [hcCheck EXCEPT ![r][s] = NoCheck] /\ NoCheck \in HealthChecks
  BY DEF HcInv, HcTyped, Becomes, HealthChecks
<1>2. /\ hcCheck' \in [HealthRuns -> [HealthServers -> HealthChecks]]
      /\ \A q \in HealthRuns, t \in HealthServers :
           hcCheck'[q][t] = IF q = r /\ t = s THEN NoCheck ELSE hcCheck[q][t]
  BY <1>1
<1>3. ~Awaiting(NoCheck) /\ AskingSound(NoCheck) /\ ~Awaiting(NoCheck)
  BY DEF NoCheck, Awaiting, Hooks3, AskingSound
<1>4. HcTyped'
  BY <1>2 DEF HcInv, HcTyped
<1>5. ASSUME NEW t \in HealthServers, t # s PROVE ServerSound(t)'
  <2>1. ServerSound(t)
    BY DEF HcInv
  <2>2. (t \in hcBroken' <=> t \in hcBroken) /\ \A q \in HealthRuns : hcCheck'[q][t] = hcCheck[q][t]
    BY <1>2, <1>5
  <2> QED BY <2>1, <2>2, QuietKeeps
<1>6. \A q \in HealthRuns, h \in Hooks3 :
        /\ AheadOf(hcCheck'[q][s], h) <=> q # r /\ AheadOf(hcCheck[q][s], h)
        /\ AheadOf(hcCheck'[q][s], h) => hcCheck'[q][s] = hcCheck[q][s]
  BY <1>2, <1>3 DEF AheadOf
<1>7. ServerSound(s)
  BY DEF HcInv
<1>8. \A q \in HealthRuns : AskingSound(hcCheck'[q][s]) /\ TellingSound(hcCheck'[q][s], hcStatuses'[s])
  BY <1>2, <1>3, <1>7 DEF ServerSound, TellingSound
<1>9. AwaitedSound(s)'
  BY <1>2, <1>3, <1>7 DEF ServerSound, AwaitedSound
<1>10. \A h \in Hooks3 : HeardSound(s, h)'
  BY <1>6, <1>7 DEF ServerSound, HeardSound
<1>11. ASSUME NEW h \in Hooks3, s \notin hcCrossed' \cup hcBroken' PROVE HeardInOrder(s, h)'
  <2>1. s \notin hcCrossed \cup hcBroken /\ Following(k) = "none"
    BY <1>11
  <2>2. HeardInOrder(s, h) /\ TellingSound(k, hcStatuses[s])
    BY <1>7, <2>1 DEF ServerSound
  <2>3. k \in HookChecks
    BY <1>1, CheckFields
  <2>4. AheadOf(k, h) => k.from = k.to \/ (h = "onUnhealthy" /\ k.to # "unhealthy")
    BY <2>1, <2>3, FollowingIs
  <2>5. k.from = hcStatuses[s][k.nth - 1] /\ k.to = hcStatuses[s][k.nth]
    BY <2>2 DEF TellingSound
  <2>6. AheadOf(k, h) => k.nth \notin DueTo(h, hcStatuses[s])
    BY <2>4, <2>5 DEF DueTo
  <2>7. \A n \in DueTo(h, hcStatuses[s]) :
          \/ \E i \in DOMAIN hcHeard[s][h] : hcHeard[s][h][i].nth = n
          \/ \E q \in HealthRuns : q # r /\ AheadOf(hcCheck[q][s], h) /\ hcCheck[q][s].nth = n
    BY <2>2, <2>6 DEF HeardInOrder
  <2>8. \A n \in DueTo(h, hcStatuses[s]) :
          \/ \E i \in DOMAIN hcHeard[s][h] : hcHeard[s][h][i].nth = n
          \/ \E q \in HealthRuns : AheadOf(hcCheck'[q][s], h) /\ hcCheck'[q][s].nth = n
    BY <1>6, <2>7
  <2> QED BY <2>2, <2>8 DEF HeardInOrder
<1>12. ServerSound(s)'
  BY <1>7, <1>8, <1>9, <1>10, <1>11 DEF ServerSound
<1>13. \A q \in HealthRuns : hcRun'[q] # "checking" => \A t \in HealthServers : hcCheck'[q][t] = NoCheck
  BY <1>2 DEF HcInv
<1> QED BY <1>4, <1>5, <1>12, <1>13 DEF HcInv

LEMMA NextHookKeeps ==
  ASSUME HcInv, NEW r \in HealthRuns, NEW s \in HealthServers, HookResolves(r, s),
         Following(hcCheck[r][s]) # "none"
  PROVE  HcInv'
<1> DEFINE k == hcCheck[r][s]
           next == Following(k)
           j == [k EXCEPT !.at = next]
           entry == [from |-> k.from, to |-> k.to, nth |-> k.nth]
<1>1. /\ Awaiting(k) /\ next # "none" /\ hcCheck' = [hcCheck EXCEPT ![r][s] = j]
      /\ hcHeard' = [hcHeard EXCEPT ![s][next] = Append(@, entry)]
      /\ UNCHANGED <<hcStates, hcRun, hcOutcomes, hcStatuses, hcCrossed, hcBroken>>
  BY DEF HookResolves, Becomes
<1>2. k \in HookChecks
  BY <1>1, CheckFields DEF HcInv, HcTyped
<1>3. /\ next \in Hooks3 /\ j \in HookChecks /\ j.from = k.from /\ j.to = k.to /\ j.nth = k.nth
      /\ j.at = next /\ AheadOf(k, next)
      /\ k.at # "onCheckComplete" \/ k.from # k.to
      /\ next = "onUnhealthy" => k.to = "unhealthy"
  <2>1. next \in Hooks3
    BY <1>1, <1>2, FollowingIs DEF Hooks3
  <2> QED BY <1>1, <1>2, <2>1, FollowingIs
<1>4. \A h \in Hooks3 : AheadOf(j, h) <=> AheadOf(k, h) /\ h # next
  BY <1>1, <1>2, FollowingIs
<1>5. entry \in HeardEntries /\ entry.from = k.from /\ entry.to = k.to /\ entry.nth = k.nth
  BY <1>2 DEF HeardEntries, HookChecks
<1>6. ServerSound(s)
  BY DEF HcInv
<1> HIDE DEF j, next, entry
<1>7. /\ hcCheck \in [HealthRuns -> [HealthServers -> HealthChecks]]
      /\ j \in HealthChecks /\ Awaiting(j) /\ j.at # "asking" /\ j.at # "onCheckComplete"
  BY <1>3 DEF HcInv, HcTyped, HealthChecks, Awaiting, Hooks3
<1>8. /\ hcCheck' \in [HealthRuns -> [HealthServers -> HealthChecks]]
      /\ \A q \in HealthRuns, t \in HealthServers :
           hcCheck'[q][t] = IF q = r /\ t = s THEN j ELSE hcCheck[q][t]
  BY <1>1, <1>7
<1>9. /\ hcHeard \in [HealthServers -> [Hooks3 -> Seq(HeardEntries)]]
      /\ hcHeard' \in [HealthServers -> [Hooks3 -> Seq(HeardEntries)]]
      /\ \A t \in HealthServers, h \in Hooks3 :
           hcHeard'[t][h] = IF t = s /\ h = next THEN Append(hcHeard[s][next], entry) ELSE hcHeard[t][h]
  BY <1>1, <1>3, <1>5 DEF HcInv, HcTyped
<1>10. HcTyped'
  BY <1>1, <1>8, <1>9 DEF HcInv, HcTyped
<1>11. ASSUME NEW t \in HealthServers, t # s PROVE ServerSound(t)'
  <2>1. ServerSound(t)
    BY DEF HcInv
  <2>2. hcHeard'[t] = hcHeard[t] /\ \A q \in HealthRuns : hcCheck'[q][t] = hcCheck[q][t]
    BY <1>1, <1>8, <1>9, <1>11
  <2> QED BY <1>1, <2>1, <2>2, QuietKeeps
<1>12. TellingSound(k, hcStatuses[s])
  BY <1>6 DEF ServerSound
<1>13. /\ k.nth \in 2..Len(hcStatuses[s]) /\ k.from = hcStatuses[s][k.nth - 1] /\ k.to = hcStatuses[s][k.nth]
       /\ k.from # k.to
  BY <1>1, <1>3, <1>12 DEF TellingSound
<1>14. k.nth \in DueTo(next, hcStatuses[s])
  BY <1>3, <1>13 DEF DueTo
<1>15. ASSUME NEW q \in HealthRuns
       PROVE  AskingSound(hcCheck'[q][s]) /\ TellingSound(hcCheck'[q][s], hcStatuses'[s])
  <2>1. AskingSound(j)
    BY <1>7 DEF AskingSound
  <2>2. TellingSound(j, hcStatuses[s])
    BY <1>3, <1>13 DEF TellingSound
  <2> QED BY <1>1, <1>6, <1>8, <2>1, <2>2 DEF ServerSound
<1>16. AwaitedSound(s)'
  <2>1. AwaitedSound(s)
    BY <1>6 DEF ServerSound
  <2>2. \A q \in HealthRuns : /\ Awaiting(hcCheck'[q][s]) <=> Awaiting(hcCheck[q][s])
                              /\ hcCheck'[q][s].nth = hcCheck[q][s].nth
    BY <1>1, <1>3, <1>7, <1>8
  <2> QED BY <1>1, <2>1, <2>2 DEF AwaitedSound
<1>17. \A q \in HealthRuns, h \in Hooks3 :
         /\ AheadOf(hcCheck'[q][s], h) <=> AheadOf(hcCheck[q][s], h) /\ ~(q = r /\ h = next)
         /\ AheadOf(hcCheck[q][s], h) => hcCheck'[q][s].nth = hcCheck[q][s].nth
  BY <1>3, <1>4, <1>8
<1>18. \A q \in HealthRuns : q # r /\ Awaiting(hcCheck[q][s]) => hcCheck[q][s].nth # k.nth
  BY <1>1, <1>6 DEF ServerSound, AwaitedSound
<1>19. /\ HeardSound(s, next)
       /\ \A i \in DOMAIN hcHeard[s][next] : hcHeard[s][next][i].nth # k.nth
  BY <1>3, <1>6 DEF ServerSound, HeardSound
<1> DEFINE heard == hcHeard[s][next]
           new == hcHeard'[s][next]
           l == Len(heard)
<1>20. /\ l \in Nat /\ DOMAIN heard = 1..l /\ DOMAIN new = 1..(l + 1) /\ new[l + 1] = entry
       /\ \A i \in 1..l : new[i] = heard[i]
  <2>1. heard \in Seq(HeardEntries) /\ new = Append(heard, entry)
    BY <1>3, <1>9
  <2> HIDE DEF heard, new
  <2> QED BY <1>5, <2>1
<1>21. ASSUME NEW h \in Hooks3 PROVE HeardSound(s, h)'
  <2>1. CASE h # next
    <3>1. hcHeard'[s][h] = hcHeard[s][h] /\ HeardSound(s, h)
      BY <1>6, <1>9, <2>1 DEF ServerSound
    <3>2. \A q \in HealthRuns : AheadOf(hcCheck'[q][s], h) =>
            AheadOf(hcCheck[q][s], h) /\ hcCheck'[q][s].nth = hcCheck[q][s].nth
      BY <1>17
    <3>3. hcStatuses' = hcStatuses
      BY <1>1
    <3>4. \A q \in HealthRuns : AheadOf(hcCheck'[q][s], h) =>
            \A i \in DOMAIN hcHeard[s][h] : hcHeard[s][h][i].nth # hcCheck'[q][s].nth
      BY <3>1, <3>2 DEF HeardSound
    <3> QED BY <3>1, <3>3, <3>4 DEF HeardSound
  <2>2. CASE h = next
    <3> HIDE DEF heard, new, l
    <3>1. \A i \in DOMAIN heard : /\ heard[i].nth \in DueTo(next, hcStatuses[s])
                                  /\ heard[i].from = hcStatuses[s][heard[i].nth - 1]
                                  /\ heard[i].to = hcStatuses[s][heard[i].nth]
                                  /\ heard[i].nth # k.nth
      BY <1>19 DEF HeardSound, heard
    <3>2. \A i \in DOMAIN new : /\ new[i].nth \in DueTo(next, hcStatuses[s])
                                /\ new[i].from = hcStatuses[s][new[i].nth - 1]
                                /\ new[i].to = hcStatuses[s][new[i].nth]
      <4>1. /\ entry.nth \in DueTo(next, hcStatuses[s])
            /\ entry.from = hcStatuses[s][entry.nth - 1]
            /\ entry.to = hcStatuses[s][entry.nth]
        BY <1>5, <1>13, <1>14
      <4> HIDE DEF entry
      <4>2. ASSUME NEW i \in DOMAIN new
            PROVE  new[i] = entry \/ (i \in DOMAIN heard /\ new[i] = heard[i])
        BY <1>20
      <4> QED BY <3>1, <4>1, <4>2
    <3>3. \A i, i2 \in DOMAIN heard : heard[i].nth = heard[i2].nth => i = i2
      BY <1>19 DEF HeardSound, heard
    <3>4. \A i, i2 \in DOMAIN new : new[i].nth = new[i2].nth => i = i2
      BY <1>5, <1>20, <3>1, <3>3
    <3>5. ASSUME NEW q \in HealthRuns, AheadOf(hcCheck'[q][s], next), NEW i \in DOMAIN new
          PROVE  new[i].nth # hcCheck'[q][s].nth
      <4>1. q # r /\ AheadOf(hcCheck[q][s], next) /\ hcCheck'[q][s].nth = hcCheck[q][s].nth
        BY <1>3, <1>17, <3>5
      <4>2. CASE i = l + 1
        BY <1>5, <1>18, <1>20, <4>1, <4>2 DEF AheadOf
      <4>3. CASE i # l + 1
        <5>1. i \in DOMAIN heard /\ new[i] = heard[i]
          BY <1>20, <4>3
        <5>2. heard[i].nth # hcCheck[q][s].nth
          BY <1>19, <4>1, <5>1 DEF HeardSound, heard
        <5> QED BY <4>1, <5>1, <5>2
      <4> QED BY <4>2, <4>3
    <3>6. hcStatuses' = hcStatuses
      BY <1>1
    <3> QED BY <2>2, <3>2, <3>4, <3>5, <3>6 DEF HeardSound, new
  <2> QED BY <2>1, <2>2
<1>22. ASSUME NEW h \in Hooks3, s \notin hcCrossed' \cup hcBroken' PROVE HeardInOrder(s, h)'
  <2>1. HeardInOrder(s, h)
    BY <1>1, <1>6, <1>22 DEF ServerSound
  <2>2. CASE h # next
    <3>1. hcHeard'[s][h] = hcHeard[s][h]
      BY <1>9, <2>2
    <3> QED BY <1>1, <1>17, <2>1, <2>2, <3>1 DEF HeardInOrder
  <2>3. CASE h = next
    <3>1. k.nth = Len(hcStatuses[s]) /\ Len(hcStatuses[s]) \in Nat
      BY <1>1, <1>6, <1>22 DEF ServerSound, AwaitedSound, HcInv, HcTyped
    <3>2. \A i \in DOMAIN heard : heard[i].nth < k.nth
      <4> SUFFICES ASSUME NEW i \in DOMAIN heard PROVE heard[i].nth < k.nth
        OBVIOUS
      <4>1. heard[i].nth \in 2..Len(hcStatuses[s]) /\ heard[i].nth # k.nth
        BY <1>19 DEF HeardSound, DueTo
      <4> HIDE DEF heard
      <4> QED BY <3>1, <4>1
    <3>3. \A i, i2 \in DOMAIN heard : i < i2 => heard[i].nth < heard[i2].nth
      BY <2>1, <2>3 DEF HeardInOrder
    <3>4. \A n \in DueTo(next, hcStatuses[s]) :
            \/ \E i \in DOMAIN heard : heard[i].nth = n
            \/ \E q \in HealthRuns : AheadOf(hcCheck[q][s], next) /\ hcCheck[q][s].nth = n
      BY <2>1, <2>3 DEF HeardInOrder
    <3> HIDE DEF heard, new, l
    <3>5. \A i, i2 \in DOMAIN new : i < i2 => new[i].nth < new[i2].nth
      <4> SUFFICES ASSUME NEW i \in DOMAIN new, NEW i2 \in DOMAIN new, i < i2 PROVE new[i].nth < new[i2].nth
        OBVIOUS
      <4>1. i \in DOMAIN heard /\ new[i] = heard[i]
        BY <1>20
      <4>2. CASE i2 = l + 1
        BY <1>5, <1>20, <3>2, <4>1, <4>2
      <4>3. CASE i2 # l + 1
        <5>1. i2 \in DOMAIN heard /\ new[i2] = heard[i2]
          BY <1>20, <4>3
        <5> QED BY <3>3, <4>1, <5>1
      <4> QED BY <4>2, <4>3
    <3>6. ASSUME NEW n \in DueTo(next, hcStatuses[s])
          PROVE  \/ \E i \in DOMAIN new : new[i].nth = n
                 \/ \E q \in HealthRuns : AheadOf(hcCheck'[q][s], next) /\ hcCheck'[q][s].nth = n
      <4>1. CASE \E i \in DOMAIN heard : heard[i].nth = n
        <5>1. PICK i \in DOMAIN heard : heard[i].nth = n
          BY <4>1
        <5>2. i \in DOMAIN new /\ new[i] = heard[i]
          BY <1>20
        <5> QED BY <5>1, <5>2
      <4>2. CASE \E q \in HealthRuns : AheadOf(hcCheck[q][s], next) /\ hcCheck[q][s].nth = n
        <5>1. PICK q \in HealthRuns : AheadOf(hcCheck[q][s], next) /\ hcCheck[q][s].nth = n
          BY <4>2
        <5>2. CASE q = r
          <6>1. l + 1 \in DOMAIN new /\ new[l + 1].nth = n
            BY <1>5, <1>20, <5>1, <5>2
          <6> QED BY <6>1
        <5>3. CASE q # r
          BY <1>3, <1>17, <5>1, <5>3
        <5> QED BY <5>2, <5>3
      <4> QED BY <3>4, <4>1, <4>2
    <3>7. hcStatuses' = hcStatuses
      BY <1>1
    <3> QED BY <2>3, <3>5, <3>6, <3>7 DEF HeardInOrder, new
  <2> QED BY <2>2, <2>3
<1>23. ServerSound(s)'
  BY <1>1, <1>6, <1>15, <1>16, <1>21, <1>22 DEF ServerSound
<1>24. \A q \in HealthRuns : hcRun'[q] # "checking" => \A t \in HealthServers : hcCheck'[q][t] = NoCheck
  <2>1. ~Awaiting(NoCheck)
    BY DEF NoCheck, Awaiting, Hooks3
  <2> QED BY <1>1, <1>8, <2>1 DEF HcInv
<1> QED BY <1>10, <1>11, <1>23, <1>24 DEF HcInv

LEMMA HcNextInv == HcInv /\ [HcNext]_hcVars => HcInv'
<1> SUFFICES ASSUME HcInv, [HcNext]_hcVars PROVE HcInv'
  OBVIOUS
<1>1. CASE UNCHANGED hcVars
  <2>1. UNCHANGED <<hcStates, hcRun, hcCheck, hcOutcomes, hcStatuses, hcHeard, hcCrossed, hcBroken>>
    BY <1>1 DEF hcVars
  <2>2. \A s \in HealthServers : ServerSound(s)'
    BY <2>1, QuietKeeps DEF HcInv
  <2> QED BY <2>1, <2>2 DEF HcInv, HcTyped
<1>2. ASSUME NEW r \in HealthRuns, NEW s \in HealthServers,
             Succeeds(r, s) \/ Fails(r, s) \/ TimesOut(r, s)
      PROVE  HcInv'
  <2>1. hcCheck[r][s].at = "asking"
    BY <1>2 DEF Succeeds, Fails, TimesOut, At
  <2>2. hcCheck[r][s] \in AskingChecks
    BY <2>1, CheckFields DEF HcInv, HcTyped
  <2>3. hcCheck[r][s].timedOut \in BOOLEAN
    BY <2>2 DEF AskingChecks
  <2>4. CASE Succeeds(r, s)
    BY <2>1, <2>3, <2>4, StoreKeeps DEF Succeeds
  <2>5. ASSUME NEW timedOut \in BOOLEAN, Retries(r, s, timedOut) \/ FailsFinally(r, s, timedOut)
        PROVE  HcInv'
    BY <2>1, <2>5, RetriesKeeps, StoreKeeps DEF FailsFinally
  <2> QED BY <1>2, <2>3, <2>4, <2>5 DEF Fails, TimesOut
<1>3. ASSUME NEW r \in HealthRuns, NEW s \in HealthServers, HookResolves(r, s) PROVE HcInv'
  <2>1. CASE Following(hcCheck[r][s]) = "none"
    BY <1>3, <2>1, CheckEnds DEF HookResolves
  <2> QED BY <1>3, <2>1, NextHookKeeps
<1>4. ASSUME NEW r \in HealthRuns, NEW s \in HealthServers, HookRejects(r, s) PROVE HcInv'
  BY <1>4, CheckEnds DEF HookRejects
<1> QED BY <1>1, <1>2, <1>3, <1>4, RunsKeep, ThrowsKeeps DEF HcNext

-----------------------------------------------------------------------------

LEMMA TrailingIs ==
  ASSUME NEW outcomes \in Seq(BOOLEAN), NEW value \in BOOLEAN, NEW n \in Nat, Trails(outcomes, value, n)
  PROVE  Trailing(outcomes, value) = n
<1> DEFINE l == Len(outcomes)
           longest == {m \in 0..l : \A i \in (l - m + 1)..l : outcomes[i] = value}
<1>1. /\ l \in Nat /\ n <= l /\ \A i \in (l - n + 1)..l : outcomes[i] = value
      /\ n < l => outcomes[l - n] # value
  BY DEF Trails
<1>2. Trailing(outcomes, value) = CHOOSE m \in longest : \A x \in longest : x <= m
  BY DEF Trailing
<1> HIDE DEF l
<1>3. n \in longest
  BY <1>1
<1>4. ASSUME NEW m \in longest PROVE m <= n
  <2> SUFFICES ASSUME m > n PROVE FALSE
    BY <1>1
  <2>1. n < l /\ l - n \in (l - m + 1)..l
    BY <1>1
  <2> QED BY <1>1, <2>1
<1>5. \A m \in longest : m \in Nat
  BY <1>1
<1> HIDE DEF longest
<1> DEFINE c == CHOOSE m \in longest : \A x \in longest : x <= m
<1>6. c \in longest /\ \A x \in longest : x <= c
  BY <1>3, <1>4
<1> HIDE DEF c
<1>7. c = n
  BY <1>3, <1>4, <1>5, <1>6
<1> QED BY <1>2, <1>7 DEF c

LEMMA LastOfIs ==
  ASSUME NEW outcomes \in Seq(BOOLEAN), NEW value \in BOOLEAN, NEW time \in Int, LastAt(outcomes, value, time)
  PROVE  LastOf(outcomes, value) = time
<1> DEFINE times == {i \in DOMAIN outcomes : outcomes[i] = value}
<1>1. LastOf(outcomes, value) = IF times = {} THEN -1 ELSE CHOOSE t \in times : \A u \in times : u <= t
  BY DEF LastOf
<1>2. \A i \in times : i \in Nat
  OBVIOUS
<1>3. CASE time = -1 /\ times = {}
  BY <1>1, <1>3
<1>4. CASE time \in times /\ \A i \in times : i <= time
  <2> HIDE DEF times
  <2> DEFINE c == CHOOSE t \in times : \A u \in times : u <= t
  <2>1. c \in times /\ \A u \in times : u <= c
    BY <1>4
  <2>2. LastOf(outcomes, value) = c
    BY <1>1, <1>4
  <2> HIDE DEF c
  <2>3. c = time
    BY <1>2, <1>4, <2>1
  <2> QED BY <2>2, <2>3
<1> QED BY <1>3, <1>4 DEF LastAt

(* For any servers, runs, retries and thresholds: what the monitor knows of a
   server follows the outcomes stored last, and its hooks are told transitions
   that happened, none twice, and all of them in their order unless checks
   overlapped or a hook was rejected. *)
THEOREM HealthFollowsChecks == HcSpec => []HealthSound
<1>1. ASSUME HcInv PROVE HealthSound
  <2>1. ASSUME NEW s \in HealthServers
        PROVE  /\ ServerSound(s) /\ StateSound(hcStates[s], hcOutcomes[s])
               /\ hcStates[s] \in ServerStates /\ hcOutcomes[s] \in Seq(BOOLEAN)
               /\ Trailing(hcOutcomes[s], FALSE) = hcStates[s].failures
               /\ Trailing(hcOutcomes[s], TRUE) = hcStates[s].streak
               /\ LastOf(hcOutcomes[s], TRUE) = hcStates[s].lastSuccess
               /\ LastOf(hcOutcomes[s], FALSE) = hcStates[s].lastFailure
    <3>1. /\ ServerSound(s) /\ StateSound(hcStates[s], hcOutcomes[s])
          /\ hcStates[s] \in ServerStates /\ hcOutcomes[s] \in Seq(BOOLEAN)
      BY <1>1 DEF HcInv, HcTyped, ServerSound
    <3>2. /\ hcStates[s].failures \in Nat /\ hcStates[s].streak \in Nat
          /\ hcStates[s].lastSuccess \in Int /\ hcStates[s].lastFailure \in Int
      BY <3>1 DEF ServerStates
    <3> QED BY <3>1, <3>2, TrailingIs, LastOfIs DEF StateSound
  <2>2. StatusFollowsOutcomes
    BY <2>1 DEF StatusFollowsOutcomes, StateSound
  <2>3. TimesAgree
    BY <2>1 DEF TimesAgree, StateSound
  <2>4. TimedOutSuccessWasRetried
    BY <2>1 DEF TimedOutSuccessWasRetried, StateSound
  <2>5. NoHookHearsMore
    <3>1. \A s \in HealthServers, h \in Hooks3 : HeardSound(s, h)
      BY <2>1 DEF ServerSound
    <3> QED BY <3>1 DEF NoHookHearsMore, HeardSound
  <2>6. HooksHearTheTransitions
    <3> SUFFICES ASSUME NEW s \in HealthServers \ (hcCrossed \cup hcBroken),
                        \A r \in HealthRuns : At(r, s, "none") \/ At(r, s, "asking"),
                        NEW h \in Hooks3
                 PROVE  /\ {hcHeard[s][h][i].nth : i \in DOMAIN hcHeard[s][h]} = DueTo(h, hcStatuses[s])
                        /\ \A i, j \in DOMAIN hcHeard[s][h] :
                             i < j => hcHeard[s][h][i].nth < hcHeard[s][h][j].nth
      BY DEF HooksHearTheTransitions
    <3>1. HeardSound(s, h) /\ HeardInOrder(s, h)
      BY <2>1 DEF ServerSound
    <3>2. \A r \in HealthRuns : ~AheadOf(hcCheck[r][s], h)
      BY DEF At, AheadOf, Awaiting, Hooks3
    <3>3. \A i \in DOMAIN hcHeard[s][h] : hcHeard[s][h][i].nth \in DueTo(h, hcStatuses[s])
      BY <3>1 DEF HeardSound
    <3>4. \A n \in DueTo(h, hcStatuses[s]) : \E i \in DOMAIN hcHeard[s][h] : hcHeard[s][h][i].nth = n
      BY <3>1, <3>2 DEF HeardInOrder
    <3> QED BY <3>1, <3>3, <3>4 DEF HeardInOrder
  <2> QED BY <2>2, <2>3, <2>4, <2>5, <2>6 DEF HealthSound
<1> QED BY <1>1, HcInitInv, HcNextInv, PTL DEF HcSpec

(* Health checks and registrations together: what is known and told of the
   servers is what happened to them. *)
THEOREM McpServicesTold == HcSpec /\ PrSpec => []McpServicesSound
<1>1. HealthSound /\ PropagationSound => McpServicesSound
  BY DEF McpServicesSound
<1> QED BY <1>1, HealthFollowsChecks, RegistrationsReported, PTL
=============================================================================
