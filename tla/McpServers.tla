------------------------------- MODULE McpServers -------------------------------
(***************************************************************************)
(* The registered MCP servers of an organisation and what follows them:    *)
(* InMemoryMcpServerRegistry (mcp-registry.ts), the capability discovery   *)
(* that writes back what it learns (mcp-capability-discovery.ts), and the  *)
(* federation that shows public servers to other organisations             *)
(* (mcp-federation.ts).                                                    *)
(*                                                                         *)
(* The registry's own methods run in one turn, except deregister, which    *)
(* awaits a check for references.  A refresh works through a list it took  *)
(* at its beginning and awaits each server's manifest; an import awaits    *)
(* the list of the peer.                                                   *)
(***************************************************************************)
LOCAL INSTANCE TLC

CONSTANTS Keys,         \* scope, scope id and id of a server
          Public,       \* the keys at organisation scope
          Credentials,
          Refreshers,   \* calls of refreshAll that may be under way at once
          Removals,     \* calls of deregister
          Viewers,      \* the organisations that import
          None

ASSUME McpAssumption ==
    /\ Public \subseteq Keys
    /\ None \notin Keys \cup Credentials

VARIABLES servers,     \* the registry
          audited,     \* per key, the state its last audit entry reports
          removal,     \* the key and server each deregister call is checking
          refresh,     \* what each refreshAll goes on with after its await
          discovered,  \* DiscoveryState of each key
          consent,     \* sharePublicRegistry
          imported,    \* the servers each viewer shows, by key
          importing,   \* the list an import under way will store, or None
          touched,     \* history: keys others wrote since a refresh listed them
          withdrawn    \* history: imports under way when consent was withdrawn

registryVars == <<servers, audited>>
discoveryVars == <<refresh, discovered>>
federationVars == <<consent, imported, importing, withdrawn>>
vars == <<servers, audited, removal, refresh, discovered, consent, imported,
          importing, touched, withdrawn>>

\* Of a server, what its users may lose; its capabilities only discovery writes.
Server == [enabled: BOOLEAN, credentials: Credentials]
Registry == [Keys -> Server \cup {None}]
Refresh == [list: Registry, todo: SUBSET Keys, at: Keys, force: BOOLEAN]

TypeOK ==
    /\ servers \in Registry
    /\ audited \in Registry
    /\ removal \in [Removals -> Keys \cup {None}]
    /\ refresh \in [Refreshers -> Refresh \cup {None}]
    /\ discovered \in [Keys -> {"discovered", "failed", None}]
    /\ consent \in BOOLEAN
    /\ imported \in [Viewers -> SUBSET Keys]
    /\ importing \in [Viewers -> (SUBSET Keys) \cup {None}]
    /\ touched \in [Refreshers -> SUBSET Keys]
    /\ withdrawn \subseteq Viewers

Registered(s) == {k \in Keys : s[k] # None}

Init ==
    /\ servers = [k \in Keys |-> None]
    /\ audited = servers
    /\ removal = [d \in Removals |-> None]
    /\ refresh = [r \in Refreshers |-> None]
    /\ discovered = [k \in Keys |-> None]
    /\ consent = FALSE
    /\ imported = [v \in Viewers |-> {}]
    /\ importing = [v \in Viewers |-> None]
    /\ touched = [r \in Refreshers |-> {}]
    /\ withdrawn = {}

-----------------------------------------------------------------------------
(* The registry.                                                           *)

\* A mistake in Put.
PutUnaudited(k, s) ==
    /\ servers' = [servers EXCEPT ![k] = s]
    /\ audited' = IF servers[k] = None THEN [audited EXCEPT ![k] = s] ELSE audited

\* Every write of a server is followed by its audit entry.
Put(k, s) ==
    /\ servers' = [servers EXCEPT ![k] = s]
    /\ audited' = [audited EXCEPT ![k] = s]

\* The refreshes under way, but for the writer's, have another server in their
\* list from now on.
Touch(k, others) ==
    [r \in Refreshers |-> IF r \in others /\ refresh[r] # None
                          THEN touched[r] \cup {k} ELSE touched[r]]

UserPut(k, s) ==
    /\ Put(k, s)
    /\ touched' = Touch(k, Refreshers)
    /\ UNCHANGED <<discoveryVars, federationVars>>

\* A mistake in Stored.
StoredUnset(enabled, cred) == [enabled |-> None, credentials |-> cred]

Stored(enabled, cred) == [enabled |-> enabled, credentials |-> cred]

Register(k) ==
    /\ servers[k] = None
    /\ \E e \in BOOLEAN, c \in Credentials : UserPut(k, Stored(e, c))
    /\ UNCHANGED removal

Update(k) ==
    /\ servers[k] # None
    /\ \E e \in BOOLEAN, c \in Credentials : UserPut(k, Stored(e, c))
    /\ UNCHANGED removal

SetEnabled(k, e) ==
    /\ servers[k] # None
    /\ UserPut(k, Stored(e, servers[k].credentials))
    /\ UNCHANGED removal

RotateCredentials(k, c) ==
    /\ servers[k] # None
    /\ UserPut(k, Stored(servers[k].enabled, c))
    /\ UNCHANGED removal

\* Without a check for references deregister does not wait.
Deregister(k) ==
    /\ servers[k] # None
    /\ UserPut(k, None)
    /\ UNCHANGED removal

CheckOrphans(d, k) ==
    /\ removal[d] = None
    /\ servers[k] # None
    /\ removal' = [removal EXCEPT ![d] = k]
    /\ UNCHANGED <<registryVars, discoveryVars, federationVars, touched>>

\* The check ends: the server is removed, whatever has become of it, or its
\* references are reported.
OrphansChecked(d) ==
    /\ removal[d] # None
    /\ removal' = [removal EXCEPT ![d] = None]
    /\ \/ UserPut(removal[d], None)
       \/ UNCHANGED <<registryVars, discoveryVars, federationVars, touched>>

-----------------------------------------------------------------------------
(* Capability discovery.                                                   *)

\* What refreshAll may not skip.
Wanted(list, force, known) ==
    {k \in Registered(list) :
       list[k].enabled /\ (force \/ known[k] # "discovered")}

\* What it skips when it is unchanged: a refresh writes the server it has
\* discovered, so updatedAt is the one it has noted only if all of it took less
\* than a millisecond.
Skippable(list) == {k \in Registered(list) : list[k].enabled}

\* The loop of refreshAll up to the next server it awaits, or to its end.  The
\* servers are in the order of their registration, here in any.
GoOn(r, list, todo, force, known) ==
    LET wanted == todo \cap Wanted(list, force, known)
    IN  \/ /\ wanted = {}
           /\ refresh' = [refresh EXCEPT ![r] = None]
        \/ \E k \in todo \cap Skippable(list), skipped \in SUBSET (todo \ wanted) :
             refresh' = [refresh EXCEPT ![r] =
               [list |-> list, todo |-> todo \ ({k} \cup skipped),
                at |-> k, force |-> force]]

\* The list is taken, and what is known of servers no longer in it forgotten.
RefreshAll(r, force) ==
    /\ refresh[r] = None
    /\ discovered' = [k \in Keys |-> IF servers[k] = None THEN None
                                     ELSE discovered[k]]
    /\ GoOn(r, servers, Registered(servers), force, discovered')
    /\ touched' = [touched EXCEPT ![r] = {}]
    /\ UNCHANGED <<registryVars, removal, federationVars>>

\* A mistake in Discovered: credentials of the manifest's instead of the server's.
DiscoveredAnonymous(s) == Stored(s.enabled, CHOOSE c \in Credentials : TRUE)

\* What is written back is the server of the list, with its new capabilities.
Discovered(s) == Stored(s.enabled, s.credentials)

\* The manifest arrives, or the request or the update fails; the update fails
\* when the server is no longer registered.
RefreshServer(r) ==
    /\ refresh[r] # None
    /\ LET f == refresh[r]
           Known(state) == [discovered EXCEPT ![f.at] = state]
       IN  \/ /\ servers[f.at] # None
              /\ Put(f.at, Discovered(f.list[f.at]))
              /\ discovered' = Known("discovered")
              /\ GoOn(r, f.list, f.todo, f.force, Known("discovered"))
              /\ touched' = Touch(f.at, Refreshers \ {r})
           \/ /\ discovered' = Known("failed")
              /\ GoOn(r, f.list, f.todo, f.force, Known("failed"))
              /\ UNCHANGED <<registryVars, touched>>
    /\ UNCHANGED <<removal, federationVars>>

-----------------------------------------------------------------------------
(* Federation.                                                             *)

PublicServers == {k \in Public : servers[k] # None /\ servers[k].enabled}

\* exportPublicRegistry answers with no servers when there is no consent.
ImportFromPeer(v) ==
    /\ importing[v] = None
    /\ importing' = [importing EXCEPT ![v] = IF consent THEN PublicServers ELSE {}]
    /\ UNCHANGED <<registryVars, removal, discoveryVars, consent, imported,
                   touched, withdrawn>>

ImportStored(v) ==
    /\ importing[v] # None
    /\ imported' = [imported EXCEPT ![v] = importing[v]]
    /\ importing' = [importing EXCEPT ![v] = None]
    /\ UNCHANGED <<registryVars, removal, discoveryVars, consent, touched,
                   withdrawn>>

\* A mistake in WithoutImports.
WithoutImportsKept == imported

\* The views every viewer has imported are dropped.
WithoutImports == [v \in Viewers |-> {}]

SetSharingConsent(share) ==
    /\ consent' = share
    /\ imported' = IF share THEN imported ELSE WithoutImports
    /\ withdrawn' = IF share THEN {}
                    ELSE {v \in Viewers : v \in withdrawn \/ importing[v] # None}
    /\ UNCHANGED <<registryVars, removal, discoveryVars, importing, touched>>

RevokeImportedPeer(v) ==
    /\ imported' = [imported EXCEPT ![v] = {}]
    /\ UNCHANGED <<registryVars, removal, discoveryVars, consent, importing,
                   touched, withdrawn>>

-----------------------------------------------------------------------------

Next ==
    \/ \E k \in Keys :
         \/ Register(k) \/ Update(k) \/ Deregister(k)
         \/ \E e \in BOOLEAN : SetEnabled(k, e)
         \/ \E c \in Credentials : RotateCredentials(k, c)
         \/ \E d \in Removals : CheckOrphans(d, k)
    \/ \E d \in Removals : OrphansChecked(d)
    \/ \E r \in Refreshers :
         \/ \E force \in BOOLEAN : RefreshAll(r, force)
         \/ RefreshServer(r)
    \/ \E v \in Viewers :
         \/ ImportFromPeer(v) \/ ImportStored(v) \/ RevokeImportedPeer(v)
    \/ \E share \in BOOLEAN : SetSharingConsent(share)

Spec == Init /\ [][Next]_vars

-----------------------------------------------------------------------------
(* Properties.                                                             *)

\* The last audit entry of a key reports the state the key is in, whoever wrote
\* it: a user, a refresh, or a removal that waited for its check.
AuditMatchesRegistry == audited = servers

\* A refresh changes no server's credentials and enables or disables none,
\* unless someone wrote the server after the refresh had listed it.
OnlyRacingRefreshUndoes ==
    [][\A r \in Refreshers : RefreshServer(r) =>
         \A k \in Registered(servers) \ touched[r] :
           /\ servers'[k].enabled = servers[k].enabled
           /\ servers'[k].credentials = servers[k].credentials]_vars

\* Without consent no organisation shows a server of this one, unless its import
\* was under way when the consent was withdrawn.
OnlyRacingImportOutlivesConsent ==
    \A v \in Viewers : imported[v] # {} => consent \/ v \in withdrawn

\* Without consent nobody shows a server of this organisation.  An import under
\* way breaks it (no run keeps this trace; the README gives it).
ConsentBindsImports == \A v \in Viewers : imported[v] # {} => consent

-----------------------------------------------------------------------------
\* Credentials are only copied.
Symmetry == Permutations(Credentials)

=============================================================================
