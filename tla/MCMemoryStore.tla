----------------------------- MODULE MCMemoryStore -----------------------------
(* Instances of the memory stores and of what summarises their records, each  *)
(* on its own: one or two contexts of one organisation; the second lacks a    *)
(* session, as a call for a project does.                                     *)
EXTENDS SqlMemory, MemorySummaries, TLC

Session1 == [org |-> "o1", project |-> "p1", session |-> "s1"]
Project1 == [org |-> "o1", project |-> "p1", session |-> None]
Project2 == [org |-> "o1", project |-> "p2", session |-> None]

OneOrg == {Session1, Project2}
OneProject == {Session1, Project1}

Review == [ctx \in Contexts |-> "manual-review"]
Mixed == [ctx \in Contexts |->
            IF ctx = Session1 THEN "last-write-wins" ELSE "manual-review"]

CONSTANT ReviewKey    \* the key of the writes that overlap

(* The store in memory with one call at a time, or with calls that overlap and *)
(* all write to the project that has its conflicts reviewed; or that in SQL,   *)
(* with calls that overlap; or the summaries of a project.                     *)
CONSTANT Stores
VARIABLE store

Reviewed(in) == in = None \/ (in.context = Project2 /\ in.key \in {None, ReviewKey}
                                /\ in.scope = "project")

OnlyReviewed == /\ \A c \in Conflicts : Reviewed(payloads[c])
                /\ \A w \in Calls : Writing(w) => Reviewed(call[w].input)

(* In SQL the calls write to one key, and one conflict is queued; once it is    *)
(* resolved, calls that begin try to resolve it again.  No statement of a call  *)
(* under way looks at expiry: rows expire between calls.                        *)
ExpiryBetweenCalls == smExpired' \subseteq smExpired \/ \A w \in Calls : smCall[w] = None

ConflictQueued == {c \in Conflicts : smConflicts[c] # None}

OneReviewed == /\ Cardinality(ConflictQueued) <= 1
               /\ \A w \in Calls : smCall[w] # None /\ "key" \in DOMAIN smCall[w] => smCall[w].key \in {None, ReviewKey}

OnlyResolvedAgain == (\E c \in ConflictQueued : smConflicts[c].status = "resolved") =>
  \A w \in Calls : smCall[w] = None /\ smCall'[w] # None => smCall'[w].at \in {"payload", "resolve"}

(* The project is configured before it has records, and clients change nothing *)
(* at the last time: that is for the runs under way, and those of the summaries.*)
SummariesBound == /\ \/ \A i \in Rows : suRows'[i] = NoRow
                     \/ suConfig' = "enabled" /\ suIntervals' = 0 /\ UNCHANGED <<suConfig, suIntervals>>
                  /\ \/ suClock < SuMaxTime
                     \/ UNCHANGED suNewest /\ \A i \in Rows : suRows'[i] = NoRow => suRows[i] = NoRow

MCInit == store \in Stores /\ Init /\ SmInit /\ SuInit

MCNext == /\ UNCHANGED store
          /\ \/ /\ store \in {"one call", "overlapping"} /\ Next /\ UNCHANGED <<smVars, suVars>>
                /\ IF store = "overlapping" THEN OnlyReviewed' ELSE OneCallAtATime'
             \/ store = "sql" /\ SmNext /\ OneReviewed' /\ OnlyResolvedAgain
                  /\ ExpiryBetweenCalls /\ UNCHANGED <<vars, suVars>>
             \/ store = "summaries" /\ SuNext /\ SummariesBound /\ UNCHANGED <<vars, smVars>>

MCSpec == MCInit /\ [][MCNext]_<<vars, smVars, suVars, store>>

(* The index of keys is exact both ways, unless calls of write, deleteById and *)
(* resolveConflict overlap at their awaits.                                    *)
OnlyOverlappingCallsBreakIndex == store # "one call" \/ (KeyLookupExact /\ KeyedIsFound)

(* The runs, records and summaries of a project go by the names of calls, ids   *)
(* and conflicts, which are interchangeable alike.                             *)
Symmetry == Permutations(Calls) \cup Permutations(Ids) \cup Permutations(Conflicts)

(* The maps of the store in memory are typed, and its two ways to a record     *)
(* agree as long as no two calls overlap; reads of the store in SQL find what  *)
(* they may, and its conflicts are settled; what is archived was summarised.   *)
MemoryConsistent == TypeOK /\ OnlyOverlappingCallsBreakIndex /\ SqlMemorySound /\ SummariesSound

(* No write takes a record away or moves it to another scope, unless it looked *)
(* before another call changed what it found.                                  *)
WritesKeepRecords == ScopeIsImmutable /\ OnlyStaleWritesReplaceRows
=============================================================================
