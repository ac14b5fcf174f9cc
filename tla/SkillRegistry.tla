----------------------------- MODULE SkillRegistry -----------------------------
(***************************************************************************)
(* The registry of installed skills (packages/core/src/skill-registry.ts), *)
(* in memory and in a database, given the same calls; and the history of   *)
(* installations and uses (skill-history.ts), which keeps what is younger  *)
(* than its retention.  A call is one statement or none that awaits.       *)
(***************************************************************************)
EXTENDS UsageStorage, Absence

CONSTANTS SkillNames,      \* [scope, id], an id being a sequence of parts of a name
          SkillIds,        \* ids that are looked for
          SkillVersionsUsed, SkillConfigs, SkillErrors,
          SkRetention,     \* MIN_SKILL_HISTORY_RETENTION_MONTHS, in ticks
          SkMaxTime,       \* bound on the clock
          MaxSkillEvents   \* bound on the events recorded

ASSUME SkillAssumption == {SkRetention, SkMaxTime, MaxSkillEvents} \subseteq Nat

VARIABLES skMemory,   \* the map of InMemorySkillRegistry
          skTable,    \* installed_skills
          skLeft,     \* history: skills whose error was left by a call that clears it in the table
          skEvents,   \* events of the history, numbered
          skGone,     \* history: events pruned, with the time of that
          skClock

skVars == <<skMemory, skTable, skLeft, skEvents, skGone, skClock>>
registryVars == <<skMemory, skTable, skLeft>>
historyVars == <<skEvents, skGone, skClock>>

InstallStatus == {"installed", "pending", "disabled", "failed"}
NotInstalled == None
InstalledSkills == [version : SkillVersionsUsed, status : InstallStatus,
                    config : SkillConfigs \cup {None}, error : SkillErrors \cup {None}]

ASSUME SkillNamesAssumption == /\ None \notin InstalledSkills \cup InstallStatus
                               /\ \A n \in SkillNames : n.id \in Seq(STRING)
                               /\ SkillIds \subseteq Seq(STRING)

SkInit == /\ skMemory = [n \in SkillNames |-> NotInstalled] /\ skTable = skMemory
          /\ skLeft = {} /\ skEvents = {} /\ skGone = {} /\ skClock = 0

-----------------------------------------------------------------------------
(* Calls of both registries *)

(* Neither keeps anything of an earlier installation; the table has no error
   from an installation. *)
Install(n, version, status, error) ==
  LET skill == [version |-> version, status |-> status, config |-> None, error |-> error]
  IN  /\ skMemory' = [skMemory EXCEPT ![n] = skill]
      /\ skTable' = [skTable EXCEPT ![n] = [skill EXCEPT !.error = None]]
      /\ skLeft' = IF error = None THEN skLeft \ {n} ELSE skLeft \cup {n}

Altered(registry, n, skill) == IF registry[n] = None THEN registry ELSE [registry EXCEPT ![n] = skill]

(* Of a skill that is not there the map throws, and the table has no row. *)
UpdateVersion(n, version) ==
  /\ skMemory' = Altered(skMemory, n, [skMemory[n] EXCEPT !.version = version])
  /\ skTable' = Altered(skTable, n, [skTable[n] EXCEPT !.version = version])
  /\ UNCHANGED skLeft

Uninstall(n) == /\ skMemory' = [skMemory EXCEPT ![n] = None]
                /\ skTable' = [skTable EXCEPT ![n] = None]
                /\ skLeft' = skLeft \ {n}

(* enable and disable: the map keeps the error, the table clears it. *)
SetEnabled(n, status) ==
  /\ skMemory' = Altered(skMemory, n, [skMemory[n] EXCEPT !.status = status])
  /\ skTable' = Altered(skTable, n, [skTable[n] EXCEPT !.status = status, !.error = None])
  /\ skLeft' = IF skMemory[n] # None /\ skMemory[n].error # None THEN skLeft \cup {n} ELSE skLeft

SetStatus(n, status, error) ==
  /\ skMemory' = Altered(skMemory, n, [skMemory[n] EXCEPT !.status = status, !.error = error])
  /\ skTable' = Altered(skTable, n, [skTable[n] EXCEPT !.status = status, !.error = error])
  /\ skLeft' = skLeft \ {n}

SetConfig(n, config) ==
  /\ skMemory' = Altered(skMemory, n, [skMemory[n] EXCEPT !.config = config])
  /\ skTable' = Altered(skTable, n, [skTable[n] EXCEPT !.config = config])
  /\ UNCHANGED skLeft

RegistryNext ==
  /\ \E n \in SkillNames :
       \/ \E v \in SkillVersionsUsed, s \in InstallStatus, e \in SkillErrors \cup {None} : Install(n, v, s, e)
       \/ \E v \in SkillVersionsUsed : skMemory[n] # None /\ UpdateVersion(n, v)
       \/ \E s \in {"installed", "disabled"} : skMemory[n] # None /\ SetEnabled(n, s)
       \/ \E s \in InstallStatus, e \in SkillErrors \cup {None} : skMemory[n] # None /\ SetStatus(n, s, e)
       \/ \E c \in SkillConfigs : skMemory[n] # None /\ SetConfig(n, c)
       \/ Uninstall(n)
  /\ UNCHANGED historyVars

(* Queries *)
Here(registry) == {n \in SkillNames : registry[n] # None}

ListInMemory(status, includeDisabled) ==
  {n \in Here(skMemory) : /\ status # None => skMemory[n].status = status
                          /\ includeDisabled \/ skMemory[n].status # "disabled"}

(* "Simplified": the table looks at no other filter. *)
ListTable(includeDisabled) == {n \in Here(skTable) : includeDisabled \/ skTable[n].status # "disabled"}

EndsWithName(id, suffix) == Len(suffix) <= Len(id) /\ SubSeq(id, Len(id) - Len(suffix) + 1, Len(id)) = suffix

FindInMemory(id, min) == {n \in Here(skMemory) : EndsWithName(n.id, id) /\ skMemory[n].version >= min}
FindInTable(id, min) ==
  {n \in Here(skTable) : (n.id = id \/ EndsWithName(n.id, <<"/">> \o id)) /\ skTable[n].version >= min}

-----------------------------------------------------------------------------
(* The history *)

RecordEvent(at) ==
  LET number == Cardinality(skEvents) + Cardinality(skGone)
  IN  /\ number < MaxSkillEvents
      /\ skEvents' = skEvents \cup {[at |-> at, number |-> number]}
      /\ UNCHANGED <<skGone, skClock>>

Cutoff == skClock - SkRetention

PruneHistory(before) ==
  LET limit == IF before < Cutoff THEN before ELSE Cutoff
      old == {e \in skEvents : e.at < limit}
  IN  /\ skEvents' = skEvents \ old
      /\ skGone' = skGone \cup {[event |-> e, at |-> skClock] : e \in old}
      /\ UNCHANGED skClock

SkTick == /\ skClock < SkMaxTime /\ skClock' = skClock + 1 /\ UNCHANGED <<skEvents, skGone>>

HistoryNext == /\ \/ \E at \in 0..skClock : RecordEvent(at)
                  \/ \E before \in 0..(SkMaxTime + 1) : PruneHistory(before)
                  \/ SkTick
               /\ UNCHANGED registryVars

SkNext == RegistryNext \/ HistoryNext
SkSpec == SkInit /\ [][SkNext]_skVars

SkTypeOK == /\ {skMemory, skTable} \subseteq [SkillNames -> InstalledSkills \cup {None}]
            /\ skLeft \in SUBSET SkillNames
            /\ skClock \in 0..SkMaxTime
            /\ \A e \in skEvents : e.at \in Nat
            /\ \A g \in skGone : g.at \in 0..skClock
-----------------------------------------------------------------------------
(* After any calls the two registries hold the same skills, with the same
   versions, states and configurations; their errors differ only where an
   installation brought one or the skill was enabled or disabled with it. *)
RegistriesAgree ==
  /\ Here(skMemory) = Here(skTable)
  /\ \A n \in Here(skTable) : /\ [skMemory[n] EXCEPT !.error = None] = [skTable[n] EXCEPT !.error = None]
                              /\ skMemory[n].error # skTable[n].error => n \in skLeft

(* The table lists at least what the map does, and finds at most what the map
   finds by the end of an id; a skill that is disabled is found by both. *)
QueriesAgree ==
  \A includeDisabled \in BOOLEAN :
    /\ ListInMemory(None, includeDisabled) = ListTable(includeDisabled)
    /\ \A status \in InstallStatus :
         /\ ListInMemory(status, includeDisabled) \subseteq ListTable(includeDisabled)
         /\ ListInMemory("disabled", FALSE) = {}
    /\ \A id \in SkillIds, v \in SkillVersionsUsed : FindInTable(id, v) \subseteq FindInMemory(id, v)

(* No event younger than the retention is pruned, whatever is asked. *)
HistoryIsKept == \A g \in skGone : g.event.at < g.at - SkRetention

(* The registries and the history of skills. *)
SkillsSound == RegistriesAgree /\ QueriesAgree /\ HistoryIsKept

(* What is stored of usage and billing is what was collected and charged, and
   the registries of skills agree. *)
RecordsSound == UsageSound /\ BillingSound /\ SkillsSound
=============================================================================
