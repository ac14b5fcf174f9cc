---------------------------- MODULE MemorySummaries ----------------------------
(***************************************************************************)
(* MemorySummarizationPipeline of packages/core/src/                       *)
(* memory-summarization.ts for one project: a run lists the records that   *)
(* are old enough, writes a summary of them, and writes each of them back  *)
(* as archived, with what it had listed, one awaited write after another.  *)
(* Runs are started by an interval or by hand, whether or not another is   *)
(* under way.  The store is that of MemoryStore: its write finds createdAt *)
(* before it awaits the embedding.  Contents are numbered as written.      *)
(***************************************************************************)
EXTENDS Integers, FiniteSets, Sequences

CONSTANTS SuRuns,          \* runs that may be under way at once
          Memories,        \* ids of the project's records
          Summaries,       \* ids of the summaries that are written
          MaxAge, MinRecords, MaxPerSummary,
          NoRow,
          MaxContents,     \* bound on the writes of clients
          SuMaxTime        \* bound on the clock

ASSUME SummariesAssumption == /\ {MaxAge, MinRecords, MaxPerSummary} \subseteq Nat \ {0}
                              /\ Memories \cap Summaries = {}

VARIABLES suClock,
          suRows,       \* the record of each id, or NoRow
          suConfig,     \* "none", or whether the project is enabled
          suIntervals,  \* intervals that are armed
          suRun,        \* where each run is
          suNewest,     \* history: what clients wrote last to each id, 0 when they deleted it
          suShown,      \* history: <<summary, id, content>> of the summaries stored
          suShared,     \* history: ids that two runs had listed at once
          suLeft,       \* history: ids a failed run had summarised and not yet archived
          suRaced       \* history: ids clients wrote last while a run had them listed

suVars == <<suClock, suRows, suConfig, suIntervals, suRun, suNewest, suShown, suShared, suLeft, suRaced>>

Rows == Memories \cup Summaries
NotRunning == [at |-> "none"]

SuRow == [content : Nat, born : Nat, archived : BOOLEAN]
SuListed == [id : Rows, row : SuRow]
SuRunning == [at : {"summary", "lookup"}, now : Nat, next : Nat \ {0}, list : Seq(SuListed)]
               \cup [at : {"store"}, now : Nat, next : Nat \ {0}, list : Seq(SuListed), born : Nat]

ASSUME SuNoRowAssumption == NoRow \notin SuRow

(* The store has finitely many rows; a run begins with the first it listed. *)
SuTypeOK ==
  /\ suClock \in Nat /\ suRows \in [Rows -> SuRow \cup {NoRow}]
  /\ IsFiniteSet({i \in Rows : suRows[i] # NoRow})
  /\ suConfig \in {"none", "enabled", "disabled"} /\ suIntervals \in {0, 1}
  /\ suRun \in [SuRuns -> SuRunning \cup {NotRunning}]
  /\ \A r \in SuRuns : suRun[r] # NotRunning =>
       /\ suRun[r].next \in 1..Len(suRun[r].list)
       /\ suRun[r].at = "summary" => suRun[r].next = 1
  /\ suNewest \in [Memories -> Nat] /\ suShown \subseteq Summaries \X Rows \X Nat
  /\ suShared \subseteq Rows /\ suLeft \subseteq Rows /\ suRaced \subseteq Rows

SuInit == /\ suClock = 0 /\ suRows = [i \in Rows |-> NoRow]
          /\ suConfig = "none" /\ suIntervals = 0
          /\ suRun = [r \in SuRuns |-> NotRunning]
          /\ suNewest = [i \in Memories |-> 0]
          /\ suShown = {} /\ suShared = {} /\ suLeft = {} /\ suRaced = {}

Goes(r, state) == suRun' = [suRun EXCEPT ![r] = state]

(* The ids a run has listed and not yet written back. *)
Listed(r) == IF suRun[r] = NotRunning THEN {} ELSE {suRun[r].list[n].id : n \in suRun[r].next..Len(suRun[r].list)}

-----------------------------------------------------------------------------
(* The configuration of the project and its interval. *)
configVars == <<suConfig, suIntervals>>

(* configureProject stops the interval of the entry it replaces. *)
ConfigureProject(enabled) ==
  /\ suConfig' = IF enabled THEN "enabled" ELSE "disabled"
  /\ suIntervals' = IF enabled THEN 1 ELSE 0
  /\ UNCHANGED <<suClock, suRows, suRun, suNewest, suShown, suShared, suLeft, suRaced>>

RemoveProject == /\ suConfig # "none" /\ suConfig' = "none" /\ suIntervals' = 0
                 /\ UNCHANGED <<suClock, suRows, suRun, suNewest, suShown, suShared, suLeft, suRaced>>

(* An entry that has an interval keeps it. *)
StartAll == /\ suConfig = "enabled" /\ suIntervals = 0 /\ suIntervals' = 1
            /\ UNCHANGED <<suClock, suRows, suConfig, suRun, suNewest, suShown, suShared, suLeft, suRaced>>

StopAll == /\ suIntervals > 0 /\ suIntervals' = 0
           /\ UNCHANGED <<suClock, suRows, suConfig, suRun, suNewest, suShown, suShared, suLeft, suRaced>>

-----------------------------------------------------------------------------
(* runNow *)

Candidates == {i \in Rows : suRows[i] # NoRow /\ ~suRows[i].archived /\ suRows[i].born <= suClock - MaxAge}

(* The oldest first; records of one time stand in either order. *)
OldestFirst(ids) == {s \in [1..Cardinality(ids) -> ids] :
                       \A m, n \in DOMAIN s : m < n => s[m] # s[n] /\ suRows[s[m]].born <= suRows[s[n]].born}

(* A run with too few candidates is skipped. *)
BeginRun(r) ==
  /\ suRun[r] = NotRunning /\ suConfig = "enabled"
  /\ Cardinality(Candidates) >= MinRecords
  /\ \E s \in OldestFirst(Candidates) :
       LET size == IF Len(s) < MaxPerSummary THEN Len(s) ELSE MaxPerSummary
           ids == {s[n] : n \in 1..size}
       IN  /\ Goes(r, [at |-> "summary", now |-> suClock, next |-> 1,
                       list |-> [n \in 1..size |-> [id |-> s[n], row |-> suRows[s[n]]]]])
           /\ suShared' = suShared \cup (ids \cap UNION {Listed(q) : q \in SuRuns})
  /\ UNCHANGED <<suClock, suRows, configVars, suNewest, suShown, suLeft, suRaced>>

(* The content of the summary is new, and its time that of the run. *)
WriteSummary(r) ==
  /\ suRun[r].at = "summary"
  /\ \E s \in Summaries :
       /\ suRows[s] = NoRow /\ \A shown \in suShown : shown[1] # s
       /\ suRows' = [suRows EXCEPT ![s] = [content |-> 0, born |-> suRun[r].now, archived |-> FALSE]]
       /\ suShown' = suShown \cup {<<s, e.id, e.row.content>> : e \in {suRun[r].list[n] : n \in DOMAIN suRun[r].list}}
  /\ Goes(r, [suRun[r] EXCEPT !.at = "lookup"])
  /\ UNCHANGED <<suClock, configVars, suNewest, suShared, suLeft, suRaced>>

(* write finds createdAt, or has none, ... *)
LookUp(r) ==
  LET run == suRun[r]
      id == run.list[run.next].id
  IN  /\ run.at = "lookup"
      /\ Goes(r, [at |-> "store", now |-> run.now, next |-> run.next, list |-> run.list,
                  born |-> IF suRows[id] = NoRow THEN run.now ELSE suRows[id].born])
      /\ UNCHANGED <<suClock, suRows, configVars, suNewest, suShown, suShared, suLeft, suRaced>>

(* The row an archived record is written back as. *)
Archived(run) == [content |-> run.list[run.next].row.content, born |-> run.born, archived |-> TRUE]

(* A mistake in Archived: what is there is archived, whatever the summary shows. *)
ArchivedAsIs(run) ==
  LET id == run.list[run.next].id
  IN  [content |-> IF suRows[id] = NoRow THEN run.list[run.next].row.content ELSE suRows[id].content,
       born |-> run.born, archived |-> TRUE]

(* ... and stores what was listed, when the embedding has come. *)
StoreArchived(r) ==
  LET run == suRun[r]
  IN  /\ run.at = "store"
      /\ suRows' = [suRows EXCEPT ![run.list[run.next].id] = Archived(run)]
      /\ Goes(r, IF run.next = Len(run.list) THEN NotRunning
                 ELSE [at |-> "lookup", now |-> run.now, next |-> run.next + 1, list |-> run.list])
      /\ UNCHANGED <<suClock, configVars, suNewest, suShown, suShared, suLeft, suRaced>>

(* A write of the run rejects; nobody handles that of an interval. *)
RunFails(r) ==
  /\ suRun[r] # NotRunning
  /\ suLeft' = IF suRun[r].at = "summary" THEN suLeft ELSE suLeft \cup Listed(r)
  /\ Goes(r, NotRunning)
  /\ UNCHANGED <<suClock, suRows, configVars, suNewest, suShown, suShared, suRaced>>

-----------------------------------------------------------------------------
(* Clients of the store.  What their writes await is left to MemoryStore.  A
   write replaces the metadata, and so is no longer archived. *)
Contents == {suNewest[i] : i \in Memories} \cup {shown[3] : shown \in suShown}
              \cup UNION {{e.row.content : e \in {suRun[r].list[n] : n \in DOMAIN suRun[r].list}} :
                          r \in {q \in SuRuns : suRun[q] # NotRunning}}

Raced(i) == IF \E r \in SuRuns : i \in Listed(r) THEN suRaced \cup {i} ELSE suRaced \ {i}

ClientWrites(i) ==
  /\ \E content \in 1..MaxContents :
       /\ content \notin Contents /\ \A lower \in 1..(content - 1) : lower \in Contents
       /\ suRows' = [suRows EXCEPT ![i] = [content |-> content, archived |-> FALSE,
                                           born |-> IF @ = NoRow THEN suClock ELSE @.born]]
       /\ suNewest' = [suNewest EXCEPT ![i] = content]
  /\ suRaced' = Raced(i)
  /\ UNCHANGED <<suClock, configVars, suRun, suShown, suShared, suLeft>>

ClientDeletes(i) ==
  /\ suRows[i] # NoRow /\ suRows' = [suRows EXCEPT ![i] = NoRow]
  /\ suNewest' = IF i \in Memories THEN [suNewest EXCEPT ![i] = 0] ELSE suNewest
  /\ suRaced' = Raced(i)
  /\ UNCHANGED <<suClock, configVars, suRun, suShown, suShared, suLeft>>

SuTick == /\ suClock < SuMaxTime /\ suClock' = suClock + 1
          /\ UNCHANGED <<suRows, configVars, suRun, suNewest, suShown, suShared, suLeft, suRaced>>

SuNext == \/ \E enabled \in BOOLEAN : ConfigureProject(enabled)
          \/ RemoveProject \/ StartAll \/ StopAll
          \/ \E r \in SuRuns : BeginRun(r) \/ WriteSummary(r) \/ LookUp(r) \/ StoreArchived(r) \/ RunFails(r)
          \/ \E i \in Memories : ClientWrites(i)
          \/ \E i \in Rows : ClientDeletes(i)
          \/ SuTick

SuSpec == SuInit /\ [][SuNext]_suVars

-----------------------------------------------------------------------------
(* What is archived was shown, as it is, by a summary that was stored before. *)
ArchivedIsShown ==
  \A i \in Rows : suRows[i] # NoRow /\ suRows[i].archived =>
    \E s \in Summaries : <<s, i, suRows[i].content>> \in suShown

(* Two summaries show the same content of a record only when two runs had the
   record listed at once, or one failed between its summary and its archiving. *)
ShownOnce ==
  \A a, b \in suShown : a # b /\ a[2] = b[2] /\ a[3] = b[3] => a[2] \in suShared \cup suLeft

(* A run takes back what clients wrote last, and brings back what they deleted,
   only if they did so while it had the record listed. *)
OnlyRacingRunsTakeBack ==
  \A i \in Memories \ suRaced : IF suNewest[i] = 0 THEN suRows[i] = NoRow
                                ELSE suRows[i] # NoRow /\ suRows[i].content = suNewest[i]

(* What is archived was written at least MaxAge ago, with the same exception. *)
ArchivedIsOld ==
  \A i \in Rows \ suRaced : suRows[i] # NoRow /\ suRows[i].archived => suRows[i].born <= suClock - MaxAge

(* A project has one interval at most, and none unless it is enabled. *)
OneInterval == suIntervals <= IF suConfig = "enabled" THEN 1 ELSE 0

(* Records are archived as they were summarised. *)
SummariesSound == ArchivedIsShown /\ ShownOnce /\ OnlyRacingRunsTakeBack /\ ArchivedIsOld /\ OneInterval
=============================================================================
