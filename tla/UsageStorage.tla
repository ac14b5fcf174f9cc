------------------------------ MODULE UsageStorage ------------------------------
(***************************************************************************)
(* The usage collector (usage-collector.ts) over its storages              *)
(* (usage-storage.ts), and the reports of cost-dashboard.ts,               *)
(* chargeback-report.ts, cost-attribution-report.ts and cost-anomaly.ts    *)
(* that read all events of a period, page after page.                      *)
(*                                                                         *)
(* The in-memory storage runs a batch one event after the other with an    *)
(* await in between; the SQL one lands it in a transaction.  What an event *)
(* says is left to CostReports.                                            *)
(*                                                                         *)
(* And CloudBillingSyncService (cloud-billing.ts): fetching what the       *)
(* providers charged for a period and upserting it by id.  A provider      *)
(* restates an amount: its record then has a later version.                *)
(***************************************************************************)
EXTENDS Integers, Sequences, FiniteSets

CONSTANTS Collectors,      \* concurrent calls of collectBatch
          UsageStorages,   \* subset of {"memory", "sql"}
          UsagePage,       \* pageSize of queryAllEvents
          MaxUsage,        \* bound on the events collected
          UsMaxTime        \* bound on the clock

ASSUME UsageAssumption == /\ UsagePage \in Nat \ {0} /\ MaxUsage \in Nat /\ UsMaxTime \in Nat
                          /\ UsageStorages \subseteq {"memory", "sql"}

VARIABLES usKind,       \* which storage this is
          usRows,       \* its events; reports see them in the order of their ids
          usNextId,
          usClock,
          usLeft,       \* the batch each call still has to store, with how many of it
          usCollected,  \* events made so far
          usPruned,     \* history: batches pruned while they were under way
          usReport      \* the report under way

usVars == <<usKind, usRows, usNextId, usClock, usLeft, usCollected, usPruned, usReport>>

NoReport == [at |-> "none"]
NoBatch == [of |-> 0, size |-> 0, time |-> 0, left |-> 0]

UsInit == /\ usKind \in UsageStorages
          /\ usRows = {} /\ usNextId = 1 /\ usClock = 0
          /\ usLeft = [c \in Collectors |-> NoBatch]
          /\ usCollected = 0
          /\ usPruned = {}
          /\ usReport = NoReport

-----------------------------------------------------------------------------
(* collectBatch: the events are made at once, with one time. *)
Batch(size) == [of |-> usCollected + 1, size |-> size, time |-> usClock, left |-> size]

UsageRow(batch, id) == [id |-> id, of |-> batch.of, size |-> batch.size, time |-> batch.time]

(* store: the storage in memory gives the next id. *)
StoreEvent(c, batch) ==
  /\ usRows' = usRows \cup {UsageRow(batch, usNextId)}
  /\ usNextId' = usNextId + 1
  /\ usLeft' = [usLeft EXCEPT ![c] = IF batch.left = 1 THEN NoBatch
                                     ELSE [batch EXCEPT !.left = @ - 1]]

CollectBatch(c, size) ==
  /\ usLeft[c] = NoBatch
  /\ usCollected + size <= MaxUsage
  /\ usCollected' = usCollected + size
  /\ \/ usKind = "memory" /\ StoreEvent(c, Batch(size))
     \/ /\ usKind = "sql" /\ usLeft' = [usLeft EXCEPT ![c] = Batch(size)]
        /\ UNCHANGED <<usRows, usNextId>>
  /\ UNCHANGED <<usKind, usClock, usPruned, usReport>>

StoreNext(c) ==
  /\ usKind = "memory" /\ usLeft[c] # NoBatch
  /\ StoreEvent(c, usLeft[c])
  /\ UNCHANGED <<usKind, usClock, usCollected, usPruned, usReport>>

(* A mistake in Landing: statements that commit one by one. *)
LandingOneByOne(c) == 1..usLeft[c].size

(* How many rows of a batch its transaction may leave in the table. *)
Landing(c) == {usLeft[c].size}

BatchLands(c) ==
  /\ usKind = "sql" /\ usLeft[c] # NoBatch
  /\ \E n \in Landing(c) :
       /\ usRows' = usRows \cup {UsageRow(usLeft[c], usNextId + i) : i \in 0..(n - 1)}
       /\ usNextId' = usNextId + n
  /\ usLeft' = [usLeft EXCEPT ![c] = NoBatch]
  /\ UNCHANGED <<usKind, usClock, usCollected, usPruned, usReport>>

BatchFails(c) ==
  /\ usKind = "sql" /\ usLeft[c] # NoBatch
  /\ usLeft' = [usLeft EXCEPT ![c] = NoBatch]
  /\ UNCHANGED <<usKind, usRows, usNextId, usClock, usCollected, usPruned, usReport>>

UnderWay == {usLeft[c].of : c \in {d \in Collectors : usLeft[d] # NoBatch}}

(* The events a report has read, each with the offset of its page. *)
Counted(report) == {g[1] : g \in report.got}

PruneUsage(before) ==
  LET gone == {r \in usRows : r.time < before}
  IN  /\ gone # {}
      /\ usRows' = usRows \ gone
      /\ usPruned' = usPruned \cup ({r.of : r \in gone} \cap UnderWay)
      /\ usReport' = IF usReport.at = "pages" /\ gone \cap Counted(usReport) # {}
                     THEN [usReport EXCEPT !.shifted = TRUE] ELSE usReport
      /\ UNCHANGED <<usKind, usNextId, usClock, usLeft, usCollected>>

UsTick == /\ usClock < UsMaxTime /\ usClock' = usClock + 1
          /\ UNCHANGED <<usKind, usRows, usNextId, usLeft, usCollected, usPruned, usReport>>

-----------------------------------------------------------------------------
(* queryAllEvents.  A dashboard ends its period now, a chargeback report at
   the end of the month. *)
Within(from, to) == {r \in usRows : r.time >= from /\ r.time < to}

PlaceIn(found, row) == Cardinality({r \in found : r.id < row.id})

PageAt(found, offset) == {r \in found : PlaceIn(found, r) \in offset..(offset + UsagePage - 1)}

MorePages(found, offset) == offset + UsagePage < Cardinality(found)

ReadPage(report) ==
  LET found == Within(report.from, report.to)
      read == [report EXCEPT !.got = @ \cup (PageAt(found, report.offset) \X {report.offset}),
                             !.offset = @ + UsagePage]
  IN  usReport' = IF MorePages(found, report.offset) THEN read
                  ELSE [read EXCEPT !.at = "done"]

BeginReport(from, to) ==
  /\ usReport = NoReport /\ usKind = "memory" /\ usRows # {}
  /\ ReadPage([at |-> "pages", from |-> from, to |-> to, offset |-> 0, got |-> {},
               shifted |-> FALSE, present |-> Within(from, to)])
  /\ UNCHANGED <<usKind, usRows, usNextId, usClock, usLeft, usCollected, usPruned>>

NextPage ==
  /\ usReport.at = "pages"
  /\ ReadPage(usReport)
  /\ UNCHANGED <<usKind, usRows, usNextId, usClock, usLeft, usCollected, usPruned>>

(* SqlUsageStorage hands out its rows as they are, without the attribution
   every report looks at: one row is enough for the report to throw. *)
SqlReport ==
  /\ usReport = NoReport /\ usKind = "sql"
  /\ usReport' = [at |-> IF usRows = {} THEN "empty" ELSE "thrown"]
  /\ UNCHANGED <<usKind, usRows, usNextId, usClock, usLeft, usCollected, usPruned>>

UsNext == \/ \E c \in Collectors : \/ \E size \in 1..MaxUsage : CollectBatch(c, size)
                                   \/ StoreNext(c) \/ BatchLands(c) \/ BatchFails(c)
          \/ \E before \in 1..(UsMaxTime + 1) : PruneUsage(before)
          \/ \E from \in 0..usClock, to \in {usClock, UsMaxTime + 1} : BeginReport(from, to)
          \/ NextPage \/ SqlReport
          \/ UsTick

UsSpec == UsInit /\ [][UsNext]_usVars

UsageRows == [id : Nat, of : Nat, size : Nat, time : Nat]
UsageBatches == [of : Nat, size : Nat, time : Nat, left : Nat]
Reports == [at : {"none", "empty", "thrown"}]
           \cup [at : {"pages", "done"}, from : Nat, to : Nat, offset : Nat,
                 got : SUBSET (UsageRows \X Nat), shifted : BOOLEAN, present : SUBSET UsageRows]

UsTypeOK == /\ usKind \in UsageStorages
            /\ usRows \in SUBSET UsageRows /\ usNextId \in Nat
            /\ usCollected \in 0..MaxUsage /\ usClock \in 0..UsMaxTime
            /\ usLeft \in [Collectors -> UsageBatches]
            /\ usPruned \in SUBSET Nat
            /\ usReport \in Reports

-----------------------------------------------------------------------------
BatchRows(batch) == {r \in usRows : r.of = batch}

(* A batch is in the storage as a whole or not at all, also after events were
   pruned; in memory only while it is being stored, or when a prune came in
   between, is there a part of it. *)
BatchesAreWhole ==
  \A r \in usRows : \/ r.of \in UnderWay \cup usPruned
                    \/ Cardinality(BatchRows(r.of)) = r.size

(* A report counts no event twice and, unless a prune took away events it had
   counted, every event of its period that was stored as it began and still
   is at its end.  A prune shifts the pages under it, so that it passes over
   events that were never pruned. *)
ReportsCountOnce ==
  usReport.at = "done" =>
    /\ \A g, h \in usReport.got : g[1] = h[1] => g = h
    /\ \A r \in Counted(usReport) : r.time >= usReport.from /\ r.time < usReport.to
    /\ ~usReport.shifted => usReport.present \cap usRows \subseteq Counted(usReport)

(* Usage is stored and read as it was collected. *)
UsageSound == BatchesAreWhole /\ ReportsCountOnce

-----------------------------------------------------------------------------
CONSTANTS Syncs,       \* concurrent calls of runSync and runScheduledSync
          Providers,   \* the connectors, in order: a sequence
          Interval, Lookback,
          CbMaxTime,   \* bound on the clock
          Restated     \* bound on the versions of a record

ASSUME BillingAssumption == /\ {Interval, Lookback} \subseteq Nat \ {0} /\ CbMaxTime \in Nat
                            /\ Len(Providers) \in Nat

VARIABLES cbClock,
          cbTruth,     \* version of each record at its provider
          cbRows,      \* version in the storage, 0 for none
          cbLast,      \* lastSyncedAt, or Never
          cbRun,       \* the sync under way of each caller
          cbBest,      \* history: latest version that was stored
          cbTwo,       \* history: whether two syncs were under way at once
          cbSlow       \* history: whether a sync left a hole behind the one before

cbVars == <<cbClock, cbTruth, cbRows, cbLast, cbRun, cbBest, cbTwo, cbSlow>>

(* The charge of a provider for one unit of time. *)
Charges == (1..Len(Providers)) \X (0..(CbMaxTime - 1))
NoSync == [at |-> "none"]
Never == -1

CbInit == /\ cbClock = 0
          /\ cbTruth = [r \in Charges |-> 1]
          /\ cbRows = [r \in Charges |-> 0] /\ cbBest = cbRows
          /\ cbLast = Never
          /\ cbRun = [c \in Syncs |-> NoSync]
          /\ cbTwo = FALSE /\ cbSlow = FALSE

CbGoto(c, state) == cbRun' = [cbRun EXCEPT ![c] = state]

-----------------------------------------------------------------------------
IsSyncDue == cbLast # Never => cbClock - cbLast >= Interval

(* runSync without a range, also by a schedule that is due. *)
BeginSync(c) ==
  /\ cbRun[c] = NoSync
  /\ CbGoto(c, [at |-> "fetch", start |-> cbClock - Lookback, end |-> cbClock, next |-> 1, got |-> {}])
  /\ cbTwo' = (cbTwo \/ \E d \in Syncs : cbRun[d] # NoSync)
  /\ UNCHANGED <<cbClock, cbTruth, cbRows, cbLast, cbBest, cbSlow>>

ScheduledSync(c) == IsSyncDue /\ BeginSync(c)

ManualSync(c) == ~IsSyncDue /\ BeginSync(c)

(* One connector after the other; a record is in range when it overlaps it. *)
FetchCosts(c) ==
  LET run == cbRun[c]
      fetched == {r \in Charges : r[1] = run.next /\ r[2] + 1 > run.start /\ r[2] < run.end}
  IN  /\ run.at = "fetch" /\ run.next <= Len(Providers)
      /\ CbGoto(c, [run EXCEPT !.next = @ + 1,
                               !.got = @ \cup {[id |-> r, version |-> cbTruth[r]] : r \in fetched}])
      /\ UNCHANGED <<cbClock, cbTruth, cbRows, cbLast, cbBest, cbTwo, cbSlow>>

FetchFails(c) ==
  /\ cbRun[c].at = "fetch" /\ cbRun[c].next <= Len(Providers)
  /\ CbGoto(c, NoSync)
  /\ UNCHANGED <<cbClock, cbTruth, cbRows, cbLast, cbBest, cbTwo, cbSlow>>

(* Upserts that fail have stored nothing: a record that does not parse is
   refused by the connector. *)
Upsert(c) ==
  /\ cbRun[c].at = "fetch" /\ cbRun[c].next > Len(Providers)
  /\ cbRows' = [r \in Charges |-> IF \E g \in cbRun[c].got : g.id = r
                                  THEN (CHOOSE g \in cbRun[c].got : g.id = r).version ELSE cbRows[r]]
  /\ cbBest' = [r \in Charges |-> IF cbRows'[r] > cbBest[r] THEN cbRows'[r] ELSE cbBest[r]]
  /\ CbGoto(c, [at |-> "stored", start |-> cbRun[c].start, end |-> cbRun[c].end])
  /\ UNCHANGED <<cbClock, cbTruth, cbLast, cbTwo, cbSlow>>

FinishSync(c) ==
  /\ cbRun[c].at = "stored"
  /\ cbLast' = cbRun[c].end
  /\ cbSlow' = (cbSlow \/ cbRun[c].start > IF cbLast = Never THEN 0 ELSE cbLast)
  /\ CbGoto(c, NoSync)
  /\ UNCHANGED <<cbClock, cbTruth, cbRows, cbBest, cbTwo>>

Restate(r) == /\ r[2] < cbClock /\ cbTruth[r] < Restated
              /\ cbTruth' = [cbTruth EXCEPT ![r] = @ + 1]
              /\ UNCHANGED <<cbClock, cbRows, cbLast, cbRun, cbBest, cbTwo, cbSlow>>

CbTick == /\ cbClock < CbMaxTime /\ cbClock' = cbClock + 1
          /\ UNCHANGED <<cbTruth, cbRows, cbLast, cbRun, cbBest, cbTwo, cbSlow>>

CbNext == \/ \E c \in Syncs : \/ ScheduledSync(c) \/ ManualSync(c) \/ FetchCosts(c) \/ FetchFails(c)
                              \/ Upsert(c) \/ FinishSync(c)
          \/ \E r \in Charges : Restate(r)
          \/ CbTick

CbSpec == CbInit /\ [][CbNext]_cbVars

-----------------------------------------------------------------------------
(* What was synced up to lastSyncedAt is in the storage, whichever syncs
   failed or overlapped, unless two that succeeded lay further apart than the
   lookback. *)
NoChargeIsSkipped ==
  cbLast # Never /\ ~cbSlow => \A r \in Charges : r[2] < cbLast => cbRows[r] # 0

(* A restated amount is replaced by an earlier one only when two syncs were
   under way at once. *)
OnlyOverlapRegresses == ~cbTwo => cbRows = cbBest

(* Infrastructure costs are complete and up to date. *)
BillingSound == NoChargeIsSkipped /\ OnlyOverlapRegresses
=============================================================================
