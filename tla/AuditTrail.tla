------------------------------ MODULE AuditTrail ------------------------------
(***************************************************************************)
(* The audit trail: InMemoryAuditStorage and SqlAuditStorage of            *)
(* packages/core/src/audit-storage.ts, and those who read it page by page: *)
(* the permission audit's query, the anomaly detector, the notification    *)
(* aggregator, the compliance report and the security dashboard.           *)
(*                                                                         *)
(* A scan asks for one page at a time by offset, newest entries first, and *)
(* entries are appended and archived between its pages.  The order of the  *)
(* entries is given by each one's place in it; those of one instant are in *)
(* the order they were stored, which the numbers of their ids stand for.   *)
(***************************************************************************)
EXTENDS Integers, FiniteSets, Sequences

CONSTANTS Kinds,       \* the kinds of entries that are written
          Storages,    \* subset of {"memory", "sql"}
          Readers,     \* subset of AllReaders
          PageSize,    \* 250 or 500 in the code
          MaxEntries,  \* bound on the entries ever stored
          AtMaxTime,   \* bound on the clock
          LookBacks,   \* lengths of the notification and dashboard windows
          Threshold    \* denials that make a spike

AllReaders == {"query", "notify", "compliance", "dashboard"}

(* action, category, and whether isDenialEvent counts it *)
KindTable ==
  [allowed   |-> [act |-> "permission.read", cat |-> "access", denial |-> FALSE],
   denied    |-> [act |-> "permission.read", cat |-> "access", denial |-> TRUE],
   request   |-> [act |-> "approval.request", cat |-> "security", denial |-> FALSE],
   gated     |-> [act |-> "approval.enforce.gated", cat |-> "security", denial |-> FALSE],
   approve   |-> [act |-> "approval.approve", cat |-> "security", denial |-> FALSE],
   refuse    |-> [act |-> "approval.deny", cat |-> "security", denial |-> TRUE],
   expire    |-> [act |-> "approval.expire", cat |-> "security", denial |-> FALSE],
   kill      |-> [act |-> "kill-switch.activate", cat |-> "security", denial |-> FALSE],
   veto      |-> [act |-> "hook.pre.veto", cat |-> "access", denial |-> FALSE],
   limited   |-> [act |-> "rate-limit.enforce.deny", cat |-> "security", denial |-> TRUE]]

ASSUME AtAssumption == /\ Kinds \subseteq DOMAIN KindTable
                       /\ Storages \subseteq {"memory", "sql"}
                       /\ Readers \subseteq AllReaders
                       /\ PageSize \in Nat \ {0}
                       /\ MaxEntries \in Nat /\ AtMaxTime \in Nat
                       /\ LookBacks \subseteq Nat \ {0} /\ Threshold \in Nat \ {0}
                       /\ \E w \in LookBacks : \A v \in LookBacks : v <= w

VARIABLES atStorage,   \* which storage this is
          atRows,      \* the entries
          atNextId,    \* nextId of the memory storage
          atNow,
          atBatch,     \* entries of an appendBatch still to be stored
          atScan,      \* the scan under way, or NoScan
          atNotified,  \* history: the entries told of, each with the poll that told
          atLastPoll,  \* where the next notification interval starts
          atRequest,   \* how far the one approval request is
          atAnswer     \* what the last finished scan came to

atVars == <<atStorage, atRows, atNextId, atNow, atBatch, atScan, atNotified, atLastPoll,
            atRequest, atAnswer>>

NoScan == [reader |-> "none"]
AtEntry == [id : 1..MaxEntries, at : 0..AtMaxTime, kind : Kinds]

(* An entry that was read, with its place in the order when it was. *)
AtRead == [place : Nat \ {0}, entry : AtEntry]

AtScanning ==
  [reader : Readers, since : 0..AtMaxTime, from : 0..AtMaxTime, to : 1..(AtMaxTime + 1),
   offset : Nat, page : {"rows", "count"}, got : SUBSET AtRead,
   present : SUBSET AtEntry, past : BOOLEAN]

AtTypeOK == /\ atStorage \in Storages
            /\ atRows \subseteq AtEntry
            /\ atNextId \in 1..(MaxEntries + 1)
            /\ atNow \in 0..AtMaxTime
            /\ atBatch \in Seq(Kinds)
            /\ atScan \in AtScanning \cup {NoScan}
            /\ atNotified \subseteq [poll : 1..AtMaxTime, place : Nat \ {0}, entry : AtEntry]
            /\ atLastPoll \in 0..AtMaxTime
            /\ atRequest \in {"none", "pending", "decided"}

AtInit == /\ atStorage \in Storages
          /\ atRows = {} /\ atNextId = 1 /\ atNow = 0 /\ atBatch = <<>>
          /\ atScan = NoScan /\ atNotified = {} /\ atLastPoll = 0 /\ atRequest = "none"
          /\ atAnswer = NoScan

(* An answer is history: it is kept for the state it is given in. *)
Unanswered == atAnswer' = NoScan

-----------------------------------------------------------------------------
(* Writers. *)
Stored(id, kind) == [id |-> id, at |-> atNow, kind |-> kind]

HasRoom(n) == atNextId + Len(atBatch) + n <= MaxEntries + 1

(* The gate's entries follow its request, which is decided once. *)
RequestAfter(kind) ==
  CASE kind = "request" /\ atRequest = "none" -> {"pending"}
    [] kind = "gated" /\ atRequest = "pending" -> {"pending"}
    [] kind \in {"approve", "refuse", "expire"} /\ atRequest = "pending" -> {"decided"}
    [] kind \notin {"request", "gated", "approve", "refuse", "expire"} -> {atRequest}
    [] OTHER -> {}

AppendEntry(kind) ==
  /\ HasRoom(1)
  /\ atRequest' \in RequestAfter(kind)
  /\ atRows' = atRows \cup {Stored(atNextId, kind)}
  /\ atNextId' = atNextId + 1
  /\ UNCHANGED <<atStorage, atNow, atBatch, atScan, atNotified, atLastPoll>>
  /\ Unanswered

(* What logEvaluation and logEvaluationBatch make of an evaluation. *)
EvaluationKinds == {"allowed", "denied"}

(* SQL: one transaction.  In memory: one awaited append after the other. *)
AppendBatch(first, second) ==
  /\ {first, second} \subseteq EvaluationKinds
  /\ HasRoom(2) /\ atBatch = <<>>
  /\ IF atStorage = "sql"
     THEN /\ atRows' = atRows \cup {Stored(atNextId, first), Stored(atNextId + 1, second)}
          /\ atNextId' = atNextId + 2
          /\ UNCHANGED atBatch
     ELSE /\ atRows' = atRows \cup {Stored(atNextId, first)}
          /\ atNextId' = atNextId + 1
          /\ atBatch' = <<second>>
  /\ UNCHANGED <<atStorage, atNow, atScan, atNotified, atLastPoll, atRequest>>
  /\ Unanswered

AppendBatchRest ==
  /\ atBatch # <<>>
  /\ atRows' = atRows \cup {Stored(atNextId, Head(atBatch))}
  /\ atNextId' = atNextId + 1
  /\ atBatch' = Tail(atBatch)
  /\ UNCHANGED <<atStorage, atNow, atScan, atNotified, atLastPoll, atRequest>>
  /\ Unanswered

Archive(before) ==
  /\ before <= atNow
  /\ \E e \in atRows : e.at < before
  /\ atRows' = {e \in atRows : e.at >= before}
  /\ UNCHANGED <<atStorage, atNextId, atNow, atBatch, atScan, atNotified, atLastPoll, atRequest>>
  /\ Unanswered

AtTick ==
  /\ atNow < AtMaxTime
  /\ atNow' = atNow + 1
  /\ UNCHANGED <<atStorage, atRows, atNextId, atBatch, atScan, atNotified, atLastPoll, atRequest>>
  /\ Unanswered

-----------------------------------------------------------------------------
(* Readers. *)
During(e, from, to) == e.at >= from /\ e.at < to

(* toAuditFilter: the permission audit asks for its own category. *)
CategoriesOf(reader) == IF reader = "query" THEN {"access"} ELSE {"access", "security"}

(* fromAuditEntry: an access entry that carries no result is nobody's evaluation. *)
IsEvaluation(e) == e.kind \in EvaluationKinds

(* SqlAuditStorage does not look at the filter. *)
Passes(e, scan) ==
  \/ atStorage = "sql"
  \/ /\ During(e, scan.from, scan.to)
     /\ KindTable[e.kind].cat \in CategoriesOf(scan.reader)

FilterEntries(rows, scan) == {e \in rows : Passes(e, scan)}

(* Newest first; entries of one instant stay in the order they were stored. *)
Before(d, e) == d.at > e.at \/ (d.at = e.at /\ d.id < e.id)

Place(e, filtered) == 1 + Cardinality({d \in filtered : Before(d, e)})

Page(filtered, offset) ==
  {[place |-> Place(e, filtered), entry |-> e] :
     e \in {e \in filtered : Place(e, filtered) \in (offset + 1)..(offset + PageSize)}}

(* A mistake in HasMore. *)
HasMoreThanOne(filtered, offset) == offset + PageSize + 1 < Cardinality(filtered)

HasMore(filtered, offset) == offset + PageSize < Cardinality(filtered)

MaxWindow == CHOOSE w \in LookBacks : \A v \in LookBacks : v <= w

AtLeastZero(n) == IF n < 0 THEN 0 ELSE n

(* The dashboard looks back over its largest window, the notifications over
   theirs or to the start of their interval, the others from where asked. *)
StartScan(reader, from, to) ==
  /\ atScan = NoScan
  /\ from < to
  /\ reader \in {"notify", "dashboard"} => to = atNow
  /\ reader = "dashboard" => from = AtLeastZero(to - MaxWindow)
  /\ reader = "notify" => from = atLastPoll
  /\ atScan' = [reader |-> reader, since |-> from, to |-> to,
                from |-> IF reader = "notify" /\ to - MaxWindow < from
                         THEN AtLeastZero(to - MaxWindow) ELSE from,
                offset |-> 0, got |-> {}, page |-> "rows",
                present |-> atRows, past |-> to <= atNow]
  /\ UNCHANGED <<atStorage, atRows, atNextId, atNow, atBatch, atNotified, atLastPoll, atRequest>>
  /\ Unanswered

EntriesOf(reads) == {r.entry : r \in reads}

(* mapAuditEventToNotification *)
IsNotified(kind) == kind \in {"kill", "request", "approve", "refuse", "expire"}

Denials(got, from, to) ==
  Cardinality({r \in got : During(r.entry, from, to) /\ KindTable[r.entry.kind].denial})

(* detectDenialSpikes: a window reaches back no further than the interval. *)
Spikes(got, from, to) ==
  {w \in LookBacks : LET start == IF to - w < from THEN from ELSE to - w
                   IN  Denials(got, start, to) >= Threshold}

(* toApprovalStatus; a gated call carries the request's status: pending. *)
ApprovalStatus(kind) ==
  CASE kind \in {"request", "gated"} -> "pending"
    [] kind = "approve" -> "approved"
    [] kind = "refuse"  -> "denied"
    [] kind = "expire"  -> "expired"
    [] OTHER -> "none"

(* buildApprovalState: the first entry dates the request and the last decides
   it.  Entries of one instant are sorted by their ids as strings ("aud_10"
   comes before "aud_9", and the ids in SQL are random): any may be the last. *)
Relevant(entries) == {e \in entries : ApprovalStatus(e.kind) # "none"}
Firsts(entries) == {e \in entries : \A d \in entries : e.at <= d.at}
Lasts(entries) == {e \in entries : \A d \in entries : d.at <= e.at}

(* countPendingApprovals: the windows that count the request as pending. *)
PendingIn(entries, last, to) ==
  {w \in LookBacks : /\ ApprovalStatus(last.kind) = "pending"
                     /\ \E e \in Firsts(entries) : During(e, to - w, to)}

(* What a snapshot may show, by which entry of the last instant comes last. *)
Snapshots(entries, to) ==
  IF entries = {} THEN {{}} ELSE {PendingIn(entries, last, to) : last \in Lasts(entries)}

(* The controls of both profiles and the entries that are their evidence.
   No component writes "permission.evaluate" or "permission.anomaly.": the
   permission audit's entries are evidence of the logging control alone. *)
Approvals == {"approval.request", "approval.approve", "approval.deny"}
EvidenceOf ==
  [CC61 |-> Approvals,
   CC72 |-> {"rate-limit.enforce.deny", "hook.pre.veto"},
   CC73 |-> {"kill-switch.activate"},
   CC81 |-> {"approval.request"},
   A515 |-> Approvals \cup {"approval.expire", "approval.enforce.gated"},
   A524 |-> {"kill-switch.activate"},
   A815 |-> {KindTable[k].act : k \in DOMAIN KindTable},
   A816 |-> {"rate-limit.enforce.deny", "hook.pre.veto"}]

Evidence(control, got) ==
  {e \in EntriesOf(got) : KindTable[e.kind].act \in EvidenceOf[control]}

(* What the reader makes of all it read. *)
Conclude(scan, read) ==
  LET got == IF scan.reader = "query" THEN {r \in read : IsEvaluation(r.entry)} ELSE read IN
  /\ \E pending \in Snapshots(Relevant(EntriesOf(got)), scan.to) :
       atAnswer' = [reader |-> scan.reader, since |-> scan.since, from |-> scan.from,
                    to |-> scan.to, past |-> scan.past, got |-> got, present |-> scan.present,
                    spikes |-> IF scan.reader = "notify"
                               THEN Spikes(got, scan.since, scan.to) ELSE {},
                    pending |-> IF scan.reader = "dashboard" THEN pending ELSE {},
                    covered |-> IF scan.reader = "compliance"
                                THEN {c \in DOMAIN EvidenceOf : Evidence(c, got) # {}} ELSE {}]
  /\ atScan' = NoScan
  /\ IF scan.reader = "notify"
     THEN /\ atNotified' = atNotified \cup
               {[poll |-> scan.to, place |-> r.place, entry |-> r.entry] :
                  r \in {r \in got : During(r.entry, scan.since, scan.to) /\ IsNotified(r.entry.kind)}}
          /\ atLastPoll' = scan.to
     ELSE UNCHANGED <<atNotified, atLastPoll>>

(* A page of the memory storage is read at once. *)
ScanPage ==
  /\ atScan # NoScan /\ atStorage = "memory"
  /\ LET filtered == FilterEntries(atRows, atScan)
         got == atScan.got \cup Page(filtered, atScan.offset)
     IN  IF HasMore(filtered, atScan.offset)
         THEN /\ atScan' = [atScan EXCEPT !.got = got, !.offset = @ + PageSize]
              /\ UNCHANGED <<atNotified, atLastPoll>> /\ Unanswered
         ELSE Conclude(atScan, got)
  /\ UNCHANGED <<atStorage, atRows, atNextId, atNow, atBatch, atRequest>>

(* The SQL storage awaits its rows, and then their count. *)
ScanRows ==
  /\ atScan # NoScan /\ atStorage = "sql" /\ atScan.page = "rows"
  /\ atScan' = [atScan EXCEPT !.got = @ \cup Page(FilterEntries(atRows, atScan), atScan.offset),
                              !.page = "count"]
  /\ UNCHANGED <<atStorage, atRows, atNextId, atNow, atBatch, atNotified, atLastPoll, atRequest>>
  /\ Unanswered

ScanCount ==
  /\ atScan # NoScan /\ atStorage = "sql" /\ atScan.page = "count"
  /\ IF HasMore(FilterEntries(atRows, atScan), atScan.offset)
     THEN /\ atScan' = [atScan EXCEPT !.offset = @ + PageSize, !.page = "rows"]
          /\ UNCHANGED <<atNotified, atLastPoll>> /\ Unanswered
     ELSE Conclude(atScan, atScan.got)
  /\ UNCHANGED <<atStorage, atRows, atNextId, atNow, atBatch, atRequest>>

AtNext == \/ \E kind \in Kinds : AppendEntry(kind)
          \/ \E first, second \in Kinds : AppendBatch(first, second)
          \/ AppendBatchRest
          \/ \E t \in 1..AtMaxTime : Archive(t)
          \/ AtTick
          \/ \E r \in Readers, from \in 0..AtMaxTime, to \in 1..(AtMaxTime + 1) :
               StartScan(r, from, to)
          \/ ScanPage \/ ScanRows \/ ScanCount

AtSpec == AtInit /\ [][AtNext]_atVars
-----------------------------------------------------------------------------
Answered == atAnswer.reader # "none"

Wanted(e) == /\ During(e, atAnswer.from, atAnswer.to)
             /\ atAnswer.reader = "query" => IsEvaluation(e)

(* No entry is among the reads twice. *)
EachOnce(reads) == \A r, s \in reads : r.entry = s.entry => r = s

(* Pages shift under a scan when entries are appended, and shrink when they
   are archived; still no entry of the range that was there when the scan
   began, and is there yet, is missing from what it read. *)
ScanMissesNothing ==
  Answered => \A e \in atAnswer.present \cap atRows :
                 Wanted(e) => e \in EntriesOf(atAnswer.got)

(* A scan of the memory storage whose range ends before it starts, as those of
   the detector, the notifications and the dashboard do, reads every entry
   once.  Only a range that is open to the future counts entries twice. *)
PastScanIsExact ==
  Answered /\ atAnswer.past /\ atStorage = "memory" =>
     /\ \A e \in EntriesOf(atAnswer.got) : Wanted(e) /\ e \in atAnswer.present
     /\ EachOnce(atAnswer.got)
     /\ \A c \in atAnswer.covered : \E e \in atAnswer.present :
           Wanted(e) /\ KindTable[e.kind].act \in EvidenceOf[c]

(* Polls whose intervals adjoin tell of each event once, whatever was written
   while they read: in the same millisecond, or between two of their pages. *)
NotifiedOnce ==
  atStorage = "memory" =>
     /\ EachOnce(atNotified)
     /\ \A e \in atRows : IsNotified(e.kind) /\ e.at < atLastPoll => e \in EntriesOf(atNotified)

(* A spike is only reported for as many denials as the threshold asks. *)
SpikesAreReal ==
  Answered /\ atStorage = "memory" => \A w \in atAnswer.spikes :
     Cardinality({e \in atAnswer.present : /\ During(e, atAnswer.to - w, atAnswer.to)
                                           /\ KindTable[e.kind].denial}) >= Threshold

(* The dashboard shows no request as pending that was decided before the
   snapshot, except when two of its entries share their millisecond: then the
   order of their ids as strings decides. *)
OnlySameInstantMisleads ==
  Answered => \A w \in atAnswer.pending :
     LET about == {e \in Relevant(atAnswer.present) : e.at < atAnswer.to}
     IN  \A newest \in about : (\A d \in about : d.id <= newest.id) =>
            \/ ApprovalStatus(newest.kind) = "pending"
            \/ \E d \in about \ {newest} : d.at = newest.at

(* What the readers of the trail can rely on. *)
AuditTrailSound == /\ ScanMissesNothing /\ PastScanIsExact
                   /\ SpikesAreReal /\ OnlySameInstantMisleads /\ NotifiedOnce
=============================================================================
