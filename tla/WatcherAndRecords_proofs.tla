---------------------------- MODULE WatcherAndRecords_proofs ----------------------------
(***************************************************************************)
(* Theorems about the watcher of the source file, for any set of tools,    *)
(* any retry limit and any number of overlapping chains; and about what is *)
(* recorded of usage, of billing and of installed skills, for any callers, *)
(* sizes of pages and batches, intervals and skills.                       *)
(***************************************************************************)
EXTENDS Watcher, SkillRegistry, FiniteSetTheorems, SequenceTheorems, WellFoundedInduction, TLAPS

-----------------------------------------------------------------------------
(* The watcher                                                             *)

IndInv == TypeOK /\ NoChangeForgotten

\* The tools that some armed retry names.
Named(timers) == UNION {timers[d].tools : d \in Chain}

\* Clearing a timer keeps the types, and covers no more than before.
LEMMA ClearedType ==
    ASSUME NEW armed \in [Chain -> Retry \cup {NoRetry}], NEW held
    PROVE  Cleared(armed, held) \in [Chain -> Retry \cup {NoRetry}]
  BY DEF Cleared

\* What scheduleRetry leaves: well-formed timers, those of the other chains as
\* they were, and each failed tool named by a timer or given up aloud.
LEMMA ScheduleRetryKeeps ==
    ASSUME NEW c \in Chain, NEW attempt \in 1..(MaxRetries + 1),
           NEW failed \in SUBSET Tools, NEW given \in SUBSET Tools,
           NEW armed \in [Chain -> Retry \cup {NoRetry}], NEW held \in 0..MaxChains,
           armed[c] = NoRetry,
           ScheduleRetry(c, attempt, failed, armed, held, given)
    PROVE  /\ retry' \in [Chain -> Retry \cup {NoRetry}]
           /\ handle' \in 0..MaxChains
           /\ excused' \in SUBSET Tools
           /\ given \subseteq excused'
           /\ \A d \in Chain : armed[d].tools \subseteq retry'[d].tools
           /\ failed \subseteq excused' \cup Named(retry')
  <1> USE WatcherAssumption
  <1>1. CASE attempt > MaxRetries
    BY <1>1 DEF ScheduleRetry
  <1>2. CASE ~(attempt > MaxRetries)
    <2> DEFINE new == [attempt |-> attempt, tools |-> failed]
    <2>1. new \in Retry
      BY <1>2 DEF Retry
    <2>2. retry' = [armed EXCEPT ![c] = new] /\ handle' = c /\ excused' = given
      BY <1>2 DEF ScheduleRetry
    <2>3. retry'[c].tools = failed
      BY <2>2
    <2>4. \A d \in Chain : armed[d].tools \subseteq retry'[d].tools
      BY <2>2 DEF NoRetry
    <2>5. failed \subseteq Named(retry')
      BY <2>3 DEF Named
    <2>6. retry' \in [Chain -> Retry \cup {NoRetry}]
      BY <2>1, <2>2
    <2>7. handle' \in 0..MaxChains /\ excused' = given
      BY <2>2 DEF Chain
    <2> QED
      BY <2>4, <2>5, <2>6, <2>7
  <1> QED
    BY <1>1, <1>2

\* One attempt keeps the invariant, provided every stale tool is among those
\* it syncs, or covered or excused without the timer that started it.
LEMMA PropagateKeeps ==
    ASSUME TypeOK, NEW c \in Chain, NEW attempt \in 1..(MaxRetries + 1),
           NEW ts \in SUBSET Tools, NEW pending \in BOOLEAN,
           NEW armed \in [Chain -> Retry \cup {NoRetry}], NEW held \in 0..MaxChains,
           armed[c] = NoRetry,
           \A t \in Tools : \/ output[t] = content
                            \/ t \in ts
                            \/ event
                            \/ pending
                            \/ \E d \in Chain : t \in armed[d].tools
                            \/ t \in excused,
           Propagate(c, attempt, ts, armed, held, pending)
    PROVE  IndInv'
  <1> USE WatcherAssumption DEF IndInv
  <1> DEFINE failed == FailedTools(ts)
             done == ts \ failed
  <1>1. failed \in SUBSET Tools /\ failed \subseteq ts
    BY DEF FailedTools
  <1>2. UNCHANGED <<content, valid, up>>
    BY DEF Propagate
  <1>3. /\ output' \in [Tools -> Version \cup {Torn}]
        /\ \A t \in done : output'[t] = content
        /\ \A t \in Tools \ ts : output'[t] = output[t]
    BY DEF Propagate, Sync, FailedTools, TypeOK
  <1>4. CASE /\ debounce' = pending
             /\ UNCHANGED <<watching, event>>
             /\ IF failed = {}
                THEN retry' = armed /\ handle' = held /\ excused' = excused \ done
                ELSE ScheduleRetry(c, attempt, failed, armed, held, excused \ done)
    <2>1. excused \ done \in SUBSET Tools
      BY DEF TypeOK
    <2>2. /\ retry' \in [Chain -> Retry \cup {NoRetry}]
          /\ handle' \in 0..MaxChains
          /\ excused' \in SUBSET Tools
          /\ excused \ done \subseteq excused'
          /\ \A d \in Chain : armed[d].tools \subseteq retry'[d].tools
          /\ failed \subseteq excused' \cup Named(retry')
      <3>1. CASE failed = {}
        BY <1>4, <2>1, <3>1
      <3>2. CASE failed # {}
        <4> DEFINE given == excused \ done
        <4>1. ScheduleRetry(c, attempt, failed, armed, held, given)
          BY <1>4, <3>2
        <4>2. given \in SUBSET Tools
          BY <2>1
        <4> HIDE DEF given, failed, done
        <4>3. /\ retry' \in [Chain -> Retry \cup {NoRetry}]
              /\ handle' \in 0..MaxChains
              /\ excused' \in SUBSET Tools
              /\ given \subseteq excused'
          BY <1>1, <4>1, <4>2, ScheduleRetryKeeps
        <4>4. \A d \in Chain : armed[d].tools \subseteq retry'[d].tools
          BY <1>1, <4>1, <4>2, ScheduleRetryKeeps
        <4>5. failed \subseteq excused' \cup Named(retry')
          BY <1>1, <4>1, <4>2, ScheduleRetryKeeps
        <4> QED
          BY <4>3, <4>4, <4>5 DEF given
      <3> QED
        BY <3>1, <3>2
    <2>3. TypeOK'
      BY <1>2, <1>3, <1>4, <2>2 DEF TypeOK
    <2>4. ASSUME NEW t \in Tools
          PROVE  output'[t] = content' \/ Covered(t)' \/ t \in excused'
      <3>1. CASE t \in done
        BY <1>2, <1>3, <3>1
      <3>2. CASE t \in failed
        BY <2>2, <3>2 DEF Covered, Named
      <3>3. CASE t \notin ts
        BY <1>2, <1>3, <1>4, <2>2, <3>3 DEF Covered
      <3> QED
        BY <3>1, <3>2, <3>3
    <2> QED
      BY <2>3, <2>4 DEF NoChangeForgotten
  <1>5. CASE /\ watching' = FALSE /\ event' = FALSE /\ debounce' = FALSE
             /\ IF failed = {}
                THEN retry' = Cleared(armed, held) /\ handle' = 0 /\ excused' = Tools
                ELSE ScheduleRetry(c, attempt, failed, Cleared(armed, held), 0, Tools)
    <2>1. /\ Cleared(armed, held) \in [Chain -> Retry \cup {NoRetry}]
          /\ Cleared(armed, held)[c] = NoRetry
      BY ClearedType DEF Cleared
    <2>2. /\ retry' \in [Chain -> Retry \cup {NoRetry}]
          /\ handle' \in 0..MaxChains
          /\ excused' = Tools
      <3>1. CASE failed = {}
        BY <1>5, <2>1, <3>1
      <3>2. CASE failed # {}
        <4> DEFINE left == Cleared(armed, held)
        <4>1. ScheduleRetry(c, attempt, failed, left, 0, Tools)
          BY <1>5, <3>2
        <4>2. left \in [Chain -> Retry \cup {NoRetry}] /\ left[c] = NoRetry
          BY <2>1
        <4>3. 0 \in 0..MaxChains /\ Tools \in SUBSET Tools
          OBVIOUS
        <4> HIDE DEF left, failed
        <4>4. /\ retry' \in [Chain -> Retry \cup {NoRetry}]
              /\ handle' \in 0..MaxChains
              /\ excused' \in SUBSET Tools
              /\ Tools \subseteq excused'
          BY <1>1, <4>1, <4>2, <4>3, ScheduleRetryKeeps
        <4> QED
          BY <4>4
      <3> QED
        BY <3>1, <3>2
    <2>3. TypeOK'
      BY <1>2, <1>3, <1>5, <2>2 DEF TypeOK
    <2> QED
      BY <2>2, <2>3 DEF NoChangeForgotten
  <1> QED
    BY <1>4, <1>5 DEF Propagate

\* Every step keeps the invariant.
LEMMA StepKeeps ==
    ASSUME IndInv, [Next]_vars
    PROVE  IndInv'
  <1> USE WatcherAssumption DEF IndInv
  <1>1. CASE UNCHANGED vars
    BY <1>1 DEF TypeOK, NoChangeForgotten, Covered, vars
  <1>2. CASE Edit
    <2>1. TypeOK'
      BY <1>2 DEF Edit, TypeOK, Version
    <2>2. watching => event'
      BY <1>2 DEF Edit
    <2>3. ~watching => excused' = Tools
      BY <1>2 DEF Edit
    <2> QED
      BY <2>1, <2>2, <2>3 DEF NoChangeForgotten, Covered
  <1>3. ASSUME NEW t \in Tools, AdapterFlips(t) PROVE IndInv'
    BY <1>3 DEF AdapterFlips, TypeOK, NoChangeForgotten, Covered
  <1>4. CASE Start
    BY <1>4 DEF Start, TypeOK, NoChangeForgotten, Covered
  <1>5. CASE Stop
    <2>1. retry' \in [Chain -> Retry \cup {NoRetry}]
      BY <1>5, ClearedType DEF Stop, TypeOK
    <2>2. TypeOK'
      <3>1. handle' \in 0..MaxChains
        BY <1>5 DEF Stop
      <3>2. /\ ~watching' /\ watching' \in BOOLEAN
            /\ ~event' /\ event' \in BOOLEAN
            /\ ~debounce' /\ debounce' \in BOOLEAN
            /\ excused' = Tools
            /\ UNCHANGED <<content, valid, output, up>>
        BY <1>5 DEF Stop
      <3> QED
        BY <2>1, <3>1, <3>2 DEF TypeOK
    <2>3. excused' = Tools
      BY <1>5 DEF Stop
    <2> QED
      BY <2>2, <2>3 DEF NoChangeForgotten
  <1>6. CASE TriggerSync \/ FsEvent
    BY <1>6 DEF TriggerSync, FsEvent, HandleChange, TypeOK, NoChangeForgotten, Covered
  <1>7. ASSUME NEW c \in Chain, DebounceFires(c) PROVE IndInv'
    <2>1. Propagate(c, 1, Tools, retry, handle, FALSE)
      BY <1>7 DEF DebounceFires
    <2>2. retry[c] = NoRetry
      BY <1>7 DEF DebounceFires
    <2>3. 1 \in 1..(MaxRetries + 1)
      OBVIOUS
    <2> QED
      BY <2>1, <2>2, <2>3, PropagateKeeps DEF TypeOK
  <1>8. ASSUME NEW c \in Chain, RetryFires(c) PROVE IndInv'
    <2> DEFINE left == [retry EXCEPT ![c] = NoRetry]
    <2>1. retry[c] \in Retry
      BY <1>8 DEF RetryFires, TypeOK
    <2>2. /\ retry[c].attempt + 1 \in 1..(MaxRetries + 1)
          /\ retry[c].tools \in SUBSET Tools
      BY <2>1 DEF Retry
    <2>3. left \in [Chain -> Retry \cup {NoRetry}] /\ left[c] = NoRetry
      BY DEF TypeOK
    <2>4. ASSUME NEW t \in Tools
          PROVE  \/ output[t] = content
                 \/ t \in retry[c].tools
                 \/ event
                 \/ debounce
                 \/ \E d \in Chain : t \in left[d].tools
                 \/ t \in excused
      <3>1. CASE \E d \in Chain : t \in retry[d].tools
        <4>1. PICK d \in Chain : t \in retry[d].tools
          BY <3>1
        <4>2. d # c => left[d] = retry[d]
          BY DEF TypeOK
        <4> QED
          BY <4>1, <4>2
      <3> QED
        BY <3>1 DEF NoChangeForgotten, Covered
    <2>5. Propagate(c, retry[c].attempt + 1, retry[c].tools, left, 0, debounce)
      BY <1>8 DEF RetryFires
    <2>6. debounce \in BOOLEAN /\ 0 \in 0..MaxChains
      BY DEF TypeOK
    <2> DEFINE n == retry[c].attempt + 1
               ts == retry[c].tools
    <2>7. n \in 1..(MaxRetries + 1) /\ ts \in SUBSET Tools
      BY <2>2
    <2>8. Propagate(c, n, ts, left, 0, debounce)
      BY <2>5
    <2>9. \A t \in Tools : \/ output[t] = content
                           \/ t \in ts
                           \/ event
                           \/ debounce
                           \/ \E d \in Chain : t \in left[d].tools
                           \/ t \in excused
      BY <2>4
    <2> HIDE DEF left, n, ts
    <2> QED
      BY <2>3, <2>6, <2>7, <2>8, <2>9, PropagateKeeps
  <1> QED
    BY <1>1, <1>2, <1>3, <1>4, <1>5, <1>6, <1>7, <1>8 DEF Next

\* The invariant holds of every behaviour of the watcher.
LEMMA Invariance == Spec => []IndInv
  <1>1. Init => IndInv
    <2> SUFFICES ASSUME Init PROVE IndInv
      OBVIOUS
    <2>1. content \in Version /\ handle \in 0..MaxChains
      BY WatcherAssumption DEF Init, Version
    <2>2. output \in [Tools -> Version \cup {Torn}]
      BY <2>1 DEF Init
    <2> QED
      BY <2>1, <2>2 DEF Init, IndInv, TypeOK, NoChangeForgotten
  <1>2. IndInv /\ [Next]_vars => IndInv'
    BY StepKeeps
  <1> QED
    BY <1>1, <1>2, PTL DEF Spec

\* Every armed retry names an attempt within the limit and configured tools.
THEOREM TypeCorrect == Spec => []TypeOK
  BY Invariance, PTL DEF IndInv

\* For any number of tools, chains and retries, a tool whose files are stale
\* is still to be synced, or its change was given up aloud, by stop, or made
\* while nobody watched.
THEOREM NothingForgotten == Spec => []NoChangeForgotten
  BY Invariance, PTL DEF IndInv

-----------------------------------------------------------------------------
(* Usage: the invariant                                                    *)

(* Ids are given once, in order. *)
Identified == /\ IsFiniteSet(usRows)
              /\ \A r \in usRows : r.id < usNextId /\ r.of <= usCollected
              /\ \A r, q \in usRows : r.id = q.id => r = q
              /\ \A r, q \in usRows : r.of = q.of => r.size = q.size /\ r.time = q.time
              /\ \A b \in usPruned : b <= usCollected

(* What is left of a batch, with what is stored of it, is the batch. *)
BatchKept(c) ==
  LET b == usLeft[c]
  IN  b # NoBatch =>
        /\ b.left \in 1..b.size /\ b.of <= usCollected
        /\ usKind = "sql" => b.left = b.size
        /\ \A r \in BatchRows(b.of) : r.size = b.size /\ r.time = b.time
        /\ b.of \in usPruned \/ Cardinality(BatchRows(b.of)) + b.left = b.size
        /\ \A d \in Collectors : usLeft[d] # NoBatch /\ usLeft[d].of = b.of => d = c

BatchesInv == Identified /\ BatchesAreWhole /\ \A c \in Collectors : BatchKept(c)

(* What a report has read lies before its next page; unless pages were shifted
   it is all that does. *)
ReadSoFar(report) ==
  /\ \A g, h \in report.got : g[1] = h[1] => g = h
  /\ \A r \in Counted(report) : r.time >= report.from /\ r.time < report.to /\ r.id < usNextId
  /\ \A r \in report.present : r.time >= report.from /\ r.time < report.to /\ r.id < usNextId

PagesInOrder(report) ==
  LET found == Within(report.from, report.to)
      read == Counted(report)
  IN  /\ \A r \in read \cap found : PlaceIn(found, r) < report.offset
      /\ ~report.shifted => /\ read \subseteq found
                            /\ \A r \in found, q \in read : r.id < q.id => r \in read
                            /\ Cardinality(read) = report.offset

ReportInv == /\ usReport.at \in {"pages", "done"} => ReadSoFar(usReport)
             /\ usReport.at = "pages" => PagesInOrder(usReport)
             /\ ReportsCountOnce

UsInv == UsTypeOK /\ BatchesInv /\ ReportInv

LEMMA NatLeast ==
  ASSUME NEW T \in SUBSET Nat, T # {}
  PROVE  \E x \in T : \A y \in T : ~(y < x)
<1> DEFINE R == OpToRel(<, Nat)
<1>1. IsWellFoundedOn(R, Nat)
  BY NatLessThanWellFounded
<1>2. \A x, y \in Nat : <<x, y>> \in R <=> x < y
  BY DEF OpToRel
<1> HIDE DEF R
<1>3. \E x \in T : \A y \in T : ~(<<y, x>> \in R)
  BY <1>1, WFMin
<1> QED BY <1>2, <1>3

LEMMA Induction ==
  ASSUME NEW T \in SUBSET Nat, 0 \in T, \A n \in T : n + 1 \in T
  PROVE  T = Nat
<1> SUFFICES ASSUME T # Nat PROVE FALSE
  OBVIOUS
<1>1. PICK x \in Nat \ T : \A y \in Nat \ T : ~(y < x)
  BY NatLeast
<1>2. x - 1 \in Nat /\ x - 1 \in T
  BY <1>1
<1> QED BY <1>1, <1>2

-----------------------------------------------------------------------------
(* Usage: pages by the places of rows                                      *)

Ordered(found) == /\ IsFiniteSet(found)
                  /\ \A r \in found : r.id \in Nat
                  /\ \A r, q \in found : r.id = q.id => r = q

LEMMA PlaceIsNat ==
  ASSUME NEW found, Ordered(found), NEW r \in found
  PROVE  PlaceIn(found, r) \in Nat /\ PlaceIn(found, r) < Cardinality(found)
<1> DEFINE below == {q \in found : q.id < r.id}
<1>1. below \subseteq found /\ r \notin below /\ IsFiniteSet(found)
  BY DEF Ordered
<1>2. IsFiniteSet(below) /\ Cardinality(below) <= Cardinality(found)
      /\ (Cardinality(below) = Cardinality(found) => below = found)
  BY <1>1, FS_Subset
<1>3. Cardinality(below) \in Nat /\ Cardinality(found) \in Nat
  BY <1>1, <1>2, FS_CardinalityType
<1> QED BY <1>1, <1>2, <1>3 DEF PlaceIn

LEMMA PlaceFollowsId ==
  ASSUME NEW found, Ordered(found), NEW r \in found, NEW q \in found
  PROVE  PlaceIn(found, r) < PlaceIn(found, q) <=> r.id < q.id
<1>1. ASSUME NEW a \in found, NEW b \in found, a.id < b.id
      PROVE  PlaceIn(found, a) < PlaceIn(found, b)
  <2> DEFINE A == {x \in found : x.id < a.id}
             B == {x \in found : x.id < b.id}
  <2>1. A \subseteq B /\ a \in B /\ a \notin A /\ B \subseteq found
    BY <1>1 DEF Ordered
  <2>2. IsFiniteSet(B) /\ IsFiniteSet(A)
    BY <2>1, FS_Subset DEF Ordered
  <2>3. Cardinality(A) <= Cardinality(B) /\ (Cardinality(A) = Cardinality(B) => A = B)
    BY <2>1, <2>2, FS_Subset
  <2>4. Cardinality(A) \in Nat /\ Cardinality(B) \in Nat
    BY <2>2, FS_CardinalityType
  <2> QED BY <2>1, <2>3, <2>4 DEF PlaceIn
<1>2. CASE r.id < q.id
  BY <1>1, <1>2
<1>3. CASE q.id < r.id
  BY <1>1, <1>3, PlaceIsNat DEF Ordered
<1>4. CASE r.id = q.id
  BY <1>4, PlaceIsNat DEF Ordered
<1> QED BY <1>2, <1>3, <1>4 DEF Ordered

\* The first n places are n rows.
LEMMA PlacesCounted ==
  ASSUME NEW found, Ordered(found), NEW n \in Nat, n <= Cardinality(found)
  PROVE  Cardinality({r \in found : PlaceIn(found, r) < n}) = n
<1> DEFINE First(k) == {r \in found : PlaceIn(found, r) < k}
           T == {k \in Nat : k <= Cardinality(found) => Cardinality(First(k)) = k}
<1>1. 0 \in T
  <2>1. First(0) = {}
    BY PlaceIsNat
  <2> QED BY <2>1, FS_EmptySet
<1>2. ASSUME NEW k \in T PROVE k + 1 \in T
  <2> SUFFICES ASSUME k + 1 <= Cardinality(found) PROVE Cardinality(First(k + 1)) = k + 1
    OBVIOUS
  <2>1. IsFiniteSet(found) /\ Cardinality(found) \in Nat
    BY FS_CardinalityType DEF Ordered
  <2>2. First(k) \subseteq found /\ Cardinality(First(k)) = k
    BY <2>1
  <2>3. IsFiniteSet(First(k)) /\ First(k) # found
    BY <2>1, <2>2, FS_Subset
  <2> DEFINE rest == found \ First(k)
             ids == {r.id : r \in rest}
  <2>4. ids \in SUBSET Nat /\ ids # {}
    BY <2>2, <2>3 DEF Ordered
  <2>5. PICK x \in ids : \A y \in ids : ~(y < x)
    BY <2>4, NatLeast
  <2>6. PICK a \in rest : a.id = x
    BY <2>5
  <2>7. a \in found /\ \A b \in rest : ~(b.id < a.id)
    BY <2>5, <2>6
  <2>8. {b \in found : b.id < a.id} = First(k)
    <3>1. ASSUME NEW b \in found, b.id < a.id PROVE b \in First(k)
      BY <2>7, <3>1
    <3>2. ASSUME NEW b \in First(k) PROVE b.id < a.id
      <4>1. PlaceIn(found, b) < k /\ ~(PlaceIn(found, a) < k) /\ b \in found
        BY <2>6, <2>7, <3>2
      <4>2. PlaceIn(found, b) \in Nat /\ PlaceIn(found, a) \in Nat
        BY <2>7, <4>1, PlaceIsNat
      <4>3. PlaceIn(found, b) < PlaceIn(found, a)
        BY <4>1, <4>2
      <4> HIDE DEF First
      <4> QED BY <2>7, <4>1, <4>3, PlaceFollowsId
    <3> HIDE DEF First
    <3> QED BY <2>2, <3>1, <3>2
  <2>9. PlaceIn(found, a) = k
    BY <2>2, <2>8 DEF PlaceIn
  <2>10. First(k + 1) = First(k) \cup {a}
    <3>1. ASSUME NEW b \in found, PlaceIn(found, b) = k PROVE b = a
      <4>1. ~(b.id < a.id) /\ ~(a.id < b.id)
        BY <2>7, <2>9, <3>1, PlaceFollowsId
      <4> QED BY <2>7, <4>1 DEF Ordered
    <3>2. \A b \in found : PlaceIn(found, b) < k + 1 <=> PlaceIn(found, b) < k \/ PlaceIn(found, b) = k
      BY PlaceIsNat
    <3> QED BY <2>7, <2>9, <3>1, <3>2
  <2>11. a \notin First(k)
    BY <2>6
  <2> HIDE DEF First
  <2> QED BY <2>2, <2>3, <2>10, <2>11, FS_AddElement
<1> HIDE DEF First
<1>3. T = Nat
  BY <1>1, <1>2, Induction
<1>4. Cardinality(First(n)) = n
  BY <1>3
<1> QED BY <1>4 DEF First

\* A part of the rows that has all before any of its own are the first places.
LEMMA ReadIsFirst ==
  ASSUME NEW found, Ordered(found), NEW read \in SUBSET found,
         \A r \in found, q \in read : r.id < q.id => r \in read
  PROVE  \A r \in found : r \in read <=> PlaceIn(found, r) < Cardinality(read)
<1> SUFFICES ASSUME NEW r \in found PROVE r \in read <=> PlaceIn(found, r) < Cardinality(read)
  OBVIOUS
<1> DEFINE below == {q \in found : q.id < r.id}
<1>1. IsFiniteSet(read) /\ IsFiniteSet(below) /\ Cardinality(read) \in Nat /\ Cardinality(below) \in Nat
  BY FS_Subset, FS_CardinalityType DEF Ordered
<1>2. CASE r \in read
  <2>1. below \subseteq read /\ r \notin below
    BY <1>2 DEF Ordered
  <2>2. Cardinality(below) <= Cardinality(read) /\ (Cardinality(below) = Cardinality(read) => below = read)
    BY <1>1, <2>1, FS_Subset
  <2> QED BY <1>1, <1>2, <2>1, <2>2 DEF PlaceIn
<1>3. CASE r \notin read
  <2>1. read \subseteq below
    <3> SUFFICES ASSUME NEW q \in read PROVE q.id < r.id
      OBVIOUS
    <3>1. ~(r.id < q.id) /\ r # q
      BY <1>3
    <3> QED BY <3>1 DEF Ordered
  <2>2. Cardinality(read) <= Cardinality(below)
    BY <1>1, <2>1, FS_Subset
  <2> QED BY <1>1, <1>3, <2>2 DEF PlaceIn
<1> QED BY <1>2, <1>3

LEMMA WithinIsOrdered ==
  ASSUME UsTypeOK, Identified, NEW from, NEW to
  PROVE  Ordered(Within(from, to)) /\ Within(from, to) \subseteq usRows
<1>1. IsFiniteSet(Within(from, to)) /\ Within(from, to) \subseteq usRows
  BY FS_Subset DEF Identified, Within
<1>2. \A r \in usRows : r.id \in Nat
  BY DEF UsTypeOK, UsageRows
<1> QED BY <1>1, <1>2 DEF Ordered, Identified

-----------------------------------------------------------------------------
(* Usage: what a step does to a report                                     *)

\* New rows come after all others.
LEMMA RowsAdded ==
  ASSUME UsInv, UsTypeOK', Identified', usReport' = usReport, usNextId <= usNextId',
         usRows \subseteq usRows', \A r \in usRows' \ usRows : ~(r.id < usNextId)
  PROVE  ReportInv'
<1> USE DEF UsInv, BatchesInv
<1>1. \A r \in usRows' : r.id < usNextId => r \in usRows
  OBVIOUS
<1>2. usNextId \in Nat /\ usNextId' \in Nat /\ \A r \in UsageRows : r.id \in Nat
  BY DEF UsTypeOK, UsageRows
<1>3. ASSUME usReport.at \in {"pages", "done"} PROVE ReadSoFar(usReport)'
  <2>1. ReadSoFar(usReport)
    BY <1>3 DEF ReportInv
  <2>2. Counted(usReport) \subseteq UsageRows /\ usReport.present \subseteq UsageRows
    BY <1>3 DEF UsTypeOK, Reports, Counted
  <2>3. \A r \in UsageRows : r.id < usNextId => r.id < usNextId'
    BY <1>2
  <2>4. Counted(usReport)' = Counted(usReport)
    BY DEF Counted
  <2> QED BY <2>1, <2>2, <2>3, <2>4 DEF ReadSoFar
<1>4. ASSUME usReport.at = "pages" PROVE PagesInOrder(usReport)'
  <2> DEFINE found == Within(usReport.from, usReport.to)
             later == Within(usReport.from, usReport.to)'
             read == Counted(usReport)
  <2>1. PagesInOrder(usReport) /\ ReadSoFar(usReport)
    BY <1>4 DEF ReportInv
  <2>2. found \subseteq later /\ later \cap usRows \subseteq found /\ later \subseteq usRows'
    BY DEF Within
  <2>3. \A r \in read : r.id < usNextId
    BY <2>1 DEF ReadSoFar
  <2>4. \A r \in found : PlaceIn(later, r) = PlaceIn(found, r)
    <3> SUFFICES ASSUME NEW r \in found PROVE {q \in later : q.id < r.id} = {q \in found : q.id < r.id}
      BY DEF PlaceIn
    <3>1. r \in usRows /\ r.id < usNextId /\ r.id \in Nat
      BY <1>2 DEF Within, Identified, UsTypeOK
    <3>2. \A q \in later : q.id \in Nat
      BY <1>2, <2>2 DEF UsTypeOK
    <3>3. \A q \in later : q.id < r.id => q \in usRows
      BY <1>1, <1>2, <2>2, <3>1, <3>2
    <3> QED BY <2>2, <3>3
  <2>5. Counted(usReport)' = read
    BY DEF Counted
  <2>6. \A r \in read \cap later : r \in found
    BY <1>1, <2>2, <2>3
  <2>7. \A r \in later, q \in read : r.id < q.id => r \in found
    <3> SUFFICES ASSUME NEW r \in later, NEW q \in read, r.id < q.id PROVE r \in found
      OBVIOUS
    <3>1. r.id \in Nat /\ q.id \in Nat
      BY <1>2, <1>4, <2>2 DEF UsTypeOK, Reports, Counted
    <3>2. r.id < usNextId
      BY <1>2, <2>3, <3>1
    <3> QED BY <1>1, <2>2, <3>2
  <2> QED BY <2>1, <2>2, <2>4, <2>5, <2>6, <2>7 DEF PagesInOrder
<1>5. ReportsCountOnce'
  <2> SUFFICES ASSUME usReport.at = "done" PROVE ReportsCountOnce'
    BY DEF ReportsCountOnce
  <2>1. ReportsCountOnce /\ ReadSoFar(usReport)
    BY DEF ReportInv
  <2>2. \A r \in usReport.present : r.id < usNextId
    BY <2>1 DEF ReadSoFar
  <2>3. usReport.present \cap usRows' \subseteq usReport.present \cap usRows
    BY <1>1, <2>2
  <2>4. Counted(usReport)' = Counted(usReport)
    BY DEF Counted
  <2> QED BY <2>1, <2>3, <2>4 DEF ReportsCountOnce
<1> QED BY <1>3, <1>4, <1>5 DEF ReportInv

\* Rows that were read and go away are noted; others lie behind what was read.
LEMMA RowsPruned ==
  ASSUME UsInv, NEW before, PruneUsage(before), UsTypeOK', Identified'
  PROVE  ReportInv'
<1> USE DEF UsInv, BatchesInv
<1> DEFINE gone == {r \in usRows : r.time < before}
<1>1. usRows' = usRows \ gone /\ usNextId' = usNextId
  BY DEF PruneUsage
<1>2. CASE usReport.at = "pages" /\ gone \cap Counted(usReport) # {}
  <2>1. /\ usReport' = [usReport EXCEPT !.shifted = TRUE]
        /\ usReport.at = "pages" /\ usReport \in Reports
    BY <1>2 DEF PruneUsage, UsTypeOK
  <2>2. /\ usReport'.at = "pages" /\ usReport'.got = usReport.got /\ usReport'.present = usReport.present
        /\ usReport'.from = usReport.from /\ usReport'.to = usReport.to
        /\ usReport'.offset = usReport.offset /\ usReport'.shifted = TRUE
    BY <2>1 DEF Reports
  <2>3. Counted(usReport)' = Counted(usReport) /\ Counted(usReport') = Counted(usReport)
    BY <2>2 DEF Counted
  <2>4. ReadSoFar(usReport) /\ PagesInOrder(usReport)
    BY <2>1 DEF ReportInv
  <2>5. ReadSoFar(usReport)'
    BY <1>1, <2>2, <2>3, <2>4 DEF ReadSoFar
  <2> DEFINE found == Within(usReport.from, usReport.to)
             later == Within(usReport.from, usReport.to)'
  <2>6. later \subseteq found
    BY <1>1, <2>2 DEF Within
  <2>7. \A r \in later : PlaceIn(later, r) <= PlaceIn(found, r) /\ PlaceIn(found, r) \in Nat
                         /\ PlaceIn(later, r) \in Nat
    <3> SUFFICES ASSUME NEW r \in later
                 PROVE  PlaceIn(later, r) <= PlaceIn(found, r) /\ PlaceIn(found, r) \in Nat
                        /\ PlaceIn(later, r) \in Nat
      OBVIOUS
    <3> DEFINE A == {q \in later : q.id < r.id}
               B == {q \in found : q.id < r.id}
    <3>1. A \subseteq B /\ B \subseteq found
      BY <2>6
    <3>2. IsFiniteSet(found)
      BY WithinIsOrdered DEF Ordered
    <3>3. IsFiniteSet(A) /\ IsFiniteSet(B) /\ Cardinality(A) <= Cardinality(B)
      BY <3>1, <3>2, FS_Subset
    <3> QED BY <3>3, FS_CardinalityType DEF PlaceIn
  <2>8. usReport.offset \in Nat
    BY <2>1 DEF Reports
  <2>9. \A r \in Counted(usReport) \cap later : PlaceIn(later, r) < usReport.offset
    BY <2>4, <2>6, <2>7, <2>8 DEF PagesInOrder
  <2>10. PagesInOrder(usReport)'
    BY <2>2, <2>3, <2>9 DEF PagesInOrder
  <2> QED BY <2>2, <2>5, <2>10 DEF ReportInv, ReportsCountOnce
<1>3. CASE ~(usReport.at = "pages" /\ gone \cap Counted(usReport) # {})
  <2>1. usReport' = usReport
    BY <1>3 DEF PruneUsage
  <2>2. Counted(usReport)' = Counted(usReport)
    BY <2>1 DEF Counted
  <2>3. ASSUME usReport.at \in {"pages", "done"} PROVE ReadSoFar(usReport)'
    BY <1>1, <2>1, <2>2, <2>3 DEF ReportInv, ReadSoFar
  <2>4. ASSUME usReport.at = "pages" PROVE PagesInOrder(usReport)'
    <3> DEFINE found == Within(usReport.from, usReport.to)
               later == Within(usReport.from, usReport.to)'
               read == Counted(usReport)
    <3>1. PagesInOrder(usReport)
      BY <2>4 DEF ReportInv
    <3>2. later \subseteq found /\ gone \cap read = {} /\ later = found \ gone
      BY <1>1, <1>3, <2>1, <2>4 DEF Within
    <3>3. ASSUME NEW r \in later
          PROVE  PlaceIn(later, r) <= PlaceIn(found, r) /\ PlaceIn(found, r) \in Nat
                 /\ PlaceIn(later, r) \in Nat
      <4> DEFINE A == {q \in later : q.id < r.id}
                 B == {q \in found : q.id < r.id}
      <4>1. A \subseteq B /\ B \subseteq found
        BY <3>2
      <4>2. IsFiniteSet(found)
        BY WithinIsOrdered DEF Ordered
      <4>3. IsFiniteSet(A) /\ IsFiniteSet(B) /\ Cardinality(A) <= Cardinality(B)
        BY <4>1, <4>2, FS_Subset
      <4> QED BY <4>3, FS_CardinalityType DEF PlaceIn
    <3>4. usReport.offset \in Nat
      BY <2>4 DEF UsTypeOK, Reports
    <3>5. \A r \in read \cap later : PlaceIn(later, r) < usReport.offset
      BY <3>1, <3>2, <3>3, <3>4 DEF PagesInOrder
    <3>6. ~usReport.shifted => /\ read \subseteq later
                               /\ \A r \in later, q \in read : r.id < q.id => r \in read
                               /\ Cardinality(read) = usReport.offset
      BY <3>1, <3>2 DEF PagesInOrder
    <3> QED BY <2>1, <2>2, <3>5, <3>6 DEF PagesInOrder
  <2>5. ReportsCountOnce'
    BY <1>1, <2>1, <2>2 DEF ReportInv, ReportsCountOnce
  <2> QED BY <2>1, <2>3, <2>4, <2>5 DEF ReportInv
<1> QED BY <1>2, <1>3

\* A page that is read takes the places after those that were read.
LEMMA PageRead ==
  ASSUME UsInv, UNCHANGED <<usRows, usNextId>>,
         NEW report \in Reports, report.at = "pages", ReadSoFar(report), PagesInOrder(report),
         ReadPage(report)
  PROVE  ReportInv' /\ usReport' \in Reports
<1> USE DEF UsInv, BatchesInv
<1> DEFINE found == Within(report.from, report.to)
           page == PageAt(found, report.offset)
           got == report.got \cup (page \X {report.offset})
           next == report.offset + UsagePage
           read == Counted(report)
           more == MorePages(found, report.offset)
<1>1. /\ report.from \in Nat /\ report.to \in Nat /\ report.offset \in Nat /\ report.shifted \in BOOLEAN
      /\ report.got \in SUBSET (UsageRows \X Nat) /\ report.present \in SUBSET UsageRows
      /\ UsagePage \in Nat /\ UsagePage > 0 /\ next \in Nat
  BY UsageAssumption DEF Reports
<1>2. report \in [at : {"pages", "done"}, from : Nat, to : Nat, offset : Nat,
                 got : SUBSET (UsageRows \X Nat), shifted : BOOLEAN, present : SUBSET UsageRows]
  BY DEF Reports
<1>3. Ordered(found) /\ found \subseteq usRows /\ usRows \in SUBSET UsageRows
  BY WithinIsOrdered DEF UsTypeOK
<1>4. /\ page \in SUBSET UsageRows /\ page \subseteq found
      /\ \A r \in found : r \in page <=> PlaceIn(found, r) >= report.offset /\ PlaceIn(found, r) < next
  <2>1. \A r \in found : PlaceIn(found, r) \in Nat
    BY <1>3, PlaceIsNat
  <2> QED BY <1>1, <1>3, <2>1 DEF PageAt
<1>5. usReport' = [at |-> IF more THEN "pages" ELSE "done", from |-> report.from, to |-> report.to,
                   offset |-> next, got |-> got, shifted |-> report.shifted,
                   present |-> report.present]
  <2>1. usReport' = IF more THEN [report EXCEPT !.got = got, !.offset = next]
                    ELSE [report EXCEPT !.got = got, !.offset = next, !.at = "done"]
    BY DEF ReadPage
  <2> HIDE DEF got, next, more
  <2> QED BY <1>2, <2>1
<1>6. got \in SUBSET (UsageRows \X Nat)
  BY <1>1, <1>4
<1> HIDE DEF page
<1>7. usReport' \in Reports
  <2> HIDE DEF got, next, more
  <2> QED BY <1>1, <1>5, <1>6 DEF Reports
<1>8. Counted(usReport)' = read \cup page /\ Counted(usReport') = read \cup page
  <2>1. usReport'.got = got
    BY <1>5
  <2>2. {g[1] : g \in got} = read \cup page
    <3>1. \A g \in page \X {report.offset} : g[1] \in page
      OBVIOUS
    <3>2. \A r \in page : <<r, report.offset>> \in got /\ <<r, report.offset>>[1] = r
      OBVIOUS
    <3>3. \A g \in got : g \in report.got \/ g \in page \X {report.offset}
      OBVIOUS
    <3>4. report.got \subseteq got
      OBVIOUS
    <3> HIDE DEF got
    <3>5. \A r \in read : \E g \in got : r = g[1]
      BY <3>4 DEF Counted
    <3>6. \A r \in page : \E g \in got : r = g[1]
      BY <3>2
    <3>7. \A g \in got : g[1] \in read \cup page
      BY <3>1, <3>3 DEF Counted
    <3> QED BY <3>5, <3>6, <3>7
  <2> QED BY <2>1, <2>2 DEF Counted
<1>9. ReadSoFar(usReport)'
  <2>1. ASSUME NEW g \in got, NEW h \in got, g[1] = h[1] PROVE g = h
    <3>1. ASSUME NEW a \in report.got, NEW b \in page \X {report.offset}, a[1] = b[1] PROVE FALSE
      <4>1. a[1] \in read \cap found
        BY <1>4, <3>1 DEF Counted
      <4>2. PlaceIn(found, a[1]) < report.offset
        BY <4>1 DEF PagesInOrder
      <4>3. PlaceIn(found, a[1]) >= report.offset /\ PlaceIn(found, a[1]) \in Nat
        BY <1>3, <1>4, <3>1, <4>1, PlaceIsNat
      <4> QED BY <1>1, <4>2, <4>3
    <3>2. CASE g \in report.got /\ h \in report.got
      BY <2>1, <3>2 DEF ReadSoFar
    <3>3. CASE g \in page \X {report.offset} /\ h \in page \X {report.offset}
      BY <2>1, <3>3
    <3> QED BY <2>1, <3>1, <3>2, <3>3
  <2>2. \A r \in read \cup page : r.time >= report.from /\ r.time < report.to /\ r.id < usNextId
    <3>1. \A r \in found : r.time >= report.from /\ r.time < report.to /\ r.id < usNextId
      BY <1>3 DEF Within, Identified
    <3> QED BY <1>4, <3>1 DEF ReadSoFar
  <2>3. \A r \in report.present : r.time >= report.from /\ r.time < report.to /\ r.id < usNextId
    BY DEF ReadSoFar
  <2> HIDE DEF got
  <2>4. /\ usReport'.got = got /\ usReport'.from = report.from /\ usReport'.to = report.to
        /\ usReport'.present = report.present /\ usNextId' = usNextId
    BY <1>5
  <2> QED BY <1>8, <2>1, <2>2, <2>3, <2>4 DEF ReadSoFar
<1>10. \A r \in (read \cup page) \cap found : PlaceIn(found, r) < next
  <2>1. \A r \in read \cap found : PlaceIn(found, r) < report.offset /\ PlaceIn(found, r) \in Nat
    BY <1>3, PlaceIsNat DEF PagesInOrder
  <2> QED BY <1>1, <1>4, <2>1
<1>11. ASSUME ~report.shifted
       PROVE  /\ read \cup page \subseteq found
              /\ \A r \in found : r \in read \cup page <=> PlaceIn(found, r) < next
  <2>1. /\ read \subseteq found /\ Cardinality(read) = report.offset
        /\ \A r \in found, q \in read : r.id < q.id => r \in read
    BY <1>11 DEF PagesInOrder
  <2>2. \A r \in found : r \in read <=> PlaceIn(found, r) < report.offset
    BY <1>3, <2>1, ReadIsFirst
  <2>3. \A r \in found : PlaceIn(found, r) \in Nat
    BY <1>3, PlaceIsNat
  <2>4. \A r \in found : r \in read \cup page <=> PlaceIn(found, r) < next
    <3> SUFFICES ASSUME NEW r \in found PROVE r \in read \cup page <=> PlaceIn(found, r) < next
      OBVIOUS
    <3>1. PlaceIn(found, r) < next <=> PlaceIn(found, r) < report.offset
                                       \/ (PlaceIn(found, r) >= report.offset /\ PlaceIn(found, r) < next)
      BY <1>1, <2>3
    <3> QED BY <1>4, <2>2, <3>1
  <2> QED BY <1>4, <2>1, <2>4
<1>12. Within(report.from, report.to)' = found /\ usReport'.from = report.from /\ usReport'.to = report.to
       /\ usReport'.offset = next /\ usReport'.shifted = report.shifted
       /\ usReport'.present = report.present /\ usReport'.got = got
  <2>1. Within(report.from, report.to)' = found
    BY DEF Within
  <2> HIDE DEF found, next, got, more
  <2> QED BY <1>5, <2>1
<1>13. Cardinality(found) \in Nat
  BY <1>3, FS_CardinalityType DEF Ordered
<1>14. Within(usReport.from, usReport.to)' = found
  BY <1>12 DEF Within
<1>15. ASSUME usReport'.at = "pages" PROVE PagesInOrder(usReport)'
  <2>1. more
    BY <1>5, <1>15
  <2>2. next <= Cardinality(found)
    BY <1>1, <1>13, <2>1 DEF MorePages
  <2>3. ASSUME ~report.shifted
        PROVE  /\ \A r \in found, q \in read \cup page : r.id < q.id => r \in read \cup page
               /\ Cardinality(read \cup page) = next
    <3>1. read \cup page = {r \in found : PlaceIn(found, r) < next}
      BY <1>11, <2>3
    <3>2. Cardinality(read \cup page) = next
      BY <1>1, <1>3, <2>2, <3>1, PlacesCounted
    <3>3. \A r \in found, q \in found : r.id < q.id /\ PlaceIn(found, q) < next => PlaceIn(found, r) < next
      <4> SUFFICES ASSUME NEW r \in found, NEW q \in found, r.id < q.id, PlaceIn(found, q) < next
                   PROVE  PlaceIn(found, r) < next
        OBVIOUS
      <4>1. PlaceIn(found, r) < PlaceIn(found, q)
        BY <1>3, PlaceFollowsId
      <4> QED BY <1>1, <1>3, <4>1, PlaceIsNat
    <3> QED BY <1>11, <2>3, <3>1, <3>2, <3>3
  <2> HIDE DEF found, next, more, read
  <2> QED BY <1>8, <1>10, <1>11, <1>12, <1>14, <2>3 DEF PagesInOrder
<1>16. ReportsCountOnce'
  <2> SUFFICES ASSUME usReport'.at = "done" PROVE ReportsCountOnce'
    BY DEF ReportsCountOnce
  <2>1. Cardinality(found) <= next
    BY <1>1, <1>5, <1>13 DEF MorePages
  <2>2. ASSUME ~report.shifted PROVE report.present \cap usRows \subseteq read \cup page
    <3> SUFFICES ASSUME NEW r \in report.present \cap usRows PROVE r \in read \cup page
      OBVIOUS
    <3>1. r \in found
      BY DEF ReadSoFar, Within
    <3>2. PlaceIn(found, r) < next
      BY <1>1, <1>3, <1>13, <2>1, <3>1, PlaceIsNat
    <3> QED BY <1>11, <2>2, <3>1, <3>2
  <2>3. usReport'.present \cap usRows' = report.present \cap usRows
    BY <1>12
  <2> HIDE DEF found, next, more, read, got
  <2>4. ~usReport'.shifted => usReport'.present \cap usRows' \subseteq Counted(usReport')
    BY <1>8, <1>12, <2>2, <2>3
  <2>5. \A g, h \in usReport'.got : g[1] = h[1] => g = h
    BY <1>9 DEF ReadSoFar
  <2>6. \A r \in Counted(usReport)' : r.time >= usReport'.from /\ r.time < usReport'.to
    BY <1>9 DEF ReadSoFar
  <2> QED BY <1>8, <2>4, <2>5, <2>6 DEF ReportsCountOnce
<1>17. usReport'.at \in {"pages", "done"} => ReadSoFar(usReport)'
  BY <1>9
<1> QED BY <1>7, <1>15, <1>16, <1>17 DEF ReportInv

-----------------------------------------------------------------------------
(* Usage: what a step does to the batches                                  *)

LEMMA RowsAreCounted ==
  ASSUME UsTypeOK, Identified, NEW b
  PROVE  IsFiniteSet(BatchRows(b)) /\ Cardinality(BatchRows(b)) \in Nat
<1>1. BatchRows(b) \subseteq usRows /\ IsFiniteSet(usRows)
  BY DEF BatchRows, Identified
<1> QED BY <1>1, FS_Subset, FS_CardinalityType

\* Storing one event of a batch.
LEMMA EventStored ==
  ASSUME UsInv, NEW c \in Collectors, NEW batch \in UsageBatches, usKind = "memory",
         batch.left \in 1..batch.size, StoreEvent(c, batch),
         UNCHANGED <<usKind, usPruned, usReport>>,
         usCollected \in Nat, usCollected' \in Nat, usCollected <= usCollected',
         batch.of <= usCollected',
         batch.of \in usPruned \/ Cardinality(BatchRows(batch.of)) + batch.left = batch.size,
         \A r \in BatchRows(batch.of) : r.size = batch.size /\ r.time = batch.time,
         \A d \in Collectors : usLeft[d] # NoBatch /\ usLeft[d].of = batch.of => d = c,
         usLeft[c] \in {batch, NoBatch}
  PROVE  /\ usRows' \in SUBSET UsageRows /\ usNextId' \in Nat
         /\ usLeft' \in [Collectors -> UsageBatches]
         /\ BatchesInv' /\ usNextId <= usNextId' /\ usRows \subseteq usRows'
         /\ \A r \in usRows' \ usRows : ~(r.id < usNextId)
<1> DEFINE row == UsageRow(batch, usNextId)
           rest == IF batch.left = 1 THEN NoBatch ELSE [batch EXCEPT !.left = @ - 1]
<1>1. /\ batch.of \in Nat /\ batch.size \in Nat /\ batch.time \in Nat /\ batch.left \in Nat
      /\ batch = [of |-> batch.of, size |-> batch.size, time |-> batch.time, left |-> batch.left]
      /\ usNextId \in Nat /\ usRows \in SUBSET UsageRows /\ usLeft \in [Collectors -> UsageBatches]
  BY DEF UsInv, UsTypeOK, UsageBatches
<1>2. /\ row \in UsageRows /\ row.id = usNextId /\ row.of = batch.of
      /\ row.size = batch.size /\ row.time = batch.time
  BY <1>1 DEF UsageRow, UsageRows
<1>3. \/ batch.left = 1 /\ rest = NoBatch
      \/ /\ batch.left # 1 /\ rest # NoBatch
         /\ rest = [of |-> batch.of, size |-> batch.size, time |-> batch.time, left |-> batch.left - 1]
  BY <1>1 DEF NoBatch
<1>4. rest \in UsageBatches
  BY <1>1, <1>3 DEF UsageBatches, NoBatch
<1> HIDE DEF row, rest
<1>5. /\ usRows' = usRows \cup {row} /\ usNextId' = usNextId + 1
      /\ usLeft' = [usLeft EXCEPT ![c] = rest]
  BY DEF StoreEvent, row, rest
<1>6. /\ usLeft' \in [Collectors -> UsageBatches]
      /\ \A d \in Collectors : usLeft'[d] = IF d = c THEN rest ELSE usLeft[d]
  BY <1>1, <1>4, <1>5
<1>7. Identified /\ BatchesAreWhole /\ \A d \in Collectors : BatchKept(d)
  BY DEF UsInv, BatchesInv
<1>8. row \notin usRows
  BY <1>1, <1>2, <1>7 DEF Identified, UsageRows
<1>9. Identified'
  <2>1. IsFiniteSet(usRows')
    BY <1>5, <1>7, FS_AddElement DEF Identified
  <2>2. \A r \in usRows : r.id \in Nat /\ r.of \in Nat /\ r.id < usNextId /\ r.of <= usCollected
    BY <1>1, <1>7 DEF Identified, UsageRows
  <2>3. \A r \in usRows' : r.id < usNextId' /\ r.of <= usCollected'
    BY <1>1, <1>2, <1>5, <2>2
  <2>4. \A r, q \in usRows' : r.id = q.id => r = q
    BY <1>1, <1>2, <1>5, <1>7, <2>2 DEF Identified
  <2>5. \A r \in usRows : r.of = batch.of => r.size = batch.size /\ r.time = batch.time
    BY DEF BatchRows
  <2>6. \A r, q \in usRows' : r.of = q.of => r.size = q.size /\ r.time = q.time
    BY <1>2, <1>5, <1>7, <2>5 DEF Identified
  <2>7. \A b \in usPruned' : b <= usCollected'
    <3>1. usPruned' = usPruned /\ usPruned \in SUBSET Nat
      BY DEF UsInv, UsTypeOK
    <3>2. \A b \in usPruned : b <= usCollected
      BY <1>7 DEF Identified
    <3> QED BY <3>1, <3>2
  <2> QED BY <2>1, <2>3, <2>4, <2>6, <2>7 DEF Identified
<1>10. \A b : BatchRows(b)' = BatchRows(b) \cup (IF b = batch.of THEN {row} ELSE {})
  BY <1>2, <1>5 DEF BatchRows
<1>11. Cardinality(BatchRows(batch.of)') = Cardinality(BatchRows(batch.of)) + 1
       /\ Cardinality(BatchRows(batch.of)) \in Nat
  <2>1. row \notin BatchRows(batch.of)
    BY <1>8 DEF BatchRows
  <2> QED BY <1>7, <1>10, <2>1, RowsAreCounted, FS_AddElement DEF UsInv
<1>12. UnderWay \ {batch.of} \subseteq UnderWay'
  BY <1>6 DEF UnderWay, UsInv
<1>13. batch.left # 1 => batch.of \in UnderWay'
  <2> SUFFICES ASSUME batch.left # 1 PROVE \E d \in Collectors : usLeft'[d] # NoBatch /\ usLeft'[d].of = batch.of
    BY DEF UnderWay
  <2>1. usLeft'[c] # NoBatch /\ usLeft'[c].of = batch.of
    BY <1>3, <1>6
  <2> QED BY <2>1
<1>14. BatchesAreWhole'
  <2> SUFFICES ASSUME NEW r \in usRows'
               PROVE  r.of \in UnderWay' \cup usPruned' \/ Cardinality(BatchRows(r.of)') = r.size
    BY DEF BatchesAreWhole, BatchRows
  <2>1. CASE r.of = batch.of
    <3>1. r.size = batch.size
      BY <1>2, <1>5, <2>1 DEF BatchRows
    <3>2. CASE batch.of \in usPruned
      BY <2>1, <3>2
    <3>3. CASE batch.of \notin usPruned /\ batch.left = 1
      BY <1>1, <1>11, <2>1, <3>1, <3>3
    <3> QED BY <1>13, <2>1, <3>2, <3>3
  <2>2. CASE r.of # batch.of
    <3>1. r \in usRows /\ BatchRows(r.of)' = BatchRows(r.of)
      BY <1>2, <1>5, <1>10, <2>2
    <3> QED BY <1>7, <1>12, <2>2, <3>1 DEF BatchesAreWhole
  <2> QED BY <2>1, <2>2
<1>15. ASSUME NEW d \in Collectors PROVE BatchKept(d)'
  <2>1. CASE d = c
    <3> SUFFICES ASSUME batch.left # 1 PROVE BatchKept(c)'
      BY <1>3, <1>6, <2>1 DEF BatchKept
    <3> DEFINE b == usLeft'[c]
    <3>1. b.of = batch.of /\ b.size = batch.size /\ b.time = batch.time /\ b.left = batch.left - 1
          /\ b # NoBatch
      BY <1>3, <1>6
    <3>2. b.left \in 1..b.size /\ b.of <= usCollected'
      BY <1>1, <3>1
    <3>3. usKind' # "sql"
      OBVIOUS
    <3> DEFINE stored == {r \in usRows' : r.of = batch.of}
    <3>4. \A r \in stored : r.size = b.size /\ r.time = b.time
      <4>1. stored = BatchRows(batch.of) \cup {row}
        BY <1>2, <1>5 DEF BatchRows
      <4> QED BY <1>2, <3>1, <4>1
    <3>5. b.of \in usPruned' \/ Cardinality(stored) + b.left = b.size
      <4>1. stored = BatchRows(batch.of) \cup {row}
        BY <1>2, <1>5 DEF BatchRows
      <4>2. Cardinality(stored) = Cardinality(BatchRows(batch.of)) + 1
        BY <1>10, <1>11, <4>1
      <4> QED BY <1>1, <1>11, <3>1, <4>2
    <3>6. \A e \in Collectors : usLeft'[e] # NoBatch /\ usLeft'[e].of = b.of => e = c
      BY <1>6, <3>1
    <3> QED BY <3>1, <3>2, <3>3, <3>4, <3>5, <3>6 DEF BatchKept, BatchRows
  <2>2. CASE d # c
    <3> SUFFICES ASSUME usLeft[d] # NoBatch PROVE BatchKept(d)'
      BY <1>6, <2>2 DEF BatchKept
    <3>1. usLeft'[d] = usLeft[d] /\ usLeft[d].of # batch.of
      BY <1>6, <2>2
    <3> DEFINE b == usLeft[d]
    <3>3. {r \in usRows' : r.of = b.of} = BatchRows(b.of)
      BY <1>2, <1>5, <3>1 DEF BatchRows
    <3>4. \A e \in Collectors : usLeft'[e] # NoBatch /\ usLeft'[e].of = b.of => e = d
      <4>1. \A e \in Collectors : usLeft[e] # NoBatch /\ usLeft[e].of = b.of => e = d
        BY <1>7 DEF BatchKept
      <4>2. rest # NoBatch => rest.of = batch.of
        BY <1>3
      <4> QED BY <1>6, <3>1, <4>1, <4>2
    <3>5. /\ b.left \in 1..b.size /\ b.of <= usCollected'
          /\ usKind = "sql" => b.left = b.size
          /\ \A r \in BatchRows(b.of) : r.size = b.size /\ r.time = b.time
          /\ b.of \in usPruned \/ Cardinality(BatchRows(b.of)) + b.left = b.size
      <4>1. BatchKept(d) /\ b.of \in Nat
        BY <1>1, <1>7 DEF UsageBatches
      <4> QED BY <4>1 DEF BatchKept
    <3> QED BY <3>1, <3>3, <3>4, <3>5 DEF BatchKept, BatchRows
  <2> QED BY <2>1, <2>2
<1>16. usRows' \in SUBSET UsageRows /\ usNextId' \in Nat /\ usNextId <= usNextId'
       /\ usRows \subseteq usRows' /\ \A r \in usRows' \ usRows : ~(r.id < usNextId)
  BY <1>1, <1>2, <1>5
<1> QED BY <1>6, <1>9, <1>14, <1>15, <1>16 DEF BatchesInv

\* The rows of a batch that lands in one transaction.
LEMMA LandedRows ==
  ASSUME NEW batch \in UsageBatches, NEW first \in Nat
  PROVE  LET landed == {UsageRow(batch, first + i) : i \in 0..(batch.size - 1)}
         IN  IsFiniteSet(landed) /\ Cardinality(landed) = batch.size
<1> DEFINE n == batch.size
           places == 0..(n - 1)
           landed == {UsageRow(batch, first + i) : i \in places}
           f == [i \in places |-> UsageRow(batch, first + i)]
<1>1. n \in Nat
  BY DEF UsageBatches
<1>2. f \in Bijection(places, landed)
  <2>1. f \in [places -> landed]
    OBVIOUS
  <2>2. \A i, j \in places : f[i] = f[j] => i = j
    <3> SUFFICES ASSUME NEW i \in places, NEW j \in places, f[i] = f[j] PROVE i = j
      OBVIOUS
    <3>1. f[i].id = first + i /\ f[j].id = first + j
      BY DEF UsageRow
    <3> QED BY <1>1, <3>1
  <2>3. \A r \in landed : \E i \in places : f[i] = r
    OBVIOUS
  <2> QED BY <2>1, <2>2, <2>3 DEF Bijection, Injection, Surjection, IsInjective
<1>3. ExistsBijection(places, landed)
  BY <1>2 DEF ExistsBijection
<1>4. IsFiniteSet(places) /\ Cardinality(places) = n
  <2> HIDE DEF n
  <2>1. n - 1 \in Int /\ 0 \in Int
    BY <1>1
  <2>2. IsFiniteSet(places) /\ Cardinality(places) = IF 0 > n - 1 THEN 0 ELSE (n - 1) - 0 + 1
    BY <2>1, FS_Interval
  <2> QED BY <1>1, <2>2
<1> HIDE DEF landed, places
<1>5. IsFiniteSet(landed) /\ Cardinality(landed) = n
  BY <1>3, <1>4, FS_Bijection
<1> QED BY <1>5 DEF landed, places

LEMMA BatchLanded ==
  ASSUME UsInv, NEW c \in Collectors, BatchLands(c)
  PROVE  /\ usRows' \in SUBSET UsageRows /\ usNextId' \in Nat
         /\ usLeft' \in [Collectors -> UsageBatches]
         /\ BatchesInv' /\ usNextId <= usNextId' /\ usRows \subseteq usRows'
         /\ \A r \in usRows' \ usRows : ~(r.id < usNextId)
<1> DEFINE batch == usLeft[c]
           landed == {UsageRow(batch, usNextId + i) : i \in 0..(batch.size - 1)}
<1>1. /\ usKind = "sql" /\ batch # NoBatch /\ usRows' = usRows \cup landed
      /\ usNextId' = usNextId + batch.size
      /\ usLeft' = [usLeft EXCEPT ![c] = NoBatch]
      /\ UNCHANGED <<usKind, usClock, usCollected, usPruned, usReport>>
  BY DEF BatchLands, Landing
<1>2. /\ batch \in UsageBatches /\ usNextId \in Nat /\ usRows \in SUBSET UsageRows
      /\ usLeft \in [Collectors -> UsageBatches] /\ NoBatch \in UsageBatches
      /\ usCollected \in Nat
  BY DEF UsInv, UsTypeOK, UsageBatches, NoBatch
<1>3. batch.of \in Nat /\ batch.size \in Nat /\ batch.time \in Nat /\ batch.left \in Nat
  BY <1>2 DEF UsageBatches
<1>4. IsFiniteSet(landed) /\ Cardinality(landed) = batch.size
  BY <1>2, LandedRows
<1>5. \A r \in landed : /\ r \in UsageRows /\ r.of = batch.of /\ r.size = batch.size /\ r.time = batch.time
                        /\ r.id >= usNextId /\ r.id < usNextId + batch.size
  BY <1>2, <1>3 DEF UsageRow, UsageRows
<1>6. \A r, q \in landed : r.id = q.id => r = q
  BY <1>2, <1>3 DEF UsageRow
<1> HIDE DEF landed, batch
<1>7. /\ usLeft' \in [Collectors -> UsageBatches]
      /\ \A d \in Collectors : usLeft'[d] = IF d = c THEN NoBatch ELSE usLeft[d]
  BY <1>1, <1>2
<1>8. Identified /\ BatchesAreWhole /\ \A d \in Collectors : BatchKept(d)
  BY DEF UsInv, BatchesInv
<1>9. /\ batch.of <= usCollected /\ batch.left = batch.size
      /\ \A r \in BatchRows(batch.of) : r.size = batch.size /\ r.time = batch.time
      /\ batch.of \in usPruned \/ Cardinality(BatchRows(batch.of)) + batch.left = batch.size
      /\ \A d \in Collectors : usLeft[d] # NoBatch /\ usLeft[d].of = batch.of => d = c
  <2>1. BatchKept(c)
    BY <1>8
  <2> QED BY <1>1, <2>1 DEF BatchKept, batch
<1>10. \A r \in usRows : r.id \in Nat /\ r.of \in Nat /\ r.id < usNextId /\ r.of <= usCollected
  BY <1>2, <1>8 DEF Identified, UsageRows
<1>11. Identified'
  <2>1. IsFiniteSet(usRows')
    BY <1>1, <1>4, <1>8, FS_Union DEF Identified
  <2>2. \A r \in usRows' : r.id < usNextId' /\ r.of <= usCollected'
    <3>1. \A r \in landed : r.id < usNextId' /\ r.of <= usCollected'
      BY <1>1, <1>5, <1>9
    <3>2. \A r \in usRows : r.id < usNextId'
      BY <1>1, <1>2, <1>3, <1>10
    <3> QED BY <1>1, <1>10, <3>1, <3>2
  <2>3. \A r \in usRows, q \in landed : r.id # q.id
    <3> SUFFICES ASSUME NEW r \in usRows, NEW q \in landed PROVE r.id # q.id
      OBVIOUS
    <3>1. q.id \in Nat /\ q.id >= usNextId
      BY <1>5 DEF UsageRows
    <3> QED BY <1>2, <1>10, <3>1
  <2>4. \A r, q \in usRows' : r.id = q.id => r = q
    BY <1>1, <1>6, <1>8, <2>3 DEF Identified
  <2>5. \A r \in usRows : r.of = batch.of => r.size = batch.size /\ r.time = batch.time
    BY <1>9 DEF BatchRows
  <2>6. \A r, q \in usRows' : r.of = q.of => r.size = q.size /\ r.time = q.time
    BY <1>1, <1>5, <1>8, <2>5 DEF Identified
  <2>7. \A b \in usPruned' : b <= usCollected'
    BY <1>1, <1>8 DEF Identified
  <2> QED BY <2>1, <2>2, <2>4, <2>6, <2>7 DEF Identified
<1>12. UnderWay \ {batch.of} \subseteq UnderWay'
  BY <1>7 DEF UnderWay, batch
<1>13. BatchesAreWhole'
  <2> SUFFICES ASSUME NEW r \in usRows'
               PROVE  r.of \in UnderWay' \cup usPruned' \/ Cardinality({q \in usRows' : q.of = r.of}) = r.size
    BY DEF BatchesAreWhole, BatchRows
  <2>1. CASE r.of = batch.of
    <3> SUFFICES ASSUME batch.of \notin usPruned
                 PROVE  Cardinality({q \in usRows' : q.of = r.of}) = r.size
      BY <1>1, <2>1
    <3>1. Cardinality(BatchRows(batch.of)) = 0 /\ IsFiniteSet(BatchRows(batch.of))
      BY <1>3, <1>8, <1>9, RowsAreCounted DEF UsInv
    <3>2. BatchRows(batch.of) = {}
      BY <3>1, FS_EmptySet
    <3>3. {q \in usRows' : q.of = r.of} = landed
      BY <1>1, <1>5, <2>1, <3>2 DEF BatchRows
    <3>4. r.size = batch.size
      BY <1>5, <2>1, <3>3
    <3> QED BY <1>4, <3>3, <3>4
  <2>2. CASE r.of # batch.of
    <3>1. r \in usRows /\ {q \in usRows' : q.of = r.of} = BatchRows(r.of)
      BY <1>1, <1>5, <2>2 DEF BatchRows
    <3> QED BY <1>1, <1>8, <1>12, <2>2, <3>1 DEF BatchesAreWhole
  <2> QED BY <2>1, <2>2
<1>14. ASSUME NEW d \in Collectors PROVE BatchKept(d)'
  <2> SUFFICES ASSUME usLeft[d] # NoBatch, d # c PROVE BatchKept(d)'
    BY <1>7 DEF BatchKept
  <2> DEFINE b == usLeft[d]
  <2>1. usLeft'[d] = b /\ b.of # batch.of /\ BatchKept(d)
    BY <1>7, <1>8, <1>9
  <2>2. {r \in usRows' : r.of = b.of} = BatchRows(b.of)
    BY <1>1, <1>5, <2>1 DEF BatchRows
  <2>3. \A e \in Collectors : usLeft'[e] # NoBatch /\ usLeft'[e].of = b.of => e = d
    BY <1>7, <2>1 DEF BatchKept
  <2>4. /\ b.left \in 1..b.size /\ b.of <= usCollected
        /\ usKind = "sql" => b.left = b.size
        /\ \A r \in BatchRows(b.of) : r.size = b.size /\ r.time = b.time
        /\ b.of \in usPruned \/ Cardinality(BatchRows(b.of)) + b.left = b.size
    BY <2>1 DEF BatchKept
  <2> HIDE DEF b
  <2> QED BY <1>1, <2>1, <2>2, <2>3, <2>4 DEF BatchKept, BatchRows
<1>15. usRows' \in SUBSET UsageRows /\ usNextId' \in Nat /\ usNextId <= usNextId'
       /\ usRows \subseteq usRows'
  BY <1>1, <1>2, <1>3, <1>5
<1>16. \A r \in usRows' \ usRows : ~(r.id < usNextId)
  <2> SUFFICES ASSUME NEW r \in landed PROVE ~(r.id < usNextId)
    BY <1>1
  <2>1. r.id \in Nat /\ r.id >= usNextId
    BY <1>5 DEF UsageRows
  <2> QED BY <1>2, <2>1
<1> QED BY <1>7, <1>11, <1>13, <1>14, <1>15, <1>16 DEF BatchesInv

LEMMA BatchFailed ==
  ASSUME UsInv, NEW c \in Collectors, BatchFails(c)
  PROVE  usLeft' \in [Collectors -> UsageBatches] /\ BatchesInv'
<1> DEFINE batch == usLeft[c]
<1>1. /\ usKind = "sql" /\ batch # NoBatch
      /\ usLeft' = [usLeft EXCEPT ![c] = NoBatch]
      /\ UNCHANGED <<usKind, usRows, usNextId, usClock, usCollected, usPruned, usReport>>
  BY DEF BatchFails
<1>2. usLeft \in [Collectors -> UsageBatches] /\ NoBatch \in UsageBatches
  BY DEF UsInv, UsTypeOK, UsageBatches, NoBatch
<1>3. batch.of \in Nat /\ batch.size \in Nat /\ batch.left \in Nat
  BY <1>2 DEF UsageBatches
<1>4. /\ usLeft' \in [Collectors -> UsageBatches]
      /\ \A d \in Collectors : usLeft'[d] = IF d = c THEN NoBatch ELSE usLeft[d]
  BY <1>1, <1>2
<1>5. Identified /\ BatchesAreWhole /\ \A d \in Collectors : BatchKept(d)
  BY DEF UsInv, BatchesInv
<1>6. /\ batch.left = batch.size
      /\ batch.of \in usPruned \/ Cardinality(BatchRows(batch.of)) + batch.left = batch.size
  <2>1. BatchKept(c)
    BY <1>5
  <2> QED BY <1>1, <2>1 DEF BatchKept
<1>7. batch.of \in usPruned \/ BatchRows(batch.of) = {}
  <2> SUFFICES ASSUME batch.of \notin usPruned PROVE BatchRows(batch.of) = {}
    OBVIOUS
  <2>1. Cardinality(BatchRows(batch.of)) = 0 /\ IsFiniteSet(BatchRows(batch.of))
    BY <1>3, <1>5, <1>6, RowsAreCounted DEF UsInv
  <2> QED BY <2>1, FS_EmptySet
<1>8. UnderWay \ {batch.of} \subseteq UnderWay'
  BY <1>4 DEF UnderWay
<1>9. BatchesAreWhole'
  <2> SUFFICES ASSUME NEW r \in usRows
               PROVE  r.of \in UnderWay' \cup usPruned \/ Cardinality(BatchRows(r.of)) = r.size
    BY <1>1 DEF BatchesAreWhole, BatchRows
  <2>1. r.of = batch.of => batch.of \in usPruned
    BY <1>7 DEF BatchRows
  <2> QED BY <1>5, <1>8, <2>1 DEF BatchesAreWhole
<1>10. ASSUME NEW d \in Collectors PROVE BatchKept(d)'
  <2> SUFFICES ASSUME usLeft[d] # NoBatch, d # c PROVE BatchKept(d)'
    BY <1>4 DEF BatchKept
  <2> DEFINE b == usLeft[d]
  <2>1. BatchKept(d) /\ usLeft'[d] = b
    BY <1>4, <1>5
  <2>2. /\ b.left \in 1..b.size /\ b.of <= usCollected
        /\ usKind = "sql" => b.left = b.size
        /\ \A r \in BatchRows(b.of) : r.size = b.size /\ r.time = b.time
        /\ b.of \in usPruned \/ Cardinality(BatchRows(b.of)) + b.left = b.size
        /\ \A e \in Collectors : usLeft'[e] # NoBatch /\ usLeft'[e].of = b.of => e = d
    BY <1>4, <2>1 DEF BatchKept
  <2> HIDE DEF b
  <2> QED BY <1>1, <2>1, <2>2 DEF BatchKept, BatchRows
<1>11. Identified'
  BY <1>1, <1>5 DEF Identified
<1> QED BY <1>4, <1>9, <1>10, <1>11 DEF BatchesInv

LEMMA BatchesPruned ==
  ASSUME UsInv, NEW before, PruneUsage(before)
  PROVE  usRows' \in SUBSET UsageRows /\ usPruned' \in SUBSET Nat /\ BatchesInv'
<1> DEFINE gone == {r \in usRows : r.time < before}
<1>1. /\ usRows' = usRows \ gone
      /\ usPruned' = usPruned \cup ({r.of : r \in gone} \cap UnderWay)
      /\ UNCHANGED <<usKind, usNextId, usClock, usLeft, usCollected>>
  BY DEF PruneUsage
<1>2. usRows \in SUBSET UsageRows /\ usPruned \in SUBSET Nat
  BY DEF UsInv, UsTypeOK
<1>3. Identified /\ BatchesAreWhole /\ \A d \in Collectors : BatchKept(d)
  BY DEF UsInv, BatchesInv
<1>4. \A r, q \in usRows : r.of = q.of /\ r \in gone => q \in gone
  BY <1>3 DEF Identified
<1> HIDE DEF gone
<1>5. gone \subseteq usRows
  BY DEF gone
<1>6. UnderWay' = UnderWay
  BY <1>1 DEF UnderWay
<1>7. Identified'
  <2>1. usRows' \subseteq usRows /\ IsFiniteSet(usRows')
    BY <1>1, <1>3, FS_Subset DEF Identified
  <2>2. \A b \in usPruned' : b <= usCollected'
    BY <1>1, <1>3, <1>5 DEF Identified
  <2> QED BY <1>1, <1>3, <2>1, <2>2 DEF Identified
<1>8. BatchesAreWhole'
  <2> SUFFICES ASSUME NEW r \in usRows'
               PROVE  r.of \in UnderWay \cup usPruned' \/ Cardinality({q \in usRows' : q.of = r.of}) = r.size
    BY <1>6 DEF BatchesAreWhole, BatchRows
  <2>1. r \in usRows /\ {q \in usRows' : q.of = r.of} = BatchRows(r.of)
    BY <1>1, <1>4 DEF BatchRows
  <2> QED BY <1>1, <1>3, <2>1 DEF BatchesAreWhole
<1>9. ASSUME NEW d \in Collectors PROVE BatchKept(d)'
  <2> SUFFICES ASSUME usLeft[d] # NoBatch PROVE BatchKept(d)'
    BY <1>1 DEF BatchKept
  <2> DEFINE b == usLeft[d]
             stored == {r \in usRows' : r.of = b.of}
  <2>1. BatchKept(d) /\ b.of \in UnderWay
    BY <1>3 DEF UnderWay
  <2>2. b.of \in usPruned' \/ stored = BatchRows(b.of)
    BY <1>1, <1>5, <2>1 DEF BatchRows
  <2>3. \A r \in stored : r \in BatchRows(b.of)
    BY <1>1 DEF BatchRows
  <2>4. /\ \A r \in stored : r.size = b.size /\ r.time = b.time
        /\ b.of \in usPruned' \/ Cardinality(stored) + b.left = b.size
    BY <1>1, <2>1, <2>2, <2>3 DEF BatchKept
  <2>5. /\ b.left \in 1..b.size /\ b.of <= usCollected
        /\ usKind = "sql" => b.left = b.size
        /\ \A e \in Collectors : usLeft[e] # NoBatch /\ usLeft[e].of = b.of => e = d
    BY <2>1 DEF BatchKept
  <2> QED BY <1>1, <2>4, <2>5 DEF BatchKept, BatchRows
<1>10. usRows' \in SUBSET UsageRows
  BY <1>1, <1>2
<1>11. usPruned' \in SUBSET Nat
  BY <1>1, <1>2, <1>5 DEF UsageRows
<1> QED BY <1>7, <1>8, <1>9, <1>10, <1>11 DEF BatchesInv

-----------------------------------------------------------------------------
(* Usage: the invariant is kept                                            *)

LEMMA UsStarts == UsInit => UsInv
<1> SUFFICES ASSUME UsInit PROVE UsInv
  OBVIOUS
<1> USE UsageAssumption DEF UsInit
<1>1. UsTypeOK
  BY DEF UsTypeOK, UsageBatches, NoBatch, Reports, NoReport
<1>2. BatchesInv
  BY FS_EmptySet DEF BatchesInv, Identified, BatchesAreWhole, BatchKept
<1>3. ReportInv
  BY DEF ReportInv, ReportsCountOnce, NoReport
<1> QED BY <1>1, <1>2, <1>3 DEF UsInv

LEMMA UsCollects ==
  ASSUME UsInv, NEW c \in Collectors, NEW size \in 1..MaxUsage, CollectBatch(c, size)
  PROVE  UsInv'
<1> USE UsageAssumption
<1> DEFINE batch == Batch(size)
<1>1. /\ usLeft[c] = NoBatch /\ usCollected + size <= MaxUsage /\ usCollected' = usCollected + size
      /\ UNCHANGED <<usKind, usClock, usPruned, usReport>>
  BY DEF CollectBatch
<1>2. /\ usCollected \in 0..MaxUsage /\ usClock \in 0..UsMaxTime /\ usKind \in UsageStorages
      /\ usLeft \in [Collectors -> UsageBatches] /\ usNextId \in Nat /\ usRows \in SUBSET UsageRows
      /\ usPruned \in SUBSET Nat
  BY DEF UsInv, UsTypeOK
<1>3. usCollected' \in 0..MaxUsage /\ usCollected < usCollected' /\ usCollected + 1 <= usCollected'
  BY <1>1, <1>2
<1>4. batch \in UsageBatches /\ batch.of = usCollected + 1 /\ batch.size = size /\ batch.left = size
      /\ batch.time = usClock /\ batch # NoBatch /\ batch.left \in 1..batch.size
  BY <1>2 DEF Batch, UsageBatches, NoBatch
<1> HIDE DEF batch
<1>5. Identified /\ BatchesAreWhole /\ \A d \in Collectors : BatchKept(d)
  BY DEF UsInv, BatchesInv
<1>6. BatchRows(batch.of) = {}
  <2>1. \A r \in usRows : r.of <= usCollected /\ r.of \in Nat
    BY <1>2, <1>5 DEF Identified, UsageRows
  <2> QED BY <1>2, <1>4, <2>1 DEF BatchRows
<1>7. \A d \in Collectors : usLeft[d] # NoBatch => usLeft[d].of # batch.of /\ usLeft[d].of <= usCollected
  <2> SUFFICES ASSUME NEW d \in Collectors, usLeft[d] # NoBatch
               PROVE  usLeft[d].of # batch.of /\ usLeft[d].of <= usCollected
    OBVIOUS
  <2>1. usLeft[d].of <= usCollected /\ usLeft[d].of \in Nat
    BY <1>2, <1>5 DEF BatchKept, UsageBatches
  <2> QED BY <1>2, <1>4, <2>1
<1>8. CASE usKind = "memory"
  <2>1. StoreEvent(c, batch)
    BY <1>8 DEF CollectBatch, batch
  <2>2. Cardinality(BatchRows(batch.of)) + batch.left = batch.size
    BY <1>4, <1>6, FS_EmptySet
  <2>3. /\ usRows' \in SUBSET UsageRows /\ usNextId' \in Nat
        /\ usLeft' \in [Collectors -> UsageBatches]
        /\ BatchesInv' /\ usNextId <= usNextId' /\ usRows \subseteq usRows'
        /\ \A r \in usRows' \ usRows : ~(r.id < usNextId)
    BY <1>1, <1>2, <1>3, <1>4, <1>6, <1>7, <1>8, <2>1, <2>2, EventStored
  <2>4. UsTypeOK'
    BY <1>1, <1>3, <2>3 DEF UsInv, UsTypeOK
  <2>5. ReportInv'
    BY <1>1, <2>3, <2>4, RowsAdded DEF BatchesInv
  <2> QED BY <2>3, <2>4, <2>5 DEF UsInv
<1>9. CASE usKind = "sql"
  <2>1. usLeft' = [usLeft EXCEPT ![c] = batch] /\ UNCHANGED <<usRows, usNextId>>
    BY <1>9 DEF CollectBatch, batch
  <2>2. /\ usLeft' \in [Collectors -> UsageBatches]
        /\ \A d \in Collectors : usLeft'[d] = IF d = c THEN batch ELSE usLeft[d]
    BY <1>2, <1>4, <2>1
  <2>3. UsTypeOK'
    BY <1>1, <1>3, <2>1, <2>2 DEF UsInv, UsTypeOK
  <2>4. \A r \in usRows : r.of <= usCollected'
    <3>1. \A r \in usRows : r.of <= usCollected /\ r.of \in Nat
      BY <1>2, <1>5 DEF Identified, UsageRows
    <3> QED BY <1>2, <1>3, <3>1
  <2>5. \A b \in usPruned : b <= usCollected'
    <3>1. \A b \in usPruned : b <= usCollected
      BY <1>5 DEF Identified
    <3> QED BY <1>2, <1>3, <3>1
  <2>6. Identified'
    BY <1>1, <1>5, <2>1, <2>4, <2>5 DEF Identified
  <2>7. UnderWay \subseteq UnderWay'
    BY <1>1, <2>2 DEF UnderWay
  <2>8. BatchesAreWhole'
    BY <1>1, <1>5, <2>1, <2>7 DEF BatchesAreWhole, BatchRows
  <2>9. ASSUME NEW d \in Collectors PROVE BatchKept(d)'
    <3>1. CASE d = c
      <4>1. batch.of \in usPruned \/ Cardinality(BatchRows(batch.of)) + batch.left = batch.size
        BY <1>4, <1>6, FS_EmptySet
      <4>2. \A e \in Collectors : usLeft'[e] # NoBatch /\ usLeft'[e].of = batch.of => e = c
        BY <1>7, <2>2
      <4>3. batch.of <= usCollected' /\ batch.left = batch.size
        BY <1>3, <1>4
      <4>4. usLeft'[d] = batch
        BY <2>2, <3>1
      <4>5. {r \in usRows' : r.of = batch.of} = BatchRows(batch.of)
        BY <2>1 DEF BatchRows
      <4>6. \A r \in BatchRows(batch.of) : FALSE
        BY <1>6
      <4> QED BY <1>1, <1>4, <3>1, <4>1, <4>2, <4>3, <4>4, <4>5, <4>6 DEF BatchKept, BatchRows
    <3>2. CASE d # c
      <4> SUFFICES ASSUME usLeft[d] # NoBatch PROVE BatchKept(d)'
        BY <2>2, <3>2 DEF BatchKept
      <4> DEFINE b == usLeft[d]
      <4>1. BatchKept(d) /\ usLeft'[d] = b /\ b.of # batch.of
        BY <1>5, <1>7, <2>2, <3>2
      <4>2. b.of <= usCollected'
        <5>1. b.of <= usCollected /\ b.of \in Nat
          BY <1>2, <1>7 DEF UsageBatches
        <5> QED BY <1>2, <1>3, <5>1
      <4>3. /\ b.left \in 1..b.size
            /\ usKind = "sql" => b.left = b.size
            /\ \A r \in BatchRows(b.of) : r.size = b.size /\ r.time = b.time
            /\ b.of \in usPruned \/ Cardinality(BatchRows(b.of)) + b.left = b.size
            /\ \A e \in Collectors : usLeft'[e] # NoBatch /\ usLeft'[e].of = b.of => e = d
        BY <2>2, <4>1 DEF BatchKept
      <4> HIDE DEF b
      <4> QED BY <1>1, <2>1, <4>1, <4>2, <4>3 DEF BatchKept, BatchRows
    <3> QED BY <3>1, <3>2
  <2>10. ReportInv'
    BY <1>1, <1>2, <2>1, <2>3, <2>6, RowsAdded
  <2> QED BY <2>3, <2>6, <2>8, <2>9, <2>10 DEF UsInv, BatchesInv
<1> QED BY <1>2, <1>8, <1>9

LEMMA UsStores ==
  ASSUME UsInv, NEW c \in Collectors, StoreNext(c)
  PROVE  UsInv'
<1> USE UsageAssumption
<1> DEFINE batch == usLeft[c]
<1>1. /\ usKind = "memory" /\ batch # NoBatch /\ StoreEvent(c, batch)
      /\ UNCHANGED <<usKind, usClock, usCollected, usPruned, usReport>>
  BY DEF StoreNext
<1>2. usCollected \in Nat /\ batch \in UsageBatches
  BY DEF UsInv, UsTypeOK
<1>3. BatchKept(c)
  BY DEF UsInv, BatchesInv
<1>4. /\ batch.left \in 1..batch.size /\ batch.of <= usCollected
      /\ batch.of \in usPruned \/ Cardinality(BatchRows(batch.of)) + batch.left = batch.size
      /\ \A r \in BatchRows(batch.of) : r.size = batch.size /\ r.time = batch.time
      /\ \A d \in Collectors : usLeft[d] # NoBatch /\ usLeft[d].of = batch.of => d = c
  BY <1>1, <1>3 DEF BatchKept
<1>5. /\ usCollected' \in Nat /\ usCollected <= usCollected' /\ batch.of <= usCollected'
  BY <1>1, <1>2, <1>4
<1>6. usLeft[c] \in {batch, NoBatch}
  OBVIOUS
<1> HIDE DEF batch
<1>7. /\ usRows' \in SUBSET UsageRows /\ usNextId' \in Nat
      /\ usLeft' \in [Collectors -> UsageBatches]
      /\ BatchesInv' /\ usNextId <= usNextId' /\ usRows \subseteq usRows'
      /\ \A r \in usRows' \ usRows : ~(r.id < usNextId)
  BY <1>1, <1>2, <1>4, <1>5, <1>6, EventStored
<1>8. UsTypeOK'
  BY <1>1, <1>7 DEF UsInv, UsTypeOK
<1>9. ReportInv'
  BY <1>1, <1>7, <1>8, RowsAdded DEF BatchesInv
<1> QED BY <1>7, <1>8, <1>9 DEF UsInv

LEMMA UsLands ==
  ASSUME UsInv, NEW c \in Collectors, BatchLands(c) \/ BatchFails(c)
  PROVE  UsInv'
<1> USE UsageAssumption
<1>1. CASE BatchLands(c)
  <2>1. /\ usRows' \in SUBSET UsageRows /\ usNextId' \in Nat
        /\ usLeft' \in [Collectors -> UsageBatches]
        /\ BatchesInv' /\ usNextId <= usNextId' /\ usRows \subseteq usRows'
        /\ \A r \in usRows' \ usRows : ~(r.id < usNextId)
    BY <1>1, BatchLanded
  <2>2. UNCHANGED <<usKind, usClock, usCollected, usPruned, usReport>>
    BY <1>1 DEF BatchLands
  <2>3. UsTypeOK'
    BY <2>1, <2>2 DEF UsInv, UsTypeOK
  <2>4. ReportInv'
    BY <2>1, <2>2, <2>3, RowsAdded DEF BatchesInv
  <2> QED BY <2>1, <2>3, <2>4 DEF UsInv
<1>2. CASE BatchFails(c)
  <2>1. usLeft' \in [Collectors -> UsageBatches] /\ BatchesInv'
    BY <1>2, BatchFailed
  <2>2. UNCHANGED <<usKind, usRows, usNextId, usClock, usCollected, usPruned, usReport>>
    BY <1>2 DEF BatchFails
  <2>3. UsTypeOK' /\ usNextId \in Nat
    BY <2>1, <2>2 DEF UsInv, UsTypeOK
  <2>4. ReportInv'
    BY <2>1, <2>2, <2>3, RowsAdded DEF BatchesInv
  <2> QED BY <2>1, <2>3, <2>4 DEF UsInv
<1> QED BY <1>1, <1>2

LEMMA UsPrunes ==
  ASSUME UsInv, NEW before, PruneUsage(before)
  PROVE  UsInv'
<1>1. usRows' \in SUBSET UsageRows /\ usPruned' \in SUBSET Nat /\ BatchesInv'
  BY BatchesPruned
<1>2. UNCHANGED <<usKind, usNextId, usClock, usLeft, usCollected>>
  BY DEF PruneUsage
<1>3. usReport' \in Reports
  <2>1. usReport' \in {usReport, [usReport EXCEPT !.shifted = TRUE]} /\ (usReport.at # "pages" => usReport' = usReport)
        /\ usReport \in Reports
    BY DEF PruneUsage, UsInv, UsTypeOK
  <2> QED BY <2>1 DEF Reports
<1>4. UsTypeOK'
  BY <1>1, <1>2, <1>3 DEF UsInv, UsTypeOK
<1>5. ReportInv'
  BY <1>1, <1>4, RowsPruned DEF BatchesInv
<1> QED BY <1>1, <1>4, <1>5 DEF UsInv

\* Reading changes neither rows nor batches.
LEMMA BatchesUnread ==
  ASSUME UsInv, UNCHANGED <<usKind, usRows, usNextId, usLeft, usCollected, usPruned>>
  PROVE  BatchesInv'
<1>1. BatchesInv
  BY DEF UsInv
<1>2. UnderWay' = UnderWay /\ \A b : BatchRows(b)' = BatchRows(b)
  BY DEF UnderWay, BatchRows
<1>3. Identified'
  BY <1>1 DEF BatchesInv, Identified
<1>4. BatchesAreWhole'
  BY <1>1, <1>2 DEF BatchesInv, BatchesAreWhole, BatchRows
<1>5. \A c \in Collectors : BatchKept(c)'
  BY <1>1 DEF BatchesInv, BatchKept, BatchRows
<1> QED BY <1>3, <1>4, <1>5 DEF BatchesInv

LEMMA UsReads ==
  ASSUME UsInv,
         \/ \E from \in 0..usClock, to \in {usClock, UsMaxTime + 1} : BeginReport(from, to)
         \/ NextPage \/ SqlReport \/ UsTick
  PROVE  UsInv'
<1> USE UsageAssumption
<1>1. CASE UsTick
  <2>1. UNCHANGED <<usKind, usRows, usNextId, usLeft, usCollected, usPruned, usReport>>
        /\ usClock' \in 0..UsMaxTime /\ usNextId \in Nat
    BY <1>1 DEF UsTick, UsInv, UsTypeOK
  <2>2. UsTypeOK' /\ BatchesInv'
    BY <2>1, BatchesUnread DEF UsInv, UsTypeOK
  <2>3. ReportInv'
    BY <2>1, <2>2, RowsAdded DEF BatchesInv
  <2> QED BY <2>2, <2>3 DEF UsInv
<1>2. CASE NextPage
  <2>1. UNCHANGED <<usKind, usRows, usNextId, usClock, usLeft, usCollected, usPruned>>
        /\ usReport.at = "pages" /\ ReadPage(usReport)
    BY <1>2 DEF NextPage
  <2>2. usReport \in Reports /\ ReadSoFar(usReport) /\ PagesInOrder(usReport)
    BY <2>1 DEF UsInv, UsTypeOK, ReportInv
  <2>3. ReportInv' /\ usReport' \in Reports
    BY <2>1, <2>2, PageRead
  <2> QED BY <2>1, <2>3, BatchesUnread DEF UsInv, UsTypeOK
<1>3. CASE SqlReport
  <2>1. UNCHANGED <<usKind, usRows, usNextId, usClock, usLeft, usCollected, usPruned>>
        /\ usReport' \in [at : {"empty", "thrown"}]
    BY <1>3 DEF SqlReport
  <2>2. ReportInv' /\ usReport' \in Reports
    BY <2>1 DEF ReportInv, ReportsCountOnce, Reports
  <2> QED BY <2>1, <2>2, BatchesUnread DEF UsInv, UsTypeOK
<1>4. ASSUME NEW from \in 0..usClock, NEW to \in {usClock, UsMaxTime + 1}, BeginReport(from, to)
      PROVE  UsInv'
  <2> DEFINE present == Within(from, to)
             report == [at |-> "pages", from |-> from, to |-> to, offset |-> 0, got |-> {},
                        shifted |-> FALSE, present |-> present]
  <2>1. UNCHANGED <<usKind, usRows, usNextId, usClock, usLeft, usCollected, usPruned>>
        /\ ReadPage(report)
    BY <1>4 DEF BeginReport
  <2>2. from \in Nat /\ to \in Nat /\ present \in SUBSET UsageRows
    BY DEF UsInv, UsTypeOK, Within
  <2>3. \A r \in present : r.time >= from /\ r.time < to /\ r.id < usNextId
    BY DEF Within, UsInv, BatchesInv, Identified
  <2> HIDE DEF present
  <2>4. report \in Reports /\ report.at = "pages" /\ Counted(report) = {}
    BY <2>2 DEF Reports, Counted
  <2>5. ReadSoFar(report)
    BY <2>3, <2>4 DEF ReadSoFar
  <2>6. PagesInOrder(report)
    BY <2>4, FS_EmptySet DEF PagesInOrder
  <2> HIDE DEF report
  <2>7. ReportInv' /\ usReport' \in Reports
    BY <2>1, <2>4, <2>5, <2>6, PageRead
  <2> QED BY <2>1, <2>7, BatchesUnread DEF UsInv, UsTypeOK
<1> QED BY <1>1, <1>2, <1>3, <1>4

LEMMA UsKeeps == UsInv /\ [UsNext]_usVars => UsInv'
<1> SUFFICES ASSUME UsInv, [UsNext]_usVars PROVE UsInv'
  OBVIOUS
<1>1. CASE UNCHANGED usVars
  <2>1. UNCHANGED <<usKind, usRows, usNextId, usLeft, usCollected, usPruned, usReport, usClock>>
        /\ usNextId \in Nat
    BY <1>1 DEF usVars, UsInv, UsTypeOK
  <2>2. UsTypeOK' /\ BatchesInv'
    BY <2>1, BatchesUnread DEF UsInv, UsTypeOK
  <2>3. ReportInv'
    BY <2>1, <2>2, RowsAdded DEF BatchesInv
  <2> QED BY <2>2, <2>3 DEF UsInv
<1>2. CASE UsNext
  BY <1>2, UsCollects, UsStores, UsLands, UsPrunes, UsReads DEF UsNext
<1> QED BY <1>1, <1>2

THEOREM UsageTypeCorrect == UsSpec => []UsTypeOK
<1>1. UsInv => UsTypeOK
  BY DEF UsInv
<1> QED BY <1>1, UsStarts, UsKeeps, PTL DEF UsSpec

\* Batches are whole and reports count each event once, for any storage, size
\* of pages and number of collectors.
THEOREM UsageKept == UsSpec => []UsageSound
<1>1. UsInv => UsageSound
  BY DEF UsInv, BatchesInv, ReportInv, UsageSound
<1> QED BY <1>1, UsStarts, UsKeeps, PTL DEF UsSpec

-----------------------------------------------------------------------------
(* Billing                                                                 *)

SyncStates == {NoSync}
              \cup [at : {"fetch"}, start : Int, end : Nat, next : Nat \ {0},
                    got : SUBSET [id : Charges, version : Nat \ {0}]]
              \cup [at : {"stored"}, start : Int, end : Nat]

CbTyped == /\ cbClock \in Nat
           /\ cbTruth \in [Charges -> Nat \ {0}]
           /\ cbRows \in [Charges -> Nat] /\ cbBest \in [Charges -> Nat]
           /\ cbLast \in Nat \cup {Never}
           /\ cbRun \in [Syncs -> SyncStates]
           /\ cbTwo \in BOOLEAN /\ cbSlow \in BOOLEAN

Covers(run, r) == r[2] + 1 > run.start /\ r[2] < run.end

(* What a sync has fetched is complete up to its next connector, and no older
   than what is stored while it is alone. *)
Fetched(run) ==
  run.at = "fetch" =>
    /\ \A r \in Charges : r[1] < run.next /\ Covers(run, r) => \E g \in run.got : g.id = r
    /\ ~cbTwo => \A g \in run.got : g.version >= cbRows[g.id]
    /\ \A g \in run.got : g.version <= cbTruth[g.id]

Upserted(run) == run.at = "stored" => \A r \in Charges : Covers(run, r) => cbRows[r] # 0

CbInv == /\ CbTyped
         /\ \A r \in Charges : cbRows[r] <= cbTruth[r]
         /\ \A c \in Syncs : Fetched(cbRun[c]) /\ Upserted(cbRun[c])
         /\ ~cbTwo => \A c, d \in Syncs : cbRun[c] # NoSync /\ cbRun[d] # NoSync => c = d
         /\ BillingSound

LEMMA ChargesAre == \A r \in Charges : r[1] \in Nat /\ r[2] \in Nat /\ r[1] <= Len(Providers)
  BY BillingAssumption DEF Charges

LEMMA CbStarts == CbInit => CbInv
<1> SUFFICES ASSUME CbInit PROVE CbInv
  OBVIOUS
<1>1. NoSync \in SyncStates
  BY DEF SyncStates
<1>2. cbTruth \in [Charges -> Nat \ {0}] /\ cbRows \in [Charges -> Nat] /\ cbRun \in [Syncs -> SyncStates]
  BY <1>1 DEF CbInit
<1>3. CbTyped
  BY <1>2 DEF CbInit, CbTyped
<1> QED BY <1>3 DEF CbInit, CbInv, Fetched, Upserted, BillingSound, NoChargeIsSkipped,
                    OnlyOverlapRegresses, NoSync, Never

\* A sync goes on by itself and leaves what is stored alone.
LEMMA RunGoesOn ==
  ASSUME CbInv, NEW c \in Syncs, NEW run \in SyncStates, CbGoto(c, run),
         UNCHANGED <<cbClock, cbTruth, cbRows, cbBest>>, cbLast' = cbLast, cbSlow' = cbSlow,
         cbTwo' \in BOOLEAN, cbTwo => cbTwo',
         Fetched(run)', Upserted(run),
         ~cbTwo' /\ run # NoSync => \A d \in Syncs \ {c} : cbRun[d] = NoSync
  PROVE  CbInv'
<1>1. CbTyped /\ CbTyped'
  BY DEF CbInv, CbTyped, CbGoto
<1>2. \A d \in Syncs : cbRun'[d] = IF d = c THEN run ELSE cbRun[d]
  BY <1>1 DEF CbTyped, CbGoto
<1>3. ASSUME NEW d \in Syncs PROVE Fetched(cbRun[d])' /\ Upserted(cbRun[d])'
  <2>1. CASE d = c
    <3>1. cbRun'[d] = run
      BY <1>2, <2>1
    <3> QED BY <3>1 DEF Upserted, Fetched, Covers
  <2>2. CASE d # c
    <3>1. Fetched(cbRun[d]) /\ Upserted(cbRun[d]) /\ cbRun'[d] = cbRun[d]
      BY <1>2, <2>2 DEF CbInv
    <3> QED BY <3>1 DEF Fetched, Upserted, Covers
  <2> QED BY <2>1, <2>2
<1>4. ~cbTwo' => \A d, e \in Syncs : cbRun'[d] # NoSync /\ cbRun'[e] # NoSync => d = e
  BY <1>2 DEF CbInv
<1>5. BillingSound'
  BY DEF CbInv, BillingSound, NoChargeIsSkipped, OnlyOverlapRegresses
<1>6. \A r \in Charges : cbRows'[r] <= cbTruth'[r]
  BY DEF CbInv
<1> QED BY <1>1, <1>3, <1>4, <1>5, <1>6 DEF CbInv

LEMMA SyncBegins ==
  ASSUME CbInv, NEW c \in Syncs, BeginSync(c)
  PROVE  CbInv'
<1>1. cbClock \in Nat /\ Lookback \in Nat /\ cbClock - Lookback \in Int /\ cbTwo \in BOOLEAN
  BY BillingAssumption DEF CbInv, CbTyped
<1>2. PICK run \in [at : {"fetch"}, start : Int, end : Nat, next : Nat \ {0},
                    got : SUBSET [id : Charges, version : Nat \ {0}]] :
        run = [at |-> "fetch", start |-> cbClock - Lookback, end |-> cbClock, next |-> 1, got |-> {}]
  <2> DEFINE first == [at |-> "fetch", start |-> cbClock - Lookback, end |-> cbClock, next |-> 1, got |-> {}]
  <2>1. first \in [at : {"fetch"}, start : Int, end : Nat, next : Nat \ {0},
                   got : SUBSET [id : Charges, version : Nat \ {0}]]
    BY <1>1
  <2> HIDE DEF first
  <2>2. \E run \in [at : {"fetch"}, start : Int, end : Nat, next : Nat \ {0},
                    got : SUBSET [id : Charges, version : Nat \ {0}]] : run = first
    BY <2>1
  <2> QED BY <2>2 DEF first
<1>3. /\ cbRun[c] = NoSync /\ CbGoto(c, run)
      /\ cbTwo' = (cbTwo \/ \E d \in Syncs : cbRun[d] # NoSync)
      /\ UNCHANGED <<cbClock, cbTruth, cbRows, cbLast, cbBest, cbSlow>>
  BY <1>2 DEF BeginSync
<1>4. run.at = "fetch" /\ run.got = {} /\ run.next = 1
  BY <1>2
<1>5. run \in SyncStates
  BY DEF SyncStates
<1>6. \A r \in Charges : ~(r[1] < run.next)
  BY <1>4 DEF Charges
<1>7. Fetched(run)' /\ Upserted(run)
  BY <1>4, <1>6 DEF Fetched, Upserted
<1>8. cbTwo' \in BOOLEAN /\ (cbTwo => cbTwo') /\ (~cbTwo' => \A d \in Syncs \ {c} : cbRun[d] = NoSync)
  BY <1>3
<1>9. CbGoto(c, run) /\ UNCHANGED <<cbClock, cbTruth, cbRows, cbBest>> /\ cbLast' = cbLast /\ cbSlow' = cbSlow
  BY <1>3
<1> QED BY <1>5, <1>7, <1>8, <1>9, RunGoesOn

LEMMA ConnectorFetches ==
  ASSUME CbInv, NEW c \in Syncs, FetchCosts(c)
  PROVE  CbInv'
<1> DEFINE run == cbRun[c]
           fetched == {r \in Charges : r[1] = run.next /\ r[2] + 1 > run.start /\ r[2] < run.end}
           new == {[id |-> r, version |-> cbTruth[r]] : r \in fetched}
           after == [run EXCEPT !.next = @ + 1, !.got = @ \cup new]
<1>1. /\ run.at = "fetch" /\ run.next <= Len(Providers) /\ CbGoto(c, after)
      /\ UNCHANGED <<cbClock, cbTruth, cbRows, cbLast, cbBest, cbTwo, cbSlow>>
  BY DEF FetchCosts
<1>2. run \in SyncStates
  BY DEF CbInv, CbTyped
<1>3. run \in [at : {"fetch"}, start : Int, end : Nat, next : Nat \ {0},
               got : SUBSET [id : Charges, version : Nat \ {0}]]
  BY <1>1, <1>2 DEF SyncStates, NoSync
<1>4. \A r \in Charges : cbTruth[r] \in Nat \ {0}
  BY DEF CbInv, CbTyped
<1>5. /\ new \in SUBSET [id : Charges, version : Nat \ {0}]
      /\ \A g \in new : g.version = cbTruth[g.id]
      /\ \A r \in Charges : r[1] = run.next /\ Covers(run, r) => \E g \in new : g.id = r
  <2>1. new \in SUBSET [id : Charges, version : Nat \ {0}]
    BY <1>4
  <2>2. \A g \in new : g.version = cbTruth[g.id]
    OBVIOUS
  <2>3. ASSUME NEW r \in Charges, r[1] = run.next, Covers(run, r) PROVE \E g \in new : g.id = r
    <3>1. r \in fetched
      BY <2>3 DEF Covers
    <3>2. [id |-> r, version |-> cbTruth[r]] \in new /\ [id |-> r, version |-> cbTruth[r]].id = r
      BY <3>1
    <3> HIDE DEF new
    <3> QED BY <3>2
  <2> HIDE DEF new
  <2> QED BY <2>1, <2>2, <2>3
<1>6. Fetched(run)
  BY DEF CbInv
<1> HIDE DEF new, fetched, run
<1>7. PICK later \in [at : {"fetch"}, start : Int, end : Nat, next : Nat \ {0},
                      got : SUBSET [id : Charges, version : Nat \ {0}]] :
        /\ later = after
        /\ later.at = "fetch" /\ later.start = run.start /\ later.end = run.end
        /\ later.next = run.next + 1 /\ later.got = run.got \cup new
  <2>1. after = [at |-> "fetch", start |-> run.start, end |-> run.end, next |-> run.next + 1,
                 got |-> run.got \cup new]
    <3>1. after = [run EXCEPT !.next = run.next + 1, !.got = run.got \cup new]
      OBVIOUS
    <3> HIDE DEF after
    <3> QED BY <1>3, <3>1
  <2>2. run.start \in Int /\ run.end \in Nat /\ run.next \in Nat /\ run.next + 1 \in Nat \ {0}
        /\ run.got \in SUBSET [id : Charges, version : Nat \ {0}]
    BY <1>3
  <2> HIDE DEF after
  <2>3. after \in [at : {"fetch"}, start : Int, end : Nat, next : Nat \ {0},
                   got : SUBSET [id : Charges, version : Nat \ {0}]]
    BY <1>5, <2>1, <2>2
  <2> QED BY <2>1, <2>3
<1>8. later \in SyncStates
  BY <1>7 DEF SyncStates
<1>9. Fetched(later)'
  <2>1. \A r \in Charges : r[1] < later.next /\ Covers(later, r) => \E g \in later.got : g.id = r
    <3> SUFFICES ASSUME NEW r \in Charges, r[1] < later.next, Covers(later, r)
                 PROVE  \E g \in later.got : g.id = r
      OBVIOUS
    <3>1. Covers(run, r)
      BY <1>7 DEF Covers
    <3>2. r[1] < run.next \/ r[1] = run.next
      BY <1>3, <1>7, ChargesAre
    <3> QED BY <1>1, <1>5, <1>6, <1>7, <3>1, <3>2 DEF Fetched
  <2>2. \A g \in new : g.id \in Charges /\ g.version >= cbRows[g.id] /\ g.version <= cbTruth[g.id]
    <3> SUFFICES ASSUME NEW g \in new
                 PROVE  g.id \in Charges /\ g.version >= cbRows[g.id] /\ g.version <= cbTruth[g.id]
      OBVIOUS
    <3>1. g.id \in Charges /\ g.version = cbTruth[g.id]
      BY <1>5
    <3>2. cbRows[g.id] <= cbTruth[g.id] /\ cbRows[g.id] \in Nat /\ cbTruth[g.id] \in Nat
      BY <3>1 DEF CbInv, CbTyped
    <3> QED BY <3>1, <3>2
  <2>3. \A g \in run.got : g.version <= cbTruth[g.id] /\ (~cbTwo => g.version >= cbRows[g.id])
    BY <1>1, <1>6 DEF Fetched
  <2>4. \A g \in later.got : g.version <= cbTruth[g.id] /\ (~cbTwo => g.version >= cbRows[g.id])
    BY <1>7, <2>2, <2>3
  <2> QED BY <1>1, <2>1, <2>4 DEF Fetched, Covers
<1>10. Upserted(later)
  BY <1>7 DEF Upserted
<1>11. run # NoSync
  BY <1>1 DEF NoSync
<1>12. ~cbTwo' => \A d \in Syncs \ {c} : cbRun[d] = NoSync
  BY <1>1, <1>11 DEF CbInv, run
<1>13. cbTwo' \in BOOLEAN
  BY <1>1 DEF CbInv, CbTyped
<1>14. /\ CbGoto(c, later) /\ UNCHANGED <<cbClock, cbTruth, cbRows, cbBest>> /\ cbLast' = cbLast
       /\ cbSlow' = cbSlow /\ (cbTwo => cbTwo')
  BY <1>1, <1>7
<1> QED BY <1>8, <1>9, <1>10, <1>12, <1>13, <1>14, RunGoesOn

LEMMA SyncFails ==
  ASSUME CbInv, NEW c \in Syncs, FetchFails(c)
  PROVE  CbInv'
<1>1. CbGoto(c, NoSync) /\ UNCHANGED <<cbClock, cbTruth, cbRows, cbLast, cbBest, cbTwo, cbSlow>>
  BY DEF FetchFails
<1>2. NoSync \in SyncStates /\ Fetched(NoSync)' /\ Upserted(NoSync) /\ cbTwo' \in BOOLEAN
  BY <1>1 DEF SyncStates, Fetched, Upserted, NoSync, CbInv, CbTyped
<1> QED BY <1>1, <1>2, RunGoesOn

LEMMA SyncUpserts ==
  ASSUME CbInv, NEW c \in Syncs, Upsert(c)
  PROVE  CbInv'
<1> DEFINE run == cbRun[c]
           Of(r) == CHOOSE g \in run.got : g.id = r
           stored == [at |-> "stored", start |-> run.start, end |-> run.end]
<1>1. /\ run.at = "fetch" /\ run.next > Len(Providers)
      /\ cbRows' = [r \in Charges |-> IF \E g \in run.got : g.id = r THEN Of(r).version ELSE cbRows[r]]
      /\ cbBest' = [r \in Charges |-> IF cbRows'[r] > cbBest[r] THEN cbRows'[r] ELSE cbBest[r]]
      /\ CbGoto(c, stored)
      /\ UNCHANGED <<cbClock, cbTruth, cbLast, cbTwo, cbSlow>>
  BY DEF Upsert
<1>2. run \in SyncStates /\ CbTyped
  BY DEF CbInv, CbTyped
<1>3. run \in [at : {"fetch"}, start : Int, end : Nat, next : Nat \ {0},
               got : SUBSET [id : Charges, version : Nat \ {0}]]
  BY <1>1, <1>2 DEF SyncStates, NoSync
<1>4. Fetched(run) /\ run # NoSync
  BY <1>1 DEF CbInv, NoSync
<1>5. ASSUME NEW r \in Charges, \E g \in run.got : g.id = r
      PROVE  Of(r) \in run.got /\ Of(r).id = r
  BY <1>5
<1>6. stored \in SyncStates /\ stored # NoSync /\ stored.at = "stored"
      /\ stored.start = run.start /\ stored.end = run.end
  BY <1>3 DEF SyncStates, NoSync
<1> HIDE DEF stored, Of, run
<1>7. ASSUME NEW r \in Charges
      PROVE  /\ cbRows'[r] \in Nat /\ cbRows'[r] <= cbTruth[r]
             /\ cbRows[r] # 0 => cbRows'[r] # 0
             /\ (\E g \in run.got : g.id = r) => cbRows'[r] # 0
             /\ ~cbTwo => cbRows'[r] >= cbRows[r]
  <2>1. cbRows[r] \in Nat /\ cbTruth[r] \in Nat /\ cbRows[r] <= cbTruth[r]
    BY <1>2 DEF CbInv, CbTyped
  <2>2. CASE \E g \in run.got : g.id = r
    <3>1. cbRows'[r] = Of(r).version /\ Of(r) \in run.got /\ Of(r).id = r
      BY <1>1, <1>5, <2>2
    <3>2. Of(r).version \in Nat \ {0}
      BY <1>3, <3>1
    <3>3. Of(r).version <= cbTruth[r] /\ (~cbTwo => Of(r).version >= cbRows[r])
      BY <1>1, <1>4, <3>1 DEF Fetched
    <3> QED BY <3>1, <3>2, <3>3
  <2>3. CASE ~(\E g \in run.got : g.id = r)
    <3>1. cbRows'[r] = cbRows[r]
      BY <1>1, <2>3
    <3> QED BY <2>1, <2>3, <3>1
  <2> QED BY <2>2, <2>3
<1>8. cbRows' \in [Charges -> Nat] /\ cbBest' \in [Charges -> Nat]
  <2>1. cbRows' \in [Charges -> Nat]
    <3>1. cbRows' = [r \in Charges |-> cbRows'[r]]
      BY <1>1
    <3> HIDE DEF CbInv
    <3> QED BY <1>7, <3>1
  <2>2. \A r \in Charges : cbBest[r] \in Nat
    BY <1>2 DEF CbTyped
  <2> QED BY <1>1, <1>7, <2>2
<1>9. \A d \in Syncs : cbRun'[d] = IF d = c THEN stored ELSE cbRun[d]
  BY <1>1, <1>2 DEF CbTyped, CbGoto
<1>10. CbTyped'
  BY <1>1, <1>2, <1>6, <1>8 DEF CbTyped, CbGoto
<1>11. ~cbTwo => \A d \in Syncs \ {c} : cbRun[d] = NoSync
  BY <1>4 DEF CbInv, run
<1>12. ASSUME NEW d \in Syncs PROVE Fetched(cbRun[d])' /\ Upserted(cbRun[d])'
  <2>1. CASE d = c
    <3>1. cbRun'[d] = stored
      BY <1>9, <2>1
    <3>2. \A r \in Charges : Covers(stored, r) => cbRows'[r] # 0
      <4> SUFFICES ASSUME NEW r \in Charges, Covers(stored, r) PROVE cbRows'[r] # 0
        OBVIOUS
      <4>1. Covers(run, r) /\ r[1] < run.next
        BY <1>1, <1>3, <1>6, BillingAssumption, ChargesAre DEF Covers
      <4> QED BY <1>1, <1>4, <1>7, <4>1 DEF Fetched
    <3> QED BY <1>6, <3>1, <3>2 DEF Fetched, Upserted, Covers
  <2>2. CASE d # c
    <3>1. cbRun'[d] = cbRun[d] /\ Fetched(cbRun[d]) /\ Upserted(cbRun[d]) /\ cbRun[d] \in SyncStates
      BY <1>2, <1>9, <2>2 DEF CbInv, CbTyped
    <3>2. ~cbTwo => cbRun[d].at = "none"
      BY <1>11, <2>2 DEF NoSync
    <3>3. Fetched(cbRun[d])'
      BY <1>1, <3>1, <3>2 DEF Fetched, Covers
    <3>4. Upserted(cbRun[d])'
      BY <1>7, <3>1 DEF Upserted, Covers
    <3> QED BY <3>3, <3>4
  <2> QED BY <2>1, <2>2
<1>13. ~cbTwo' => \A d, e \in Syncs : cbRun'[d] # NoSync /\ cbRun'[e] # NoSync => d = e
  BY <1>1, <1>9, <1>11
<1>14. NoChargeIsSkipped'
  BY <1>1, <1>7 DEF CbInv, BillingSound, NoChargeIsSkipped
<1>15. OnlyOverlapRegresses'
  <2> SUFFICES ASSUME ~cbTwo PROVE cbRows' = cbBest'
    BY <1>1 DEF OnlyOverlapRegresses
  <2>1. \A r \in Charges : cbRows[r] = cbBest[r] /\ cbBest[r] \in Nat
    BY <1>2 DEF CbInv, CbTyped, BillingSound, OnlyOverlapRegresses
  <2>2. \A r \in Charges : cbBest'[r] = cbRows'[r]
    <3> SUFFICES ASSUME NEW r \in Charges PROVE cbBest'[r] = cbRows'[r]
      OBVIOUS
    <3>1. cbBest'[r] = IF cbRows'[r] > cbBest[r] THEN cbRows'[r] ELSE cbBest[r]
      BY <1>1
    <3>2. cbRows'[r] >= cbRows[r] /\ cbRows'[r] \in Nat
      BY <1>7
    <3> QED BY <2>1, <3>1, <3>2
  <2> QED BY <1>8, <2>2
<1>16. \A r \in Charges : cbRows'[r] <= cbTruth'[r]
  BY <1>1, <1>7
<1> QED BY <1>10, <1>12, <1>13, <1>14, <1>15, <1>16 DEF CbInv, BillingSound

LEMMA SyncFinishes ==
  ASSUME CbInv, NEW c \in Syncs, FinishSync(c)
  PROVE  CbInv'
<1> DEFINE run == cbRun[c]
           since == IF cbLast = Never THEN 0 ELSE cbLast
<1>1. /\ run.at = "stored" /\ cbLast' = run.end
      /\ cbSlow' = (cbSlow \/ run.start > since)
      /\ CbGoto(c, NoSync)
      /\ UNCHANGED <<cbClock, cbTruth, cbRows, cbBest, cbTwo>>
  BY DEF FinishSync
<1>2. run \in SyncStates /\ CbTyped
  BY DEF CbInv, CbTyped
<1>3. run.start \in Int /\ run.end \in Nat
  BY <1>1, <1>2 DEF SyncStates, NoSync
<1>4. NoSync \in SyncStates
  BY DEF SyncStates
<1>5. since \in Nat
  BY <1>2 DEF CbTyped, Never
<1>6. Upserted(run)
  BY DEF CbInv
<1> HIDE DEF run, since
<1>7. \A d \in Syncs : cbRun'[d] = IF d = c THEN NoSync ELSE cbRun[d]
  BY <1>1, <1>2 DEF CbTyped, CbGoto
<1>8. CbTyped'
  BY <1>1, <1>2, <1>3, <1>4 DEF CbTyped, CbGoto
<1>9. ASSUME NEW d \in Syncs PROVE Fetched(cbRun[d])' /\ Upserted(cbRun[d])'
  <2>1. CASE d = c
    BY <1>7, <2>1 DEF Fetched, Upserted, NoSync
  <2>2. CASE d # c
    <3>1. Fetched(cbRun[d]) /\ Upserted(cbRun[d]) /\ cbRun'[d] = cbRun[d]
      BY <1>7, <2>2 DEF CbInv
    <3> QED BY <1>1, <3>1 DEF Fetched, Upserted, Covers
  <2> QED BY <2>1, <2>2
<1>10. ~cbTwo' => \A d, e \in Syncs : cbRun'[d] # NoSync /\ cbRun'[e] # NoSync => d = e
  BY <1>1, <1>7 DEF CbInv
<1>11. NoChargeIsSkipped'
  <2> SUFFICES ASSUME ~cbSlow', NEW r \in Charges, r[2] < run.end PROVE cbRows[r] # 0
    BY <1>1 DEF NoChargeIsSkipped
  <2>1. ~cbSlow /\ run.start <= since
    <3>1. ~(cbSlow \/ run.start > since)
      BY <1>1
    <3> QED BY <1>3, <1>5, <3>1
  <2>2. r[2] \in Nat
    BY ChargesAre
  <2>3. CASE r[2] + 1 > run.start
    BY <1>1, <1>6, <2>3 DEF Upserted, Covers
  <2>4. CASE ~(r[2] + 1 > run.start)
    <3>1. r[2] < since
      BY <1>3, <1>5, <2>1, <2>2, <2>4
    <3>2. cbLast # Never /\ since = cbLast
      BY <2>2, <3>1 DEF since
    <3> QED BY <2>1, <3>1, <3>2 DEF CbInv, BillingSound, NoChargeIsSkipped
  <2> QED BY <2>3, <2>4
<1>12. OnlyOverlapRegresses'
  BY <1>1 DEF CbInv, BillingSound, OnlyOverlapRegresses
<1>13. \A r \in Charges : cbRows'[r] <= cbTruth'[r]
  BY <1>1 DEF CbInv
<1> QED BY <1>8, <1>9, <1>10, <1>11, <1>12, <1>13 DEF CbInv, BillingSound

LEMMA ProviderRestates ==
  ASSUME CbInv, NEW x \in Charges, Restate(x)
  PROVE  CbInv'
<1>1. /\ cbTruth' = [cbTruth EXCEPT ![x] = @ + 1]
      /\ UNCHANGED <<cbClock, cbRows, cbLast, cbRun, cbBest, cbTwo, cbSlow>>
  BY DEF Restate
<1>2. CbTyped
  BY DEF CbInv
<1>3. /\ cbTruth' \in [Charges -> Nat \ {0}]
      /\ \A r \in Charges : cbTruth[r] <= cbTruth'[r] /\ cbTruth[r] \in Nat /\ cbTruth'[r] \in Nat
  BY <1>1, <1>2 DEF CbTyped
<1>4. CbTyped'
  BY <1>1, <1>2, <1>3 DEF CbTyped
<1>5. \A r \in Charges : cbRows'[r] <= cbTruth'[r]
  <2> SUFFICES ASSUME NEW r \in Charges PROVE cbRows[r] <= cbTruth'[r]
    BY <1>1
  <2>1. cbRows[r] \in Nat /\ cbRows[r] <= cbTruth[r]
    BY <1>2 DEF CbInv, CbTyped
  <2> QED BY <1>3, <2>1
<1>6. ASSUME NEW d \in Syncs PROVE Fetched(cbRun[d])' /\ Upserted(cbRun[d])'
  <2>1. Fetched(cbRun[d]) /\ Upserted(cbRun[d]) /\ cbRun[d] \in SyncStates
    BY <1>2 DEF CbInv, CbTyped
  <2>2. ASSUME cbRun[d].at = "fetch", NEW g \in cbRun[d].got PROVE g.version <= cbTruth'[g.id]
    <3>1. g.id \in Charges /\ g.version \in Nat
      BY <2>1, <2>2 DEF SyncStates, NoSync
    <3>2. g.version <= cbTruth[g.id]
      BY <2>1, <2>2 DEF Fetched
    <3> QED BY <1>3, <3>1, <3>2
  <2> QED BY <1>1, <2>1, <2>2 DEF Fetched, Upserted, Covers
<1>7. BillingSound' /\ (~cbTwo' => \A c, d \in Syncs : cbRun'[c] # NoSync /\ cbRun'[d] # NoSync => c = d)
  BY <1>1 DEF CbInv, BillingSound, NoChargeIsSkipped, OnlyOverlapRegresses
<1> QED BY <1>4, <1>5, <1>6, <1>7 DEF CbInv

LEMMA CbKeeps == CbInv /\ [CbNext]_cbVars => CbInv'
<1> SUFFICES ASSUME CbInv, [CbNext]_cbVars PROVE CbInv'
  OBVIOUS
<1>1. ASSUME UNCHANGED <<cbTruth, cbRows, cbLast, cbRun, cbBest, cbTwo, cbSlow>>, cbClock' \in Nat
      PROVE  CbInv'
  <2>1. CbTyped'
    BY <1>1 DEF CbInv, CbTyped
  <2>2. BillingSound'
    BY <1>1 DEF CbInv, BillingSound, NoChargeIsSkipped, OnlyOverlapRegresses
  <2>3. \A c \in Syncs : Fetched(cbRun[c])' /\ Upserted(cbRun[c])'
    BY <1>1 DEF CbInv, Fetched, Upserted, Covers
  <2> QED BY <1>1, <2>1, <2>2, <2>3 DEF CbInv
<1>2. CASE UNCHANGED cbVars
  BY <1>1, <1>2 DEF cbVars, CbInv, CbTyped
<1>3. CASE CbTick
  BY <1>1, <1>3 DEF CbTick, CbInv, CbTyped
<1>4. CASE CbNext
  BY <1>3, <1>4, SyncBegins, ConnectorFetches, SyncFails, SyncUpserts, SyncFinishes, ProviderRestates
     DEF CbNext, ScheduledSync, ManualSync
<1> QED BY <1>2, <1>4

\* No charge up to the last synchronisation is missing and no amount goes back,
\* but for the cases named, with any number of syncs, connectors and charges.
THEOREM BillingKept == CbSpec => []BillingSound
<1>1. CbInv => BillingSound
  BY DEF CbInv
<1> QED BY <1>1, CbStarts, CbKeeps, PTL DEF CbSpec

-----------------------------------------------------------------------------
(* Skills                                                                  *)

SkInv == SkTypeOK /\ RegistriesAgree /\ HistoryIsKept

\* Skills agree but for their errors when they have the same other contents.
LEMMA AgreeButForErrors ==
  ASSUME NEW s \in InstalledSkills, NEW t \in InstalledSkills
  PROVE  [s EXCEPT !.error = None] = [t EXCEPT !.error = None]
         <=> s.version = t.version /\ s.status = t.status /\ s.config = t.config
<1> DEFINE u == [s EXCEPT !.error = None]
           v == [t EXCEPT !.error = None]
<1>1. u = [version |-> s.version, status |-> s.status, config |-> s.config, error |-> None]
  BY DEF InstalledSkills
<1>2. v = [version |-> t.version, status |-> t.status, config |-> t.config, error |-> None]
  BY DEF InstalledSkills
<1> HIDE DEF u, v
<1>3. u = v <=> s.version = t.version /\ s.status = t.status /\ s.config = t.config
  <2>1. ASSUME u = v PROVE s.version = t.version /\ s.status = t.status /\ s.config = t.config
    <3>1. u.version = v.version /\ u.status = v.status /\ u.config = v.config
      BY <2>1
    <3> QED BY <1>1, <1>2, <3>1
  <2> QED BY <1>1, <1>2, <2>1
<1> QED BY <1>3 DEF u, v

\* One call gives a skill the same state in both registries.
LEMMA RegistryStep ==
  ASSUME SkInv, NEW n \in SkillNames,
         NEW s \in InstalledSkills \cup {None}, NEW t \in InstalledSkills \cup {None},
         skMemory' = [skMemory EXCEPT ![n] = s], skTable' = [skTable EXCEPT ![n] = t],
         skLeft' \in SUBSET SkillNames, skLeft \ {n} \subseteq skLeft', UNCHANGED historyVars,
         s # None <=> t # None,
         s # None => /\ s.version = t.version /\ s.status = t.status /\ s.config = t.config
                     /\ s.error # t.error => n \in skLeft'
  PROVE  SkInv'
<1>1. /\ skMemory \in [SkillNames -> InstalledSkills \cup {None}]
      /\ skTable \in [SkillNames -> InstalledSkills \cup {None}]
      /\ UNCHANGED <<skEvents, skGone, skClock>>
  BY DEF SkInv, SkTypeOK, historyVars
<1>2. /\ skMemory' \in [SkillNames -> InstalledSkills \cup {None}]
      /\ skTable' \in [SkillNames -> InstalledSkills \cup {None}]
      /\ \A m \in SkillNames : /\ skMemory'[m] = IF m = n THEN s ELSE skMemory[m]
                               /\ skTable'[m] = IF m = n THEN t ELSE skTable[m]
  BY <1>1
<1>3. SkTypeOK'
  BY <1>1, <1>2 DEF SkInv, SkTypeOK
<1>4. HistoryIsKept'
  BY <1>1 DEF SkInv, HistoryIsKept
<1>5. Here(skMemory)' = Here(skTable)'
  <2>1. \A m \in SkillNames : skMemory[m] # None <=> skTable[m] # None
    BY DEF SkInv, RegistriesAgree, Here
  <2> QED BY <1>2, <2>1 DEF Here
<1>6. ASSUME NEW m \in SkillNames, skTable'[m] # None
      PROVE  /\ [skMemory'[m] EXCEPT !.error = None] = [skTable'[m] EXCEPT !.error = None]
             /\ skMemory'[m].error # skTable'[m].error => m \in skLeft'
  <2>1. CASE m = n
    <3>1. skMemory'[m] = s /\ skTable'[m] = t /\ s \in InstalledSkills /\ t \in InstalledSkills
      BY <1>2, <1>6, <2>1
    <3> QED BY <2>1, <3>1, AgreeButForErrors
  <2>2. CASE m # n
    <3>1. skMemory'[m] = skMemory[m] /\ skTable'[m] = skTable[m] /\ m \in Here(skTable)
      BY <1>2, <1>6, <2>2 DEF Here
    <3>2. /\ [skMemory[m] EXCEPT !.error = None] = [skTable[m] EXCEPT !.error = None]
          /\ skMemory[m].error # skTable[m].error => m \in skLeft
      BY <3>1 DEF SkInv, RegistriesAgree
    <3> QED BY <2>2, <3>1, <3>2
  <2> QED BY <2>1, <2>2
<1> QED BY <1>3, <1>4, <1>5, <1>6 DEF SkInv, RegistriesAgree, Here

\* An installed skill is in both registries, alike.
LEMMA InBoth ==
  ASSUME SkInv, NEW n \in SkillNames, skMemory[n] # None
  PROVE  /\ skMemory[n] \in InstalledSkills /\ skTable[n] \in InstalledSkills /\ skTable[n] # None
         /\ skMemory[n].version = skTable[n].version /\ skMemory[n].status = skTable[n].status
         /\ skMemory[n].config = skTable[n].config
         /\ skMemory[n].error # skTable[n].error => n \in skLeft
<1>1. n \in Here(skMemory) /\ n \in Here(skTable)
  BY DEF Here, SkInv, RegistriesAgree
<1>2. skMemory[n] \in InstalledSkills /\ skTable[n] \in InstalledSkills /\ skTable[n] # None
  BY <1>1 DEF Here, SkInv, SkTypeOK
<1> QED BY <1>1, <1>2, AgreeButForErrors DEF SkInv, RegistriesAgree

LEMMA RegistriesKept ==
  ASSUME SkInv, RegistryNext
  PROVE  SkInv'
<1> USE SkillNamesAssumption
<1>1. PICK n \in SkillNames :
        \/ \E v \in SkillVersionsUsed, s \in InstallStatus, e \in SkillErrors \cup {None} : Install(n, v, s, e)
        \/ \E v \in SkillVersionsUsed : skMemory[n] # None /\ UpdateVersion(n, v)
        \/ \E s \in {"installed", "disabled"} : skMemory[n] # None /\ SetEnabled(n, s)
        \/ \E s \in InstallStatus, e \in SkillErrors \cup {None} : skMemory[n] # None /\ SetStatus(n, s, e)
        \/ \E c \in SkillConfigs : skMemory[n] # None /\ SetConfig(n, c)
        \/ Uninstall(n)
  BY DEF RegistryNext
<1>2. UNCHANGED historyVars /\ skLeft \in SUBSET SkillNames
  BY DEF RegistryNext, SkInv, SkTypeOK
<1>3. ASSUME NEW v \in SkillVersionsUsed, NEW st \in InstallStatus, NEW e \in SkillErrors \cup {None},
             Install(n, v, st, e)
      PROVE  SkInv'
  <2> DEFINE s == [version |-> v, status |-> st, config |-> None, error |-> e]
             t == [s EXCEPT !.error = None]
  <2>1. /\ skMemory' = [skMemory EXCEPT ![n] = s] /\ skTable' = [skTable EXCEPT ![n] = t]
        /\ skLeft' = IF e = None THEN skLeft \ {n} ELSE skLeft \cup {n}
    BY <1>3 DEF Install
  <2>2. /\ s \in InstalledSkills /\ s.version = v /\ s.status = st /\ s.config = None /\ s.error = e
        /\ t \in InstalledSkills /\ t.version = v /\ t.status = st /\ t.config = None /\ t.error = None
    BY DEF InstalledSkills
  <2>3. skLeft' \in SUBSET SkillNames /\ skLeft \ {n} \subseteq skLeft' /\ (e # None => n \in skLeft')
    BY <1>2, <2>1
  <2> HIDE DEF s, t
  <2> QED BY <1>2, <2>1, <2>2, <2>3, RegistryStep
<1>4. ASSUME skMemory[n] # None,
             NEW s \in InstalledSkills, NEW t \in InstalledSkills,
             skMemory' = Altered(skMemory, n, s), skTable' = Altered(skTable, n, t),
             skLeft' \in SUBSET SkillNames, skLeft \ {n} \subseteq skLeft',
             s.version = t.version /\ s.status = t.status /\ s.config = t.config,
             s.error # t.error => n \in skLeft'
      PROVE  SkInv'
  <2>1. skMemory' = [skMemory EXCEPT ![n] = s] /\ skTable' = [skTable EXCEPT ![n] = t]
    BY <1>4, InBoth DEF Altered
  <2>2. s # None /\ t # None
    OBVIOUS
  <2> QED BY <1>2, <1>4, <2>1, <2>2, RegistryStep
<1>5. ASSUME NEW v \in SkillVersionsUsed, skMemory[n] # None, UpdateVersion(n, v) PROVE SkInv'
  <2> DEFINE s == [skMemory[n] EXCEPT !.version = v]
             t == [skTable[n] EXCEPT !.version = v]
  <2>1. /\ s \in InstalledSkills /\ s.version = v /\ s.status = skMemory[n].status
        /\ s.config = skMemory[n].config /\ s.error = skMemory[n].error
    BY <1>5, InBoth DEF InstalledSkills
  <2>2. /\ t \in InstalledSkills /\ t.version = v /\ t.status = skTable[n].status
        /\ t.config = skTable[n].config /\ t.error = skTable[n].error
    BY <1>5, InBoth DEF InstalledSkills
  <2>3. skMemory' = Altered(skMemory, n, s) /\ skTable' = Altered(skTable, n, t) /\ skLeft' = skLeft
    BY <1>5 DEF UpdateVersion
  <2> HIDE DEF s, t
  <2> QED BY <1>2, <1>4, <1>5, <2>1, <2>2, <2>3, InBoth
<1>6. ASSUME NEW st \in {"installed", "disabled"}, skMemory[n] # None, SetEnabled(n, st) PROVE SkInv'
  <2> DEFINE s == [skMemory[n] EXCEPT !.status = st]
             t == [skTable[n] EXCEPT !.status = st, !.error = None]
  <2>1. /\ s \in InstalledSkills /\ s.version = skMemory[n].version /\ s.status = st
        /\ s.config = skMemory[n].config /\ s.error = skMemory[n].error
    BY <1>6, InBoth DEF InstalledSkills, InstallStatus
  <2>2. /\ t \in InstalledSkills /\ t.version = skTable[n].version /\ t.status = st
        /\ t.config = skTable[n].config /\ t.error = None
    BY <1>6, InBoth DEF InstalledSkills, InstallStatus
  <2>3. /\ skMemory' = Altered(skMemory, n, s) /\ skTable' = Altered(skTable, n, t)
        /\ skLeft' = IF skMemory[n] # None /\ skMemory[n].error # None THEN skLeft \cup {n} ELSE skLeft
    BY <1>6 DEF SetEnabled
  <2>4. skLeft' \in SUBSET SkillNames /\ skLeft \ {n} \subseteq skLeft'
        /\ (skMemory[n].error # None => n \in skLeft')
    BY <1>2, <1>6, <2>3
  <2> HIDE DEF s, t
  <2> QED BY <1>4, <1>6, <2>1, <2>2, <2>3, <2>4, InBoth
<1>7. ASSUME NEW st \in InstallStatus, NEW e \in SkillErrors \cup {None}, skMemory[n] # None,
             SetStatus(n, st, e)
      PROVE  SkInv'
  <2> DEFINE s == [skMemory[n] EXCEPT !.status = st, !.error = e]
             t == [skTable[n] EXCEPT !.status = st, !.error = e]
  <2>1. /\ s \in InstalledSkills /\ s.version = skMemory[n].version /\ s.status = st
        /\ s.config = skMemory[n].config /\ s.error = e
    BY <1>7, InBoth DEF InstalledSkills
  <2>2. /\ t \in InstalledSkills /\ t.version = skTable[n].version /\ t.status = st
        /\ t.config = skTable[n].config /\ t.error = e
    BY <1>7, InBoth DEF InstalledSkills
  <2>3. /\ skMemory' = Altered(skMemory, n, s) /\ skTable' = Altered(skTable, n, t)
        /\ skLeft' = skLeft \ {n}
    BY <1>7 DEF SetStatus
  <2>4. skLeft' \in SUBSET SkillNames
    BY <1>2, <2>3
  <2> HIDE DEF s, t
  <2> QED BY <1>4, <1>7, <2>1, <2>2, <2>3, <2>4, InBoth
<1>8. ASSUME NEW c \in SkillConfigs, skMemory[n] # None, SetConfig(n, c) PROVE SkInv'
  <2> DEFINE s == [skMemory[n] EXCEPT !.config = c]
             t == [skTable[n] EXCEPT !.config = c]
  <2>1. /\ s \in InstalledSkills /\ s.version = skMemory[n].version /\ s.status = skMemory[n].status
        /\ s.config = c /\ s.error = skMemory[n].error
    BY <1>8, InBoth DEF InstalledSkills
  <2>2. /\ t \in InstalledSkills /\ t.version = skTable[n].version /\ t.status = skTable[n].status
        /\ t.config = c /\ t.error = skTable[n].error
    BY <1>8, InBoth DEF InstalledSkills
  <2>3. skMemory' = Altered(skMemory, n, s) /\ skTable' = Altered(skTable, n, t) /\ skLeft' = skLeft
    BY <1>8 DEF SetConfig
  <2> HIDE DEF s, t
  <2> QED BY <1>2, <1>4, <1>8, <2>1, <2>2, <2>3, InBoth
<1>9. ASSUME Uninstall(n) PROVE SkInv'
  <2>1. /\ skMemory' = [skMemory EXCEPT ![n] = None] /\ skTable' = [skTable EXCEPT ![n] = None]
        /\ skLeft' = skLeft \ {n}
    BY <1>9 DEF Uninstall
  <2>2. skLeft' \in SUBSET SkillNames
    BY <1>2, <2>1
  <2> QED BY <1>2, <2>1, <2>2, RegistryStep
<1> QED BY <1>1, <1>3, <1>5, <1>6, <1>7, <1>8, <1>9

LEMMA HistoryStep ==
  ASSUME SkInv, HistoryNext
  PROVE  SkInv'
<1> USE SkillAssumption
<1>1. UNCHANGED <<skMemory, skTable, skLeft>> /\ skClock \in 0..SkMaxTime
  BY DEF HistoryNext, registryVars, SkInv, SkTypeOK
<1>2. RegistriesAgree'
  BY <1>1 DEF SkInv, RegistriesAgree, Here
<1>3. CASE SkTick
  BY <1>1, <1>2, <1>3 DEF SkTick, SkInv, SkTypeOK, HistoryIsKept
<1>4. ASSUME NEW at \in 0..skClock, RecordEvent(at) PROVE SkInv'
  BY <1>1, <1>2, <1>4 DEF RecordEvent, SkInv, SkTypeOK, HistoryIsKept
<1>5. ASSUME NEW before \in 0..(SkMaxTime + 1), PruneHistory(before) PROVE SkInv'
  <2> DEFINE limit == IF before < Cutoff THEN before ELSE Cutoff
             old == {e \in skEvents : e.at < limit}
             pruned == {[event |-> e, at |-> skClock] : e \in old}
  <2>1. skEvents' = skEvents \ old /\ skGone' = skGone \cup pruned /\ skClock' = skClock
    BY <1>5 DEF PruneHistory
  <2>2. Cutoff = skClock - SkRetention /\ Cutoff \in Int
    BY <1>1 DEF Cutoff
  <2>3. limit \in Int /\ limit <= Cutoff
    BY <2>2
  <2>4. \A e \in old : e \in skEvents /\ e.at \in Nat /\ e.at < limit
    BY DEF SkInv, SkTypeOK
  <2> HIDE DEF limit, old
  <2>5. ASSUME NEW g \in pruned PROVE g.at = skClock /\ g.event.at < g.at - SkRetention
    <3>1. PICK e \in old : g = [event |-> e, at |-> skClock]
      OBVIOUS
    <3>2. e.at < skClock - SkRetention
      BY <2>2, <2>3, <2>4
    <3> QED BY <3>1, <3>2
  <2> HIDE DEF pruned
  <2>6. HistoryIsKept'
    BY <2>1, <2>5 DEF SkInv, HistoryIsKept
  <2>7. SkTypeOK'
    BY <1>1, <2>1, <2>5 DEF SkInv, SkTypeOK
  <2> QED BY <1>2, <2>6, <2>7 DEF SkInv
<1> QED BY <1>3, <1>4, <1>5 DEF HistoryNext

LEMMA SkStarts == SkInit => SkInv
<1> SUFFICES ASSUME SkInit PROVE SkInv
  OBVIOUS
<1> QED BY SkillAssumption DEF SkInit, NotInstalled, SkInv, SkTypeOK, RegistriesAgree, HistoryIsKept, Here

LEMMA SkKeeps == SkInv /\ [SkNext]_skVars => SkInv'
<1>1. ASSUME SkInv, UNCHANGED skVars PROVE SkInv'
  BY <1>1 DEF skVars, SkInv, SkTypeOK, RegistriesAgree, HistoryIsKept, Here
<1> QED BY <1>1, RegistriesKept, HistoryStep DEF SkNext

\* An id that ends in a name after a slash ends in the name.
LEMMA SuffixShrinks ==
  ASSUME NEW S, NEW part \in S, NEW id \in Seq(S), NEW suffix \in Seq(S), EndsWithName(id, <<part>> \o suffix)
  PROVE  EndsWithName(id, suffix)
<1> DEFINE l == Len(suffix)
           m == Len(id)
           long == <<part>> \o suffix
           slash == <<part>>
<1>1. /\ l \in Nat /\ m \in Nat /\ long \in Seq(S) /\ Len(long) = l + 1
      /\ \A i \in 1..l : long[i + 1] = suffix[i]
  <2>1. slash \in Seq(S) /\ Len(slash) = 1
    OBVIOUS
  <2>2. l \in Nat /\ m \in Nat
    OBVIOUS
  <2> HIDE DEF slash
  <2>3. slash \o suffix \in Seq(S) /\ Len(slash \o suffix) = 1 + l
    BY <2>1, ConcatProperties
  <2>4. ASSUME NEW i \in 1..l PROVE (slash \o suffix)[i + 1] = suffix[i]
    <3>1. i + 1 \in 1..(Len(slash) + Len(suffix)) /\ i + 1 > Len(slash) /\ i + 1 - Len(slash) = i
      BY <2>1, <2>2
    <3>2. \A j \in 1..(Len(slash) + Len(suffix)) :
            (slash \o suffix)[j] = IF j <= Len(slash) THEN slash[j] ELSE suffix[j - Len(slash)]
      BY <2>1, ConcatProperties
    <3>3. (slash \o suffix)[i + 1]
            = IF i + 1 <= Len(slash) THEN slash[i + 1] ELSE suffix[i + 1 - Len(slash)]
      BY <3>1, <3>2
    <3>4. ~(i + 1 <= Len(slash))
      BY <2>1, <2>2
    <3> QED BY <3>1, <3>3, <3>4
  <2>5. long = slash \o suffix
    BY DEF slash
  <2> QED BY <2>1, <2>2, <2>3, <2>4, <2>5
<1>2. l + 1 <= m /\ SubSeq(id, m - (l + 1) + 1, m) = long
  BY <1>1 DEF EndsWithName
<1>3. SubSeq(id, m - l, m) = long
  <2>1. m - (l + 1) + 1 = m - l
    BY <1>1
  <2> QED BY <1>2, <2>1
<1>4. \A i \in 1..(l + 1) : long[i] = id[m - l + i - 1]
  <2>1. m - l \in 1..m
    BY <1>1, <1>2
  <2> QED BY <1>1, <1>3, <2>1
<1> DEFINE tail == SubSeq(id, m - l + 1, m)
<1>5. /\ tail \in Seq(S) /\ Len(tail) = l /\ \A i \in 1..l : tail[i] = id[m - l + i]
  BY <1>1, <1>2
<1> HIDE DEF tail, long, l, m
<1>6. \A i \in 1..l : tail[i] = suffix[i]
  <2> SUFFICES ASSUME NEW i \in 1..l PROVE tail[i] = suffix[i]
    OBVIOUS
  <2>1. i + 1 \in 1..(l + 1)
    BY <1>1
  <2>2. long[i + 1] = id[m - l + (i + 1) - 1]
    BY <1>4, <2>1
  <2>3. m - l + (i + 1) - 1 = m - l + i
    BY <1>1
  <2> QED BY <1>1, <1>5, <2>2, <2>3
<1>7. tail = suffix
  BY <1>1, <1>5, <1>6 DEF l
<1> QED BY <1>1, <1>2, <1>7 DEF EndsWithName, tail, l, m

\* What both registries list and find.
LEMMA QueriesFollow == ASSUME SkInv PROVE QueriesAgree
<1> USE SkillNamesAssumption
<1>1. \A n \in SkillNames : n \in Here(skMemory) <=> n \in Here(skTable)
  BY DEF SkInv, RegistriesAgree
<1>2. \A n \in Here(skMemory) : /\ n \in SkillNames /\ skMemory[n].status = skTable[n].status
                                /\ skMemory[n].version = skTable[n].version
  BY InBoth DEF Here
<1>3. ASSUME NEW all \in BOOLEAN PROVE ListInMemory(None, all) = ListTable(all)
  BY <1>1, <1>2 DEF ListInMemory, ListTable, Here
<1>4. ASSUME NEW all \in BOOLEAN, NEW st \in InstallStatus
      PROVE  ListInMemory(st, all) \subseteq ListTable(all)
  BY <1>1, <1>2 DEF ListInMemory, ListTable, Here
<1>5. ListInMemory("disabled", FALSE) = {}
  <2>1. "disabled" # None
    BY DEF InstallStatus
  <2> QED BY <2>1 DEF ListInMemory
<1>6. ASSUME NEW id \in SkillIds, NEW v \in SkillVersionsUsed
      PROVE  FindInTable(id, v) \subseteq FindInMemory(id, v)
  <2> SUFFICES ASSUME NEW n \in FindInTable(id, v) PROVE n \in FindInMemory(id, v)
    OBVIOUS
  <2>1. /\ n \in Here(skTable) /\ skTable[n].version >= v
        /\ n.id = id \/ EndsWithName(n.id, <<"/">> \o id)
    BY DEF FindInTable
  <2>2. n \in SkillNames /\ n.id \in Seq(STRING) /\ id \in Seq(STRING)
    BY <2>1 DEF Here
  <2>3. n \in Here(skMemory) /\ skMemory[n].version >= v
    BY <1>1, <1>2, <2>1, <2>2
  <2>4. EndsWithName(n.id, id)
    <3>1. CASE n.id = id
      <4>1. Len(id) - Len(id) + 1 = 1 /\ Len(id) \in Nat
        BY <2>2
      <4>2. SubSeq(id, 1, Len(id)) = id
        BY <2>2
      <4> QED BY <3>1, <4>1, <4>2 DEF EndsWithName
    <3>2. CASE EndsWithName(n.id, <<"/">> \o id)
      <4> DEFINE Parts == STRING \cup {"/"}
      <4>1. n.id \in Seq(Parts) /\ id \in Seq(Parts)
        BY <2>2, SeqMonotonic
      <4>2. "/" \in Parts
        OBVIOUS
      <4> HIDE DEF Parts
      <4> QED BY <3>2, <4>1, <4>2, SuffixShrinks
    <3> QED BY <2>1, <3>1, <3>2
  <2> QED BY <2>3, <2>4 DEF FindInMemory
<1> QED BY <1>3, <1>4, <1>5, <1>6 DEF QueriesAgree

THEOREM SkillsTypeCorrect == SkSpec => []SkTypeOK
<1>1. SkInv => SkTypeOK
  BY DEF SkInv
<1> QED BY <1>1, SkStarts, SkKeeps, PTL DEF SkSpec

\* The registries agree after any calls, and no event younger than the
\* retention is pruned.
THEOREM SkillsKept == SkSpec => []SkillsSound
<1>1. SkInv => SkillsSound
  BY QueriesFollow DEF SkInv, SkillsSound
<1> QED BY <1>1, SkStarts, SkKeeps, PTL DEF SkSpec

-----------------------------------------------------------------------------

\* What is stored of usage and billing is what was collected and charged, and
\* the registries of skills agree: each in any behaviour of its component.
THEOREM RecordsKept == UsSpec /\ CbSpec /\ SkSpec => []RecordsSound
<1>1. UsageSound /\ BillingSound /\ SkillsSound => RecordsSound
  BY DEF RecordsSound
<1> QED BY <1>1, UsageKept, BillingKept, SkillsKept, PTL
============================================================================
