----------------------- MODULE CacheAndMigrations_proofs -----------------------
(***************************************************************************)
(* Proofs about TieredCache, for any keys, sizes, times and number of      *)
(* loads, and about Migrations, for any calls, versions and databases.     *)
(***************************************************************************)
EXTENDS TieredCache, Migrations, FiniteSetTheorems, SequenceTheorems, WellFoundedInduction, TLAPS

-----------------------------------------------------------------------------
(* Induction, for a set instead of a predicate: a least counterexample.    *)

LEMMA NatLeast ==
  ASSUME NEW T \in SUBSET Nat, T # {}
  PROVE  \E x \in T : \A y \in T : ~(y < x)
<1> DEFINE R == OpToRel(<, Nat)
<1>1. IsWellFoundedOn(R, Nat)
  BY NatLessThanWellFounded
<1>2. \A x, y \in Nat : <<x, y>> \in R <=> x < y
  BY DEF OpToRel
<1> HIDE DEF R
<1>3. \E x \in T : \A y \in T : ~(<<y, x>> \in R)
  BY <1>1, WFMin
<1> QED BY <1>2, <1>3

LEMMA Induction ==
  ASSUME NEW T \in SUBSET Nat, 0 \in T, \A n \in T : n + 1 \in T
  PROVE  T = Nat
<1> SUFFICES ASSUME T # Nat PROVE FALSE
  OBVIOUS
<1>1. PICK x \in Nat \ T : \A y \in Nat \ T : ~(y < x)
  BY NatLeast
<1>2. x - 1 \in Nat /\ x - 1 \in T
  BY <1>1
<1> QED BY <1>1, <1>2

-----------------------------------------------------------------------------
(* Migrations: first the tables and the versions left to run *)

LEMMA LeastIs ==
  ASSUME NEW P \in SUBSET Registered, P # {}
  PROVE  Least(P) \in P /\ \A w \in P : Least(P) <= w
<1>1. P \in SUBSET Nat
  BY DEF Registered
<1>2. \E x \in P : \A y \in P : ~(y < x)
  BY <1>1, NatLeast
<1>3. \E x \in P : \A y \in P : x <= y
  BY <1>1, <1>2
<1> QED BY <1>3 DEF Least

LEMMA GreatestIs ==
  ASSUME NEW P \in SUBSET Registered, P # {}
  PROVE  \E v \in P : \A w \in P : w <= v
<1> DEFINE T == {MigrationVersions - v : v \in P}
<1>0. \A v \in P : v \in 1..MigrationVersions
  BY DEF Registered
<1>1. T \in SUBSET Nat /\ T # {}
  BY <1>0, MigrationAssumption
<1>2. PICK x \in T : \A y \in T : ~(y < x)
  BY <1>1, NatLeast
<1>3. PICK v \in P : x = MigrationVersions - v
  BY <1>2
<1>4. \A w \in P : ~(MigrationVersions - w < MigrationVersions - v)
  BY <1>2, <1>3
<1>5. \A w \in P : w <= v
  BY <1>0, <1>4, MigrationAssumption
<1> QED BY <1>5

Versions(rows) == {rows[i] : i \in DOMAIN rows}
RecordedOnce(rows) == \A i, j \in DOMAIN rows : rows[i] = rows[j] => i = j
InOrder(rows) == \A i, j \in DOMAIN rows : i < j => rows[i] < rows[j]
Closed(table) == \A v \in table, u \in Registered : u < v => u \in table

LEMMA TableIs == InTable = Versions(mgRows)
BY DEF InTable, Range, Versions

LEMMA OneRecorded ==
  ASSUME NEW rows \in Seq(Registered), NEW v \in Registered
  PROVE  /\ Append(rows, v) \in Seq(Registered) /\ Append(rows, v) # <<>>
         /\ Versions(Append(rows, v)) = Versions(rows) \cup {v}
         /\ RecordedOnce(rows) /\ v \notin Versions(rows) => RecordedOnce(Append(rows, v))
         /\ InOrder(rows) /\ (\A w \in Versions(rows) : w < v) => InOrder(Append(rows, v))
<1> DEFINE s == Append(rows, v)
<1>1. /\ s \in Seq(Registered) /\ Len(s) = Len(rows) + 1 /\ Len(rows) \in Nat
      /\ DOMAIN rows = 1..Len(rows) /\ DOMAIN s = 1..(Len(rows) + 1)
      /\ s[Len(rows) + 1] = v /\ \A i \in 1..Len(rows) : s[i] = rows[i]
  OBVIOUS
<1> HIDE DEF s
<1>2. Versions(s) = Versions(rows) \cup {v}
  BY <1>1 DEF Versions
<1>3. ASSUME RecordedOnce(rows), v \notin Versions(rows) PROVE RecordedOnce(s)
  BY <1>1, <1>3 DEF RecordedOnce, Versions
<1>4. ASSUME InOrder(rows), \A w \in Versions(rows) : w < v PROVE InOrder(s)
  <2> SUFFICES ASSUME NEW i \in DOMAIN s, NEW j \in DOMAIN s, i < j PROVE s[i] < s[j]
    BY DEF InOrder
  <2>1. CASE j \in 1..Len(rows)
    BY <1>1, <1>4, <2>1 DEF InOrder
  <2>2. CASE j = Len(rows) + 1
    <3>1. i \in DOMAIN rows /\ s[i] = rows[i] /\ s[j] = v
      BY <1>1, <2>2
    <3> QED BY <1>4, <3>1 DEF Versions
  <2> QED BY <1>1, <2>1, <2>2
<1>5. s # <<>>
  BY <1>1
<1> QED BY <1>1, <1>2, <1>3, <1>4, <1>5 DEF s

LEMMA UnrecordedIs ==
  ASSUME NEW rows \in Seq(Registered), RecordedOnce(rows), NEW v \in Registered
  PROVE  /\ Unrecorded(rows, v) \in Seq(Registered)
         /\ Versions(Unrecorded(rows, v)) = Versions(rows) \ {v}
         /\ RecordedOnce(Unrecorded(rows, v))
         /\ InOrder(rows) => InOrder(Unrecorded(rows, v))
<1>1. CASE ~\E i \in DOMAIN rows : rows[i] = v
  BY <1>1 DEF Unrecorded, Versions
<1>2. CASE \E i \in DOMAIN rows : rows[i] = v
  <2> DEFINE n == CHOOSE i \in DOMAIN rows : rows[i] = v
             a == SubSeq(rows, 1, n - 1)
             b == SubSeq(rows, n + 1, Len(rows))
             s == a \o b
  <2>1. n \in 1..Len(rows) /\ rows[n] = v /\ Len(rows) \in Nat /\ DOMAIN rows = 1..Len(rows)
    BY <1>2
  <2>2. Unrecorded(rows, v) = s
    BY <1>2 DEF Unrecorded, RemoveAt
  <2> HIDE DEF n
  <2>3. /\ a \in Seq(Registered) /\ Len(a) = n - 1
        /\ \A i \in 1..(n - 1) : a[i] = rows[i]
    BY <2>1, SubSeqProperties
  <2>4. /\ b \in Seq(Registered) /\ Len(b) = Len(rows) - n
        /\ \A i \in 1..(Len(rows) - n) : b[i] = rows[n + i]
    <3>1. \A i \in (n + 1)..Len(rows) : rows[i] \in Registered
      BY <2>1
    <3>2. /\ b \in Seq(Registered)
          /\ Len(b) = IF n + 1 <= Len(rows) THEN Len(rows) - (n + 1) + 1 ELSE 0
          /\ \A i \in 1..(Len(rows) - (n + 1) + 1) : b[i] = rows[(n + 1) + i - 1]
      BY <2>1, <3>1, SubSeqProperties
    <3>3. Len(b) = Len(rows) - n /\ Len(rows) - (n + 1) + 1 = Len(rows) - n
      <4> HIDE DEF b
      <4>1. n \in Int /\ Len(rows) \in Int /\ n <= Len(rows)
        BY <2>1
      <4>2. Len(b) = IF n + 1 <= Len(rows) THEN Len(rows) - (n + 1) + 1 ELSE 0
        BY <3>2
      <4> QED BY <4>1, <4>2
    <3>4. \A i \in 1..(Len(rows) - n) : b[i] = rows[n + i]
      <4> TAKE i \in 1..(Len(rows) - n)
      <4>1. (n + 1) + i - 1 = n + i
        BY <2>1
      <4> HIDE DEF b
      <4>2. b[i] = rows[(n + 1) + i - 1]
        BY <3>2, <3>3
      <4> QED BY <4>1, <4>2
    <3> QED BY <3>2, <3>3, <3>4
  <2> HIDE DEF a, b
  <2>5. /\ s \in Seq(Registered) /\ Len(s) = Len(rows) - 1 /\ DOMAIN s = 1..(Len(rows) - 1)
        /\ \A i \in 1..(Len(rows) - 1) : s[i] = IF i < n THEN rows[i] ELSE rows[i + 1]
    <3>0. /\ s \in Seq(Registered) /\ Len(s) = Len(a) + Len(b)
          /\ \A i \in 1..(Len(a) + Len(b)) : s[i] = IF i <= Len(a) THEN a[i] ELSE b[i - Len(a)]
      BY <2>3, <2>4, ConcatProperties
    <3> HIDE DEF s
    <3>1. \A i \in 1..(Len(rows) - 1) : s[i] = IF i <= n - 1 THEN a[i] ELSE b[i - (n - 1)]
      <4>1. (n - 1) + (Len(rows) - n) = Len(rows) - 1
        BY <2>1
      <4> QED BY <2>3, <2>4, <3>0, <4>1
    <3>2. Len(s) = Len(rows) - 1 /\ DOMAIN s = 1..(Len(rows) - 1)
      BY <2>1, <2>3, <2>4, <3>0
    <3>3. ASSUME NEW i \in 1..(Len(rows) - 1) PROVE s[i] = IF i < n THEN rows[i] ELSE rows[i + 1]
      <4>1. CASE i < n
        BY <2>1, <2>3, <3>1, <4>1
      <4>2. CASE ~(i < n)
        <5>1. s[i] = b[i - (n - 1)] /\ i - (n - 1) \in 1..(Len(rows) - n)
          BY <2>1, <3>1, <4>2
        <5>2. n + (i - (n - 1)) = i + 1
          BY <2>1
        <5>3. b[i - (n - 1)] = rows[n + (i - (n - 1))]
          BY <2>4, <5>1
        <5> QED BY <4>2, <5>1, <5>2, <5>3
      <4> QED BY <4>1, <4>2
    <3> QED BY <3>0, <3>2, <3>3
  <2> HIDE DEF s
  <2>6. Versions(s) = Versions(rows) \ {v}
    <3>1. ASSUME NEW w \in Versions(s) PROVE w \in Versions(rows) \ {v}
      <4>1. PICK i \in 1..(Len(rows) - 1) : w = s[i]
        BY <2>5 DEF Versions
      <4>2. w = rows[IF i < n THEN i ELSE i + 1] /\ (IF i < n THEN i ELSE i + 1) \in DOMAIN rows \ {n}
        BY <2>1, <2>5, <4>1
      <4> QED BY <2>1, <4>2 DEF Versions, RecordedOnce
    <3>2. ASSUME NEW w \in Versions(rows) \ {v} PROVE w \in Versions(s)
      <4>1. PICK i \in 1..Len(rows) : w = rows[i]
        BY <2>1 DEF Versions
      <4>2. i # n
        BY <2>1, <4>1
      <4>3. w = s[IF i < n THEN i ELSE i - 1] /\ (IF i < n THEN i ELSE i - 1) \in DOMAIN s
        BY <2>1, <2>5, <4>1, <4>2
      <4> QED BY <4>3 DEF Versions
    <3> QED BY <3>1, <3>2
  <2>7. RecordedOnce(s)
    <3> SUFFICES ASSUME NEW i \in DOMAIN s, NEW j \in DOMAIN s, s[i] = s[j] PROVE i = j
      BY DEF RecordedOnce
    <3> DEFINE at(k) == IF k < n THEN k ELSE k + 1
    <3>1. at(i) \in DOMAIN rows /\ at(j) \in DOMAIN rows /\ s[i] = rows[at(i)] /\ s[j] = rows[at(j)]
      BY <2>1, <2>5
    <3>2. at(i) = at(j)
      BY <3>1 DEF RecordedOnce
    <3> QED BY <2>1, <2>5, <3>2
  <2>8. ASSUME InOrder(rows) PROVE InOrder(s)
    <3> SUFFICES ASSUME NEW i \in DOMAIN s, NEW j \in DOMAIN s, i < j PROVE s[i] < s[j]
      BY DEF InOrder
    <3>1. /\ (IF i < n THEN i ELSE i + 1) \in DOMAIN rows /\ (IF j < n THEN j ELSE j + 1) \in DOMAIN rows
          /\ (IF i < n THEN i ELSE i + 1) < (IF j < n THEN j ELSE j + 1)
      BY <2>1, <2>5
    <3>2. /\ s[i] = rows[IF i < n THEN i ELSE i + 1]
          /\ s[j] = rows[IF j < n THEN j ELSE j + 1]
      BY <2>1, <2>5
    <3> QED BY <2>8, <3>1, <3>2 DEF InOrder
  <2> QED BY <2>2, <2>5, <2>6, <2>7, <2>8
<1> QED BY <1>1, <1>2

MgCalls == {MgIdle} \cup [does : {"getPending"}, disturbed : BOOLEAN]
  \cup [does : {"migrate"}, disturbed : BOOLEAN, applied : SUBSET Registered,
        pending : SUBSET Registered, ran : BOOLEAN]
  \cup [does : {"failed"}, applied : SUBSET Registered, pending : SUBSET Registered]
  \cup [does : {"succeeded"}, rows : SUBSET Registered, disturbed : BOOLEAN]
  \cup [does : {"rollback"}, version : Registered, latest : Registered]
  \cup [does : {"rolledBack", "rollbackFailed"}]

\* All that is to be done was done, is pending, or took effect by another call.
Accounted(k, up) == /\ \A v \in k.applied, w \in k.pending : v < w
                    /\ \A v \in Registered : v \in k.applied \cup k.pending \/ up[v] > 0

\* What a call k knows, against the recorded versions and the history.
CallSound(k, table, up, shared, crossed) ==
  /\ k.does \in {"migrate", "failed"} => Accounted(k, up)
  /\ k.does = "migrate" =>
       /\ k.ran => k.pending # {} /\ up[Least(k.pending)] > 0
       /\ ~k.disturbed => Registered \ k.pending \subseteq table
  /\ k.does = "succeeded" /\ ~k.disturbed => k.rows = Registered
  /\ mgDb = "sql" /\ k.does = "rollback" /\ k.version \notin shared => k.version \in table
  /\ mgDb = "sql" /\ ~crossed /\ k.does = "rollback" =>
       k.version = k.latest /\ \A w \in table : w <= k.version
  /\ mgDb = "sql" /\ ~crossed /\ Migrates(k) => ~k.disturbed

MgTyped == /\ mgCrossed \in BOOLEAN /\ mgDb \in {"sql", "memory"}
           /\ mgRows \in Seq(Registered)
           /\ mgUp \in [Registered -> Nat] /\ mgDown \in [Registered -> Nat]
           /\ mgCalls \in 0..MaxMigrations
           /\ mgCall \in [Migrators -> MgCalls]

MgInv == /\ MgTyped
         /\ \A v \in InTable : mgUp[v] > 0
         /\ \A c \in Migrators : CallSound(mgCall[c], InTable, mgUp, mgShared, mgCrossed)
         /\ mgDb = "sql" => RecordedOnce(mgRows)
         /\ mgDb = "sql" => \A c, d \in Migrators :
              /\ c # d /\ MgDoes(c, "rollback") /\ MgDoes(d, "rollback")
              /\ mgCall[c].version = mgCall[d].version
              => mgCall[c].version \in mgShared
         /\ SchemaIsRecorded
         /\ mgDb = "sql" /\ ~mgCrossed => InOrder(mgRows) /\ Closed(InTable)

LEMMA CallFields ==
  ASSUME NEW k \in MgCalls
  PROVE  /\ k.does = "migrate" => /\ k.applied \in SUBSET Registered /\ k.pending \in SUBSET Registered
                                  /\ k.ran \in BOOLEAN /\ k.disturbed \in BOOLEAN
         /\ k.does = "failed" => k.applied \in SUBSET Registered /\ k.pending \in SUBSET Registered
         /\ k.does = "succeeded" => k.rows \in SUBSET Registered /\ k.disturbed \in BOOLEAN
         /\ k.does = "getPending" => k.disturbed \in BOOLEAN
         /\ k.does = "rollback" => k.version \in Registered /\ k.latest \in Registered
BY DEF MgCalls, MgIdle

LEMMA DisturbedIs ==
  ASSUME NEW k \in MgCalls
  PROVE  /\ Disturbed(k) \in MgCalls /\ Disturbed(k).does = k.does
         /\ Migrates(k) => Disturbed(k).disturbed
         /\ ~Migrates(k) => Disturbed(k) = k
         /\ k.does = "migrate" => /\ Disturbed(k).applied = k.applied /\ Disturbed(k).ran = k.ran
                                  /\ Disturbed(k).pending = k.pending
<1>1. CASE ~Migrates(k)
  BY <1>1 DEF Disturbed, Migrates
<1>2. CASE k.does = "getPending"
  <2>1. k \in [does : {"getPending"}, disturbed : BOOLEAN]
    BY <1>2 DEF MgCalls, MgIdle
  <2>2. Disturbed(k) = [does |-> "getPending", disturbed |-> TRUE]
    BY <1>2, <2>1 DEF Disturbed, Migrates
  <2>3. Disturbed(k) \in MgCalls
    BY <2>2 DEF MgCalls
  <2> QED BY <1>2, <2>2, <2>3 DEF Migrates
<1>3. CASE k.does = "succeeded"
  <2>1. k \in [does : {"succeeded"}, rows : SUBSET Registered, disturbed : BOOLEAN]
    BY <1>3 DEF MgCalls, MgIdle
  <2>2. Disturbed(k) = [does |-> "succeeded", rows |-> k.rows, disturbed |-> TRUE]
    BY <1>3, <2>1 DEF Disturbed, Migrates
  <2>3. k.rows \in SUBSET Registered
    BY <2>1
  <2>4. Disturbed(k) \in [does : {"succeeded"}, rows : SUBSET Registered, disturbed : BOOLEAN]
    BY <2>2, <2>3
  <2>5. Disturbed(k) \in MgCalls
    BY <2>4 DEF MgCalls
  <2> QED BY <1>3, <2>2, <2>5 DEF Migrates
<1>4. CASE k.does = "migrate"
  <2>1. k \in [does : {"migrate"}, disturbed : BOOLEAN, applied : SUBSET Registered,
               pending : SUBSET Registered, ran : BOOLEAN]
    BY <1>4 DEF MgCalls, MgIdle
  <2>2. Disturbed(k) = [does |-> "migrate", disturbed |-> TRUE, applied |-> k.applied,
                        pending |-> k.pending, ran |-> k.ran]
    BY <1>4, <2>1 DEF Disturbed, Migrates
  <2>3. k.applied \in SUBSET Registered /\ k.pending \in SUBSET Registered /\ k.ran \in BOOLEAN
    BY <2>1
  <2>4. Disturbed(k) \in [does : {"migrate"}, disturbed : BOOLEAN, applied : SUBSET Registered,
                          pending : SUBSET Registered, ran : BOOLEAN]
    BY <2>2, <2>3
  <2>5. Disturbed(k) \in MgCalls
    BY <2>4 DEF MgCalls
  <2> QED BY <1>4, <2>2, <2>5 DEF Migrates
<1> QED BY <1>1, <1>2, <1>3, <1>4 DEF Migrates

\* A call that is not the one that takes the step.
LEMMA StaysSound ==
  ASSUME NEW k \in MgCalls, NEW j, j = k \/ j = Disturbed(k),
         CallSound(k, InTable, mgUp, mgShared, mgCrossed),
         \A v \in Registered : mgUp[v] > 0 => mgUp'[v] > 0,
         mgShared \subseteq mgShared', mgCrossed => mgCrossed',
         InTable \subseteq InTable' \/ j = Disturbed(k),
         mgDb = "sql" /\ k.does = "rollback" =>
           /\ k.version \in InTable => k.version \in InTable' \cup mgShared'
           /\ ~mgCrossed' => InTable' \subseteq InTable,
         mgDb = "sql" /\ ~mgCrossed' /\ Migrates(k) => j = k
  PROVE  j \in MgCalls /\ CallSound(j, InTable', mgUp', mgShared', mgCrossed')
<1>1. j \in MgCalls /\ j.does = k.does
  BY DisturbedIs
<1>2. k.does \in {"migrate", "failed"} =>
        /\ j.applied = k.applied /\ j.pending = k.pending
        /\ k.applied \in SUBSET Registered /\ k.pending \in SUBSET Registered
  BY DisturbedIs, CallFields DEF Migrates
<1>3. Accounted(k, mgUp) /\ k.does \in {"migrate", "failed"} => Accounted(j, mgUp')
  BY <1>2 DEF Accounted
<1>4. k.does = "migrate" /\ j.ran => j.pending # {} /\ mgUp'[Least(j.pending)] > 0
  <2> SUFFICES ASSUME k.does = "migrate", j.ran PROVE j.pending # {} /\ mgUp'[Least(j.pending)] > 0
    OBVIOUS
  <2>1. k.ran
    BY DisturbedIs
  <2>2. k.pending # {} /\ mgUp[Least(k.pending)] > 0
    BY <2>1 DEF CallSound
  <2>3. Least(k.pending) \in Registered
    BY <1>2, <2>2, LeastIs
  <2> QED BY <1>2, <2>2, <2>3
<1>5. Migrates(k) /\ ~j.disturbed => j = k /\ InTable \subseteq InTable'
  BY DisturbedIs
<1>6. k.does = "rollback" => j = k
  BY DisturbedIs DEF Migrates
<1>7. k.does = "migrate" /\ ~j.disturbed => Registered \ j.pending \subseteq InTable'
  BY <1>5 DEF CallSound, Migrates
<1>8. k.does = "succeeded" /\ ~j.disturbed => j.rows = Registered
  BY <1>5 DEF CallSound, Migrates
<1>9. mgDb = "sql" /\ k.does = "rollback" =>
        /\ k.version \notin mgShared' => k.version \in InTable'
        /\ ~mgCrossed' => k.version = k.latest /\ \A w \in InTable' : w <= k.version
  BY DEF CallSound
<1>10. mgDb = "sql" /\ ~mgCrossed' /\ Migrates(k) => ~j.disturbed
  BY DEF CallSound
<1> QED BY <1>1, <1>3, <1>4, <1>6, <1>7, <1>8, <1>9, <1>10 DEF CallSound, Migrates

LEMMA MgInitInv == MgInit => MgInv
<1> SUFFICES ASSUME MgInit PROVE MgInv
  OBVIOUS
<1>1. InTable = {} /\ mgRows = <<>> /\ \A c \in Migrators : mgCall[c] = MgIdle
  BY DEF MgInit, InTable, Range
<1>2. MgTyped
  <2>1. mgDb \in {"sql", "memory"} /\ mgCalls \in 0..MaxMigrations /\ mgCrossed \in BOOLEAN
    <3>1. mgDb \in Databases /\ Databases \subseteq {"sql", "memory"}
      BY MigrationAssumption DEF MgInit
    <3>2. mgCalls = 0 /\ mgCrossed = FALSE /\ MaxMigrations \in Nat
      BY MigrationAssumption DEF MgInit
    <3>3. mgCalls \in 0..MaxMigrations
      BY <3>2
    <3> QED BY <3>1, <3>2, <3>3
  <2>2. mgUp \in [Registered -> Nat] /\ mgDown \in [Registered -> Nat]
    BY DEF MgInit
  <2>3. mgCall \in [Migrators -> MgCalls]
    BY DEF MgInit, MgCalls
  <2> QED BY <1>1, <2>1, <2>2, <2>3 DEF MgTyped
<1>3. \A c \in Migrators : CallSound(mgCall[c], InTable, mgUp, mgShared, mgCrossed)
  BY <1>1 DEF CallSound, MgIdle, Migrates
<1>4. SchemaIsRecorded
  BY <1>1 DEF SchemaIsRecorded, MgInit
<1>5. \A c \in Migrators : ~MgDoes(c, "rollback")
  BY <1>1 DEF MgDoes, MgIdle
<1> QED BY <1>1, <1>2, <1>3, <1>4, <1>5 DEF MgInv, RecordedOnce, InOrder, Closed

LEMMA StepKeeps ==
  ASSUME MgInv, NEW c \in Migrators, NEW j \in MgCalls, mgDb' = mgDb,
         mgCall' = [d \in Migrators |-> mgCall'[d]], mgCall'[c] = j,
         \A d \in Migrators \ {c} : mgCall'[d] = mgCall[d] \/ mgCall'[d] = Disturbed(mgCall[d]),
         mgRows' \in Seq(Registered), mgCalls' \in 0..MaxMigrations, mgCrossed' \in BOOLEAN,
         mgUp' \in [Registered -> Nat], mgDown' \in [Registered -> Nat],
         CallSound(j, InTable', mgUp', mgShared', mgCrossed'),
         \A v \in Registered : mgUp[v] > 0 => mgUp'[v] > 0,
         mgShared \subseteq mgShared', mgCrossed => mgCrossed',
         \/ InTable \subseteq InTable'
         \/ \A d \in Migrators \ {c} : mgCall'[d] = Disturbed(mgCall[d]),
         \A d \in Migrators \ {c} : mgDb = "sql" /\ MgDoes(d, "rollback") =>
           /\ mgCall[d].version \in InTable => mgCall[d].version \in InTable' \cup mgShared'
           /\ ~mgCrossed' => InTable' \subseteq InTable,
         \A d \in Migrators \ {c} : mgDb = "sql" /\ ~mgCrossed' /\ Migrates(mgCall[d]) =>
           mgCall'[d] = mgCall[d],
         \A v \in InTable' : mgUp'[v] > 0,
         mgDb = "sql" => RecordedOnce(mgRows'),
         mgDb = "sql" /\ j.does = "rollback" => \A d \in Migrators \ {c} :
           MgDoes(d, "rollback") /\ mgCall[d].version = j.version => j.version \in mgShared',
         SchemaIsRecorded',
         mgDb = "sql" /\ ~mgCrossed' => InOrder(mgRows') /\ Closed(InTable')
  PROVE  MgInv'
<1>1. ASSUME NEW d \in Migrators
      PROVE  mgCall'[d] \in MgCalls /\ CallSound(mgCall'[d], InTable', mgUp', mgShared', mgCrossed')
  <2>1. CASE d = c
    BY <2>1
  <2>2. CASE d # c
    <3>1. /\ mgCall[d] \in MgCalls /\ mgCrossed \in BOOLEAN
          /\ CallSound(mgCall[d], InTable, mgUp, mgShared, mgCrossed)
      BY DEF MgInv, MgTyped
    <3> DEFINE k == mgCall[d]
               j2 == mgCall'[d]
    <3>2. j2 = k \/ j2 = Disturbed(k)
      BY <2>2
    <3>3. InTable \subseteq InTable' \/ j2 = Disturbed(k)
      BY <2>2
    <3>4. mgDb = "sql" /\ k.does = "rollback" =>
            /\ k.version \in InTable => k.version \in InTable' \cup mgShared'
            /\ ~mgCrossed' => InTable' \subseteq InTable
      BY <2>2 DEF MgDoes
    <3>5. mgDb = "sql" /\ ~mgCrossed' /\ Migrates(k) => j2 = k
      BY <2>2
    <3>6. k \in MgCalls /\ mgCrossed \in BOOLEAN /\ CallSound(k, InTable, mgUp, mgShared, mgCrossed)
      BY <3>1
    <3> HIDE DEF k, j2
    <3>7. j2 \in MgCalls /\ CallSound(j2, InTable', mgUp', mgShared', mgCrossed')
      BY <3>2, <3>3, <3>4, <3>5, <3>6, StaysSound
    <3> QED BY <3>7 DEF j2
  <2> QED BY <2>1, <2>2
<1>2. MgTyped'
  BY <1>1 DEF MgInv, MgTyped
<1>3. ASSUME NEW d \in Migrators, d # c
      PROVE  mgCall'[d].does = mgCall[d].does /\ (MgDoes(d, "rollback") => mgCall'[d] = mgCall[d])
  <2>1. mgCall[d] \in MgCalls
    BY DEF MgInv, MgTyped
  <2> QED BY <1>3, <2>1, DisturbedIs DEF MgDoes, Migrates
<1>4. ASSUME mgDb = "sql", NEW a \in Migrators, NEW b \in Migrators, a # b,
             mgCall'[a].does = "rollback", mgCall'[b].does = "rollback",
             mgCall'[a].version = mgCall'[b].version
      PROVE  mgCall'[a].version \in mgShared'
  <2>1. \A d \in {a, b} \ {c} : mgCall[d].does = "rollback" /\ mgCall'[d] = mgCall[d]
    BY <1>3, <1>4 DEF MgDoes
  <2>2. CASE a = c
    <3>1. b \in Migrators \ {c} /\ MgDoes(b, "rollback") /\ mgCall[b].version = j.version
      BY <1>4, <2>1, <2>2 DEF MgDoes
    <3> QED BY <1>4, <2>2, <3>1
  <2>3. CASE b = c
    <3>1. a \in Migrators \ {c} /\ MgDoes(a, "rollback") /\ mgCall[a].version = j.version
      BY <1>4, <2>1, <2>3 DEF MgDoes
    <3> QED BY <1>4, <2>3, <3>1
  <2>4. CASE a # c /\ b # c
    <3>1. MgDoes(a, "rollback") /\ MgDoes(b, "rollback") /\ mgCall[a].version = mgCall[b].version
      BY <1>4, <2>1, <2>4 DEF MgDoes
    <3>2. mgCall[a].version \in mgShared
      BY <1>4, <3>1 DEF MgInv
    <3> QED BY <2>1, <2>4, <3>2
  <2> QED BY <2>2, <2>3, <2>4
<1>5. \A d \in Migrators : CallSound(mgCall[d], InTable, mgUp, mgShared, mgCrossed)'
  BY <1>1 DEF CallSound
<1> QED BY <1>2, <1>4, <1>5 DEF MgInv, MgDoes

\* Only the call's own state moves.
LEMMA CallMoves ==
  ASSUME MgInv, NEW c \in Migrators, NEW j \in MgCalls, MgGoto(c, j), j.does # "rollback",
         UNCHANGED <<mgDb, mgRows, mgUp, mgDown, mgCalls, mgShared, mgCrossed>>,
         CallSound(j, InTable, mgUp, mgShared, mgCrossed)
  PROVE  MgInv'
<1>1. InTable' = InTable
  BY DEF InTable
<1>2. SchemaIsRecorded'
  BY <1>1 DEF MgInv, SchemaIsRecorded
<1>3. /\ mgCall' = [d \in Migrators |-> mgCall'[d]] /\ mgCall'[c] = j
      /\ \A d \in Migrators \ {c} : mgCall'[d] = mgCall[d]
  BY DEF MgGoto, MgInv, MgTyped
<1>4. CallSound(j, InTable', mgUp', mgShared', mgCrossed')
  BY <1>1
<1>5. /\ mgRows' \in Seq(Registered) /\ mgCalls' \in 0..MaxMigrations /\ mgCrossed' \in BOOLEAN
      /\ mgUp' \in [Registered -> Nat] /\ mgDown' \in [Registered -> Nat]
      /\ mgDb = "sql" => RecordedOnce(mgRows')
      /\ \A v \in InTable' : mgUp'[v] > 0
      /\ mgDb = "sql" /\ ~mgCrossed' => InOrder(mgRows') /\ Closed(InTable')
  BY <1>1 DEF MgInv, MgTyped
<1> QED BY <1>1, <1>2, <1>3, <1>4, <1>5, StepKeeps

LEMMA GetPendingKeeps ==
  ASSUME MgInv, NEW c \in Migrators, GetPending(c) PROVE MgInv'
<1> DEFINE k == mgCall[c]
           j == [does |-> "migrate", disturbed |-> k.disturbed, applied |-> {},
                 pending |-> Registered \ InTable, ran |-> FALSE]
<1>1. /\ k.does = "getPending" /\ MgGoto(c, j)
      /\ UNCHANGED <<mgDb, mgRows, mgUp, mgDown, mgCalls, mgShared, mgCrossed>>
  BY DEF GetPending, MgDoes
<1>2. k \in MgCalls /\ CallSound(k, InTable, mgUp, mgShared, mgCrossed)
  BY DEF MgInv, MgTyped
<1>3. k.disturbed \in BOOLEAN
  BY <1>1, <1>2, CallFields
<1>4. /\ j.does = "migrate" /\ j.disturbed = k.disturbed /\ j.applied = {} /\ j.ran = FALSE
      /\ j.pending = Registered \ InTable
  OBVIOUS
<1>5. j \in MgCalls
  <2>1. Registered \ InTable \in SUBSET Registered
    OBVIOUS
  <2>2. j \in [does : {"migrate"}, disturbed : BOOLEAN, applied : SUBSET Registered,
               pending : SUBSET Registered, ran : BOOLEAN]
    BY <1>3, <2>1
  <2> QED BY <2>2 DEF MgCalls
<1> HIDE DEF j
<1>6. CallSound(j, InTable, mgUp, mgShared, mgCrossed)
  <2>1. \A v \in InTable : mgUp[v] > 0
    BY DEF MgInv
  <2>2. Accounted(j, mgUp)
    BY <1>4, <2>1 DEF Accounted
  <2> QED BY <1>1, <1>2, <1>4, <2>2 DEF CallSound, Migrates
<1> QED BY <1>1, <1>4, <1>5, <1>6, CallMoves

LEMMA EndKeeps ==
  ASSUME MgInv, NEW c \in Migrators,
         MigrateFails(c) \/ MigrateSucceeds(c) \/ RollbackFails(c) \/ MgForget(c)
  PROVE  MgInv'
<1> DEFINE k == mgCall[c]
<1>1. k \in MgCalls /\ CallSound(k, InTable, mgUp, mgShared, mgCrossed)
  BY DEF MgInv, MgTyped
<1>2. CASE MigrateFails(c)
  <2> DEFINE j == [does |-> "failed", applied |-> k.applied, pending |-> k.pending]
  <2>1. /\ k.does = "migrate" /\ MgGoto(c, j)
        /\ UNCHANGED <<mgDb, mgRows, mgUp, mgDown, mgCalls, mgShared, mgCrossed>>
    BY <1>2 DEF MigrateFails, HasPending, MgDoes
  <2>2. k.applied \in SUBSET Registered /\ k.pending \in SUBSET Registered
    BY <1>1, <2>1, CallFields
  <2>3. j \in MgCalls
    BY <2>2 DEF MgCalls
  <2>4. j.does = "failed" /\ j.applied = k.applied /\ j.pending = k.pending
    OBVIOUS
  <2> HIDE DEF j, k
  <2>5. Accounted(j, mgUp)
    BY <1>1, <2>1, <2>4 DEF CallSound, Accounted
  <2>6. CallSound(j, InTable, mgUp, mgShared, mgCrossed)
    BY <2>4, <2>5 DEF CallSound, Migrates
  <2> QED BY <2>1, <2>3, <2>4, <2>6, CallMoves
<1>3. CASE MigrateSucceeds(c)
  <2> DEFINE j == [does |-> "succeeded", rows |-> InTable, disturbed |-> k.disturbed]
  <2>1. /\ k.does = "migrate" /\ k.pending = {} /\ MgGoto(c, j)
        /\ UNCHANGED <<mgDb, mgRows, mgUp, mgDown, mgCalls, mgShared, mgCrossed>>
    BY <1>3 DEF MigrateSucceeds, MgDoes
  <2>2. k.disturbed \in BOOLEAN
    BY <1>1, <2>1, CallFields
  <2>3. InTable \in SUBSET Registered
    BY DEF MgInv, MgTyped, InTable, Range
  <2>4. j \in MgCalls
    BY <2>2, <2>3 DEF MgCalls
  <2>5. j.does = "succeeded" /\ j.rows = InTable /\ j.disturbed = k.disturbed
    OBVIOUS
  <2> HIDE DEF j, k
  <2>6. ~k.disturbed => InTable = Registered
    BY <1>1, <2>1, <2>3 DEF CallSound
  <2>7. CallSound(j, InTable, mgUp, mgShared, mgCrossed)
    BY <1>1, <2>1, <2>5, <2>6 DEF CallSound, Migrates
  <2> QED BY <2>1, <2>4, <2>5, <2>7, CallMoves
<1>4. CASE RollbackFails(c) \/ MgForget(c)
  <2>1. PICK j \in {[does |-> "rollbackFailed"], MgIdle} :
          /\ MgGoto(c, j)
          /\ UNCHANGED <<mgDb, mgRows, mgUp, mgDown, mgCalls, mgShared, mgCrossed>>
    BY <1>4 DEF RollbackFails, MgForget
  <2>2. j \in MgCalls /\ j.does \in {"rollbackFailed", "nothing"}
    BY DEF MgCalls, MgIdle
  <2>3. CallSound(j, InTable, mgUp, mgShared, mgCrossed)
    BY <2>2 DEF CallSound, Migrates
  <2> QED BY <2>1, <2>2, <2>3, CallMoves
<1> QED BY <1>2, <1>3, <1>4

LEMMA InitTableKeeps ==
  ASSUME MgInv, NEW c \in Migrators, InitTable(c) PROVE MgInv'
<1> DEFINE j == [does |-> "getPending", disturbed |-> FALSE]
<1>1. /\ mgCalls < MaxMigrations /\ mgCalls' = mgCalls + 1
      /\ mgRows' = IF mgDb = "memory" THEN <<>> ELSE mgRows
      /\ mgCall' = [d \in Migrators |-> IF d = c THEN j
                                        ELSE IF mgDb = "memory" THEN Disturbed(mgCall[d]) ELSE mgCall[d]]
      /\ UNCHANGED <<mgDb, mgUp, mgDown, mgShared, mgCrossed>>
  BY DEF InitTable
<1>2. j \in MgCalls /\ j.does = "getPending" /\ j.disturbed = FALSE
  BY DEF MgCalls
<1> HIDE DEF j
<1>3. mgDb \in {"sql", "memory"} /\ mgCalls' \in 0..MaxMigrations
  BY <1>1, MigrationAssumption DEF MgInv, MgTyped
<1>4. CASE mgDb = "sql"
  <2>1. mgRows' = mgRows /\ InTable' = InTable
    BY <1>1, <1>4 DEF InTable
  <2>2. SchemaIsRecorded'
    BY <1>1, <2>1 DEF MgInv, SchemaIsRecorded
  <2>3. /\ mgCall' = [d \in Migrators |-> mgCall'[d]] /\ mgCall'[c] = j
        /\ \A d \in Migrators \ {c} : mgCall'[d] = mgCall[d]
    BY <1>1, <1>4
  <2>4. CallSound(j, InTable', mgUp', mgShared', mgCrossed')
    BY <1>2 DEF CallSound, Migrates
  <2>5. /\ mgRows' \in Seq(Registered) /\ mgCrossed' \in BOOLEAN
        /\ mgUp' \in [Registered -> Nat] /\ mgDown' \in [Registered -> Nat]
        /\ mgDb = "sql" => RecordedOnce(mgRows')
        /\ \A v \in InTable' : mgUp'[v] > 0
        /\ mgDb = "sql" /\ ~mgCrossed' => InOrder(mgRows') /\ Closed(InTable')
    BY <1>1, <2>1 DEF MgInv, MgTyped
  <2> QED BY <1>1, <1>2, <1>3, <2>1, <2>2, <2>3, <2>4, <2>5, StepKeeps
<1>5. CASE mgDb = "memory"
  <2>1. mgRows' = <<>> /\ InTable' = {}
    BY <1>1, <1>5 DEF InTable, Range
  <2>2. SchemaIsRecorded'
    BY <1>1, <1>5 DEF SchemaIsRecorded
  <2>3. /\ mgCall' = [d \in Migrators |-> mgCall'[d]] /\ mgCall'[c] = j
        /\ \A d \in Migrators \ {c} : mgCall'[d] = Disturbed(mgCall[d])
    BY <1>1, <1>5
  <2>4. CallSound(j, InTable', mgUp', mgShared', mgCrossed')
    BY <1>2 DEF CallSound, Migrates
  <2>5. /\ mgRows' \in Seq(Registered) /\ mgCrossed' \in BOOLEAN
        /\ mgUp' \in [Registered -> Nat] /\ mgDown' \in [Registered -> Nat]
    BY <1>1, <2>1 DEF MgInv, MgTyped
  <2> QED BY <1>1, <1>2, <1>3, <1>5, <2>1, <2>2, <2>3, <2>4, <2>5, StepKeeps
<1> QED BY <1>3, <1>4, <1>5

LEMMA RunUpKeeps ==
  ASSUME MgInv, NEW c \in Migrators, RunUp(c) PROVE MgInv'
<1> DEFINE k == mgCall[c]
           j == [k EXCEPT !.ran = TRUE]
           v == Least(k.pending)
<1>1. /\ k.does = "migrate" /\ k.pending # {} /\ mgDb = "memory"
      /\ mgUp' = [mgUp EXCEPT ![v] = @ + 1] /\ mgCall' = [mgCall EXCEPT ![c] = j]
      /\ UNCHANGED <<mgDb, mgRows, mgDown, mgCalls, mgShared, mgCrossed>>
  BY DEF RunUp, HasPending, MgDoes, MgGoto, NextPending
<1>2. k \in MgCalls /\ CallSound(k, InTable, mgUp, mgShared, mgCrossed)
  BY DEF MgInv, MgTyped
<1>3. k \in [does : {"migrate"}, disturbed : BOOLEAN, applied : SUBSET Registered,
             pending : SUBSET Registered, ran : BOOLEAN]
  BY <1>1, <1>2 DEF MgCalls, MgIdle
<1>4. j = [does |-> "migrate", disturbed |-> k.disturbed, applied |-> k.applied,
           pending |-> k.pending, ran |-> TRUE]
  <2>1. j = [k EXCEPT !.ran = TRUE]
    OBVIOUS
  <2> HIDE DEF k, v, j
  <2> QED BY <1>3, <2>1
<1>5. /\ j.does = "migrate" /\ j.disturbed = k.disturbed /\ j.applied = k.applied
      /\ j.pending = k.pending /\ j.ran = TRUE
  BY <1>4
<1>6. j \in MgCalls
  BY <1>3, <1>4 DEF MgCalls
<1>7. mgCall' = [d \in Migrators |-> mgCall'[d]] /\ mgCall'[c] = j
      /\ \A d \in Migrators \ {c} : mgCall'[d] = mgCall[d]
  BY <1>1 DEF MgInv, MgTyped
<1>8. v \in Registered
  <2>1. k.pending \in SUBSET Registered
    BY <1>3
  <2> HIDE DEF k
  <2> QED BY <1>1, <2>1, LeastIs
<1> HIDE DEF j, k
<1>9. /\ mgUp' \in [Registered -> Nat] /\ mgUp'[v] > 0
      /\ \A w \in Registered : mgUp[w] > 0 => mgUp'[w] > 0
  <2>1. mgUp \in [Registered -> Nat]
    BY DEF MgInv, MgTyped
  <2> HIDE DEF v
  <2> QED BY <1>1, <1>8, <2>1
<1>10. InTable' = InTable /\ InTable \subseteq Registered
  BY <1>1 DEF InTable, MgInv, MgTyped, Range
<1>11. CallSound(j, InTable', mgUp', mgShared', mgCrossed')
  <2>1. Accounted(j, mgUp')
    BY <1>1, <1>2, <1>5, <1>9 DEF CallSound, Accounted
  <2> QED BY <1>1, <1>2, <1>5, <1>9, <1>10, <2>1 DEF CallSound, Migrates
<1>12. SchemaIsRecorded'
  BY <1>1 DEF SchemaIsRecorded
<1>13. /\ mgRows' \in Seq(Registered) /\ mgCalls' \in 0..MaxMigrations /\ mgCrossed' \in BOOLEAN
       /\ mgDown' \in [Registered -> Nat] /\ \A w \in InTable' : mgUp'[w] > 0
  BY <1>1, <1>9, <1>10 DEF MgInv, MgTyped
<1> QED BY <1>1, <1>5, <1>6, <1>7, <1>9, <1>10, <1>11, <1>12, <1>13, StepKeeps

\* The next version is applied and recorded, in one step or two.
LEMMA AppliedIs ==
  ASSUME MgInv, NEW c \in Migrators, HasPending(c)
  PROVE  LET k == mgCall[c]
             j == AppliedOne(c)
             v == NextPending(c)
         IN  /\ j \in MgCalls /\ j.does = "migrate" /\ j.disturbed = k.disturbed /\ ~j.ran
             /\ j.applied = k.applied \cup {v} /\ j.pending = k.pending \ {v}
             /\ v \in Registered /\ v \in k.pending /\ \A w \in k.pending : v <= w
             /\ k.applied \in SUBSET Registered /\ k.pending \in SUBSET Registered
             /\ k.does = "migrate" /\ k.pending # {} /\ k.ran \in BOOLEAN /\ k.disturbed \in BOOLEAN
             /\ CallSound(k, InTable, mgUp, mgShared, mgCrossed)
<1> DEFINE k == mgCall[c]
           j == AppliedOne(c)
           v == NextPending(c)
<1>1. k.does = "migrate" /\ k.pending # {}
  BY DEF HasPending, MgDoes
<1>2. k \in MgCalls /\ CallSound(k, InTable, mgUp, mgShared, mgCrossed)
  BY DEF MgInv, MgTyped
<1>3. k \in [does : {"migrate"}, disturbed : BOOLEAN, applied : SUBSET Registered,
             pending : SUBSET Registered, ran : BOOLEAN]
  BY <1>1, <1>2 DEF MgCalls, MgIdle
<1>4. k.pending \in SUBSET Registered /\ k.applied \in SUBSET Registered /\ k.disturbed \in BOOLEAN
      /\ k.ran \in BOOLEAN
  BY <1>3
<1>5. v \in k.pending /\ \A w \in k.pending : v <= w
  BY <1>1, <1>4, LeastIs DEF NextPending
<1>6. j = [does |-> "migrate", disturbed |-> k.disturbed, applied |-> k.applied \cup {v},
           pending |-> k.pending \ {v}, ran |-> FALSE]
  <2>1. j = [k EXCEPT !.pending = @ \ {v}, !.applied = @ \cup {v}, !.ran = FALSE]
    BY DEF AppliedOne
  <2> HIDE DEF k, v, j
  <2> QED BY <1>3, <2>1
<1> HIDE DEF k, v, j
<1>7. k.pending \ {v} \in SUBSET Registered /\ k.applied \cup {v} \in SUBSET Registered
  BY <1>4, <1>5
<1>8. j \in [does : {"migrate"}, disturbed : BOOLEAN, applied : SUBSET Registered,
             pending : SUBSET Registered, ran : BOOLEAN]
  BY <1>4, <1>6, <1>7
<1>9. j \in MgCalls
  BY <1>8 DEF MgCalls
<1> QED BY <1>1, <1>2, <1>4, <1>5, <1>6, <1>9 DEF k, j, v

LEMMA RecordUpKeeps ==
  ASSUME MgInv, NEW c \in Migrators, RecordUp(c) PROVE MgInv'
<1> DEFINE k == mgCall[c]
           j == AppliedOne(c)
           v == NextPending(c)
<1>1. /\ HasPending(c) /\ mgDb = "memory" /\ k.ran /\ mgRows' = Append(mgRows, v)
      /\ mgCall' = [mgCall EXCEPT ![c] = j]
      /\ UNCHANGED <<mgDb, mgUp, mgDown, mgCalls, mgShared, mgCrossed>>
  BY DEF RecordUp, MgGoto
<1>2. /\ j \in MgCalls /\ j.does = "migrate" /\ j.disturbed = k.disturbed /\ ~j.ran
      /\ j.applied = k.applied \cup {v} /\ j.pending = k.pending \ {v}
      /\ v \in Registered /\ v \in k.pending /\ \A w \in k.pending : v <= w
      /\ k.applied \in SUBSET Registered /\ k.pending \in SUBSET Registered
      /\ k.does = "migrate"
      /\ CallSound(k, InTable, mgUp, mgShared, mgCrossed)
  BY <1>1, AppliedIs
<1>3. mgUp[v] > 0
  BY <1>1, <1>2 DEF CallSound, NextPending
<1> HIDE DEF k, j, v
<1>4. mgRows' \in Seq(Registered) /\ InTable' = InTable \cup {v}
  <2>1. mgRows \in Seq(Registered)
    BY DEF MgInv, MgTyped
  <2>2. mgRows' \in Seq(Registered) /\ Versions(mgRows') = Versions(mgRows) \cup {v}
    BY <1>1, <1>2, <2>1, OneRecorded
  <2> QED BY <2>2, TableIs DEF InTable, Range, Versions
<1>5. mgCall' = [d \in Migrators |-> mgCall'[d]] /\ mgCall'[c] = j
      /\ \A d \in Migrators \ {c} : mgCall'[d] = mgCall[d]
  BY <1>1 DEF MgInv, MgTyped
<1>6. Accounted(j, mgUp)
  BY <1>2, <1>3 DEF CallSound, Accounted, Registered
<1>7. CallSound(j, InTable', mgUp', mgShared', mgCrossed')
  BY <1>1, <1>2, <1>4, <1>6 DEF CallSound, Migrates
<1>8. SchemaIsRecorded'
  BY <1>1 DEF SchemaIsRecorded
<1>9. /\ mgCalls' \in 0..MaxMigrations /\ mgCrossed' \in BOOLEAN
      /\ mgUp' \in [Registered -> Nat] /\ mgDown' \in [Registered -> Nat]
      /\ \A w \in InTable' : mgUp'[w] > 0
  BY <1>1, <1>3, <1>4 DEF MgInv, MgTyped
<1> QED BY <1>1, <1>2, <1>4, <1>5, <1>7, <1>8, <1>9, StepKeeps

LEMMA ApplyKeeps ==
  ASSUME MgInv, NEW c \in Migrators, ApplyMigration(c) PROVE MgInv'
<1> DEFINE k == mgCall[c]
           j == AppliedOne(c)
           v == NextPending(c)
<1>1. /\ HasPending(c) /\ mgDb = "sql" /\ v \notin InTable /\ mgRows' = Append(mgRows, v)
      /\ mgUp' = [mgUp EXCEPT ![v] = @ + 1] /\ mgCall' = [mgCall EXCEPT ![c] = j]
      /\ mgCrossed' = (mgCrossed \/ \E d \in Migrators : MgDoes(d, "rollback"))
      /\ UNCHANGED <<mgDb, mgDown, mgCalls, mgShared>>
  BY DEF ApplyMigration, MayRecord, MgGoto
<1>2. /\ j \in MgCalls /\ j.does = "migrate" /\ j.disturbed = k.disturbed /\ ~j.ran
      /\ j.applied = k.applied \cup {v} /\ j.pending = k.pending \ {v}
      /\ v \in Registered /\ v \in k.pending /\ \A w \in k.pending : v <= w
      /\ k.applied \in SUBSET Registered /\ k.pending \in SUBSET Registered
      /\ k.does = "migrate"
      /\ CallSound(k, InTable, mgUp, mgShared, mgCrossed)
  BY <1>1, AppliedIs
<1> HIDE DEF k, j, v
<1>3. /\ mgUp' \in [Registered -> Nat] /\ mgUp'[v] = mgUp[v] + 1 /\ mgUp'[v] > 0
      /\ \A w \in Registered : w # v => mgUp'[w] = mgUp[w]
      /\ \A w \in Registered : mgUp[w] > 0 => mgUp'[w] > 0
  BY <1>1, <1>2 DEF MgInv, MgTyped
<1>4. /\ mgRows \in Seq(Registered) /\ RecordedOnce(mgRows) /\ InTable = Versions(mgRows)
      /\ InTable \subseteq Registered
  BY <1>1, TableIs DEF MgInv, MgTyped, InTable, Range
<1>5. /\ mgRows' \in Seq(Registered) /\ Versions(mgRows') = Versions(mgRows) \cup {v}
      /\ RecordedOnce(mgRows')
      /\ InOrder(mgRows) /\ (\A w \in Versions(mgRows) : w < v) => InOrder(mgRows')
  BY <1>1, <1>2, <1>4, OneRecorded
<1>6. InTable' = InTable \cup {v}
  BY <1>4, <1>5 DEF InTable, Range, Versions
<1>7. mgCall' = [d \in Migrators |-> mgCall'[d]] /\ mgCall'[c] = j
      /\ \A d \in Migrators \ {c} : mgCall'[d] = mgCall[d]
  BY <1>1 DEF MgInv, MgTyped
<1>8. Accounted(j, mgUp')
  BY <1>2, <1>3 DEF CallSound, Accounted, Registered
<1>9. mgCrossed => mgCrossed'
  BY <1>1
<1>10. CallSound(j, InTable', mgUp', mgShared', mgCrossed')
  BY <1>1, <1>2, <1>6, <1>8, <1>9 DEF CallSound, Migrates
<1>11. SchemaIsRecorded'
  <2> SUFFICES ASSUME NEW w \in Registered \ mgShared
               PROVE  mgUp'[w] - mgDown[w] = IF w \in InTable' THEN 1 ELSE 0
    BY <1>1 DEF SchemaIsRecorded
  <2>1. mgUp[w] - mgDown[w] = IF w \in InTable THEN 1 ELSE 0
    BY <1>1 DEF MgInv, SchemaIsRecorded
  <2>2. mgUp \in [Registered -> Nat] /\ mgDown \in [Registered -> Nat]
    BY DEF MgInv, MgTyped
  <2> QED BY <1>1, <1>3, <1>6, <2>1, <2>2
<1>12. ASSUME ~mgCrossed' PROVE InOrder(mgRows') /\ Closed(InTable')
  <2>1. ~mgCrossed /\ InOrder(mgRows) /\ Closed(InTable) /\ ~k.disturbed
    BY <1>1, <1>2, <1>12 DEF MgInv, CallSound, Migrates
  <2>2. Registered \ k.pending \subseteq InTable
    BY <1>2, <2>1 DEF CallSound
  <2>3. \A u \in Registered : u < v => u \in InTable
    BY <1>2, <2>2 DEF Registered
  <2>4. \A w \in InTable : w < v
    <3> SUFFICES ASSUME NEW w \in InTable PROVE w < v
      OBVIOUS
    <3>1. w \in Registered /\ w # v /\ w \in Int /\ v \in Int
      BY <1>1, <1>2, <1>4 DEF Registered
    <3>2. ~(v < w)
      BY <1>1, <1>2, <2>1 DEF Closed
    <3> QED BY <3>1, <3>2
  <2>5. Closed(InTable')
    BY <1>6, <2>1, <2>3 DEF Closed
  <2> QED BY <1>4, <1>5, <2>1, <2>4, <2>5
<1>13. /\ mgCalls' \in 0..MaxMigrations /\ mgCrossed' \in BOOLEAN
       /\ mgDown' \in [Registered -> Nat] /\ \A w \in InTable' : mgUp'[w] > 0
  BY <1>1, <1>3, <1>6 DEF MgInv, MgTyped
<1>14. \A d \in Migrators : MgDoes(d, "rollback") => mgCrossed'
  BY <1>1
<1>15. InTable \subseteq InTable'
  BY <1>6
<1> QED BY <1>1, <1>2, <1>3, <1>5, <1>7, <1>9, <1>10, <1>11, <1>12, <1>13, <1>14, <1>15, StepKeeps

LEMMA ReadLastKeeps ==
  ASSUME MgInv, NEW c \in Migrators, ReadLast(c) PROVE MgInv'
<1> DEFINE v == LastApplied
           j == [does |-> "rollback", version |-> v, latest |-> Last(mgRows)]
<1>1. /\ mgCalls < MaxMigrations /\ mgCalls' = mgCalls + 1 /\ mgRows # <<>>
      /\ mgCall' = [mgCall EXCEPT ![c] = j]
      /\ mgShared' = IF RollingBack(v) = {} THEN mgShared ELSE mgShared \cup {v}
      /\ UNCHANGED <<mgDb, mgRows, mgUp, mgDown, mgCrossed>>
  BY DEF ReadLast, MgGoto
<1>2. /\ mgRows \in Seq(Registered) /\ InTable = Versions(mgRows) /\ InTable \subseteq Registered
      /\ Len(mgRows) \in Nat /\ DOMAIN mgRows = 1..Len(mgRows) /\ Len(mgRows) >= 1
  BY <1>1, TableIs DEF MgInv, MgTyped, Versions
<1>3. Last(mgRows) \in InTable
  BY <1>2 DEF Last, Versions
<1>4. v \in InTable /\ (mgDb = "sql" => \A w \in InTable : w <= v)
  <2>1. CASE mgDb = "memory"
    BY <1>3, <2>1 DEF LastApplied
  <2>2. CASE mgDb # "memory"
    <3>1. \E u \in InTable : \A w \in InTable : w <= u
      BY <1>2, <1>3, GreatestIs
    <3> QED BY <2>2, <3>1 DEF LastApplied
  <2> QED BY <2>1, <2>2
<1>5. ASSUME mgDb = "sql", ~mgCrossed PROVE v = Last(mgRows)
  <2>1. InOrder(mgRows)
    BY <1>5 DEF MgInv
  <2>2. PICK i \in 1..Len(mgRows) : v = mgRows[i]
    BY <1>2, <1>4 DEF Versions
  <2>3. CASE i = Len(mgRows)
    BY <2>2, <2>3 DEF Last
  <2>4. CASE i # Len(mgRows)
    <3>0. Len(mgRows) \in Nat /\ Len(mgRows) >= 1 /\ DOMAIN mgRows = 1..Len(mgRows)
      BY <1>2
    <3>1. i < Len(mgRows) /\ Len(mgRows) \in DOMAIN mgRows /\ i \in DOMAIN mgRows
      <4> DEFINE n == Len(mgRows)
                 D == DOMAIN mgRows
      <4>1. n \in Nat /\ n >= 1 /\ D = 1..n /\ i \in 1..n /\ i # n
        BY <2>4, <3>0
      <4> HIDE DEF n, D, v, j
      <4>2. i < n /\ n \in D /\ i \in D
        BY <4>1
      <4> QED BY <4>2 DEF n, D
    <3>2. v < Last(mgRows)
      BY <2>1, <2>2, <3>1 DEF InOrder, Last
    <3>3. Last(mgRows) <= v /\ v \in Int /\ Last(mgRows) \in Int
      BY <1>2, <1>3, <1>4, <1>5 DEF Registered
    <3> QED BY <3>2, <3>3
  <2> QED BY <2>3, <2>4
<1>6. j.does = "rollback" /\ j.version = v /\ j.latest = Last(mgRows)
  OBVIOUS
<1>7. j \in MgCalls
  BY <1>2, <1>3, <1>4 DEF MgCalls
<1> HIDE DEF j, v
<1>8. InTable' = InTable
  BY <1>1 DEF InTable
<1>9. CallSound(j, InTable', mgUp', mgShared', mgCrossed')
  BY <1>1, <1>4, <1>5, <1>6, <1>8 DEF CallSound, Migrates
<1>10. mgCall' = [d \in Migrators |-> mgCall'[d]] /\ mgCall'[c] = j
       /\ \A d \in Migrators \ {c} : mgCall'[d] = mgCall[d]
  BY <1>1 DEF MgInv, MgTyped
<1>11. \A d \in Migrators : MgDoes(d, "rollback") /\ mgCall[d].version = v => v \in mgShared'
  BY <1>1 DEF RollingBack
<1>12. mgShared \subseteq mgShared'
  BY <1>1
<1>13. SchemaIsRecorded'
  BY <1>1, <1>8, <1>12 DEF MgInv, SchemaIsRecorded
<1>14. mgCalls' \in 0..MaxMigrations
  BY <1>1, MigrationAssumption DEF MgInv, MgTyped
<1>15. /\ mgRows' \in Seq(Registered) /\ mgCrossed' \in BOOLEAN
       /\ mgUp' \in [Registered -> Nat] /\ mgDown' \in [Registered -> Nat]
       /\ mgDb = "sql" => RecordedOnce(mgRows')
       /\ \A w \in InTable' : mgUp'[w] > 0
       /\ mgDb = "sql" /\ ~mgCrossed' => InOrder(mgRows') /\ Closed(InTable')
  BY <1>1, <1>8 DEF MgInv, MgTyped
<1> QED BY <1>1, <1>6, <1>7, <1>8, <1>9, <1>10, <1>11, <1>12, <1>13, <1>14, <1>15,
       StepKeeps

LEMMA RollbackKeeps ==
  ASSUME MgInv, NEW c \in Migrators, Rollback(c) PROVE MgInv'
<1> DEFINE k == mgCall[c]
           v == k.version
           j == [does |-> "rolledBack"]
<1>1. /\ k.does = "rollback"
      /\ mgDown' = [mgDown EXCEPT ![v] = @ + 1]
      /\ mgRows' = IF mgDb = "memory" THEN mgRows ELSE Unrecorded(mgRows, v)
      /\ mgCall' = [d \in Migrators |-> IF d = c THEN j ELSE Disturbed(mgCall[d])]
      /\ mgCrossed' = (mgCrossed \/ \E d \in Migrators : Migrates(mgCall[d]))
      /\ UNCHANGED <<mgDb, mgUp, mgCalls, mgShared>>
  BY DEF Rollback, MgDoes
<1>2. k \in MgCalls /\ CallSound(k, InTable, mgUp, mgShared, mgCrossed)
  BY DEF MgInv, MgTyped
<1>3. v \in Registered
  BY <1>1, <1>2, CallFields
<1>4. j \in MgCalls /\ j.does = "rolledBack"
  BY DEF MgCalls
<1> HIDE DEF j
<1>5. mgCall' = [d \in Migrators |-> mgCall'[d]] /\ mgCall'[c] = j
      /\ \A d \in Migrators \ {c} : mgCall'[d] = Disturbed(mgCall[d])
  BY <1>1
<1>6. CallSound(j, InTable', mgUp', mgShared', mgCrossed')
  BY <1>4 DEF CallSound, Migrates
<1>7. \A d \in Migrators \ {c} : ~mgCrossed' /\ Migrates(mgCall[d]) => mgCall'[d] = mgCall[d]
  BY <1>1
<1>8. /\ mgDb \in {"sql", "memory"} /\ mgCalls' \in 0..MaxMigrations /\ mgCrossed' \in BOOLEAN
      /\ mgUp' \in [Registered -> Nat]
      /\ mgUp \in [Registered -> Nat] /\ mgDown \in [Registered -> Nat]
      /\ mgRows \in Seq(Registered) /\ \A w \in InTable : mgUp[w] > 0
  BY <1>1 DEF MgInv, MgTyped
<1> HIDE DEF v, k
<1>9. mgDown' \in [Registered -> Nat] /\ mgDown'[v] = mgDown[v] + 1
      /\ \A w \in Registered : w # v => mgDown'[w] = mgDown[w]
  BY <1>1, <1>3, <1>8
<1>10. CASE mgDb = "memory"
  <2>1. mgRows' = mgRows /\ InTable' = InTable
    BY <1>1, <1>10 DEF InTable
  <2>2. SchemaIsRecorded'
    BY <1>1, <1>10 DEF SchemaIsRecorded
  <2>3. mgCrossed => mgCrossed'
    BY <1>1
  <2>4. \A w \in Registered : mgUp[w] > 0 => mgUp'[w] > 0
    BY <1>1
  <2> QED BY <1>1, <1>4, <1>5, <1>6, <1>8, <1>9, <1>10, <2>1, <2>2, <2>3, <2>4, StepKeeps
<1>11. CASE mgDb = "sql"
  <2>1. RecordedOnce(mgRows) /\ InTable = Versions(mgRows) /\ InTable \subseteq Registered
    BY <1>8, <1>11, TableIs DEF MgInv, InTable, Range
  <2>2. /\ mgRows' \in Seq(Registered) /\ Versions(mgRows') = Versions(mgRows) \ {v}
        /\ RecordedOnce(mgRows')
        /\ InOrder(mgRows) => InOrder(mgRows')
    BY <1>1, <1>3, <1>8, <1>11, <2>1, UnrecordedIs
  <2>3. InTable' = InTable \ {v}
    BY <2>1, <2>2 DEF InTable, Range, Versions
  <2>4. SchemaIsRecorded'
    <3> SUFFICES ASSUME NEW w \in Registered \ mgShared
                 PROVE  mgUp[w] - mgDown'[w] = IF w \in InTable' THEN 1 ELSE 0
      BY <1>1 DEF SchemaIsRecorded
    <3>1. mgUp[w] - mgDown[w] = IF w \in InTable THEN 1 ELSE 0
      BY <1>11 DEF MgInv, SchemaIsRecorded
    <3>2. CASE w = v
      <4>1. v \in InTable
        BY <1>1, <1>2, <1>11, <3>2 DEF CallSound, v
      <4> QED BY <1>8, <1>9, <2>3, <3>1, <3>2, <4>1
    <3>3. CASE w # v
      BY <1>9, <2>3, <3>1, <3>3
    <3> QED BY <3>2, <3>3
  <2>5. ASSUME ~mgCrossed' PROVE InOrder(mgRows') /\ Closed(InTable')
    <3>1. ~mgCrossed /\ InOrder(mgRows) /\ Closed(InTable)
      BY <1>1, <1>11, <2>5 DEF MgInv
    <3>2. \A w \in InTable : w <= v
      BY <1>1, <1>2, <1>11, <3>1 DEF CallSound, v
    <3>3. Closed(InTable')
      <4> SUFFICES ASSUME NEW w \in InTable', NEW u \in Registered, u < w PROVE u \in InTable'
        BY DEF Closed
      <4>1. u \in InTable /\ w <= v /\ w \in Registered
        BY <2>1, <2>3, <3>1, <3>2 DEF Closed
      <4>2. u # v
        BY <1>3, <4>1 DEF Registered
      <4> QED BY <2>3, <4>1, <4>2
    <3> QED BY <2>2, <3>1, <3>3
  <2>6. ASSUME NEW d \in Migrators \ {c}, MgDoes(d, "rollback")
        PROVE  mgCall[d].version \in InTable => mgCall[d].version \in InTable' \cup mgShared'
    <3>1. mgCall[d].version = v => v \in mgShared
      BY <1>1, <1>11, <2>6 DEF MgInv, MgDoes, v, k
    <3> QED BY <1>1, <2>3, <3>1
  <2>7. /\ InTable' \subseteq InTable
        /\ mgCrossed => mgCrossed'
        /\ \A w \in InTable' : mgUp'[w] > 0
        /\ \A w \in Registered : mgUp[w] > 0 => mgUp'[w] > 0
    BY <1>1, <1>8, <2>3
  <2> QED BY <1>1, <1>4, <1>5, <1>6, <1>7, <1>8, <1>9, <2>2, <2>4, <2>5, <2>6, <2>7, StepKeeps
<1> QED BY <1>8, <1>10, <1>11

LEMMA MgNextInv == MgInv /\ [MgNext]_mgVars => MgInv'
<1> SUFFICES ASSUME MgInv, [MgNext]_mgVars PROVE MgInv'
  OBVIOUS
<1>1. CASE UNCHANGED mgVars
  <2>1. UNCHANGED <<mgDb, mgRows, mgUp, mgDown, mgCall, mgCalls, mgShared, mgCrossed>>
    BY <1>1 DEF mgVars
  <2>2. InTable' = InTable
    BY <2>1 DEF InTable
  <2>3. SchemaIsRecorded'
    BY <2>1, <2>2 DEF MgInv, SchemaIsRecorded
  <2>4. \A c \in Migrators : CallSound(mgCall[c], InTable, mgUp, mgShared, mgCrossed)'
    BY <2>1, <2>2 DEF MgInv, CallSound
  <2>5. MgTyped'
    BY <2>1 DEF MgInv, MgTyped
  <2> QED BY <2>1, <2>2, <2>3, <2>4, <2>5 DEF MgInv, MgDoes
<1>2. CASE MgNext
  BY <1>2, InitTableKeeps, GetPendingKeeps, ApplyKeeps, RunUpKeeps, RecordUpKeeps, EndKeeps,
     ReadLastKeeps, RollbackKeeps DEF MgNext
<1> QED BY <1>1, <1>2

(* For any number of calls and versions: the rows are registered versions, and
   what is counted of their SQL is a number. *)
THEOREM MigrationsTypeCorrect == MgSpec => []MgTypeOK
<1>1. MgInv => MgTypeOK
  BY DEF MgInv, MgTyped, MgTypeOK
<1> QED BY <1>1, MgInitInv, MgNextInv, PTL DEF MgSpec

(* For any calls that overlap and fail: the migrations table tells the schema,
   an undisturbed success is complete, a failure names all that is left, and
   versions are recorded in their order while no rollback overlaps a migrate. *)
THEOREM MigrationsRecorded == MgSpec => []MigrationsSound
<1>1. MgInv => MigrationsSound
  <2> SUFFICES ASSUME MgInv PROVE MigrationsSound
    OBVIOUS
  <2>1. \A c \in Migrators : CallSound(mgCall[c], InTable, mgUp, mgShared, mgCrossed)
    BY DEF MgInv
  <2>2. SuccessIsComplete
    BY <2>1 DEF SuccessIsComplete, CallSound, MgDoes
  <2>3. FailureIsAccounted
    BY <2>1 DEF FailureIsAccounted, CallSound, Accounted, MgDoes
  <2>4. RollbackUndoesTheLatest
    BY <2>1 DEF RollbackUndoesTheLatest, CallSound, MgDoes, MgInv, InOrder
  <2> QED BY <2>2, <2>3, <2>4 DEF MigrationsSound, MgInv
<1> QED BY <1>1, MgInitInv, MgNextInv, PTL DEF MgSpec

-----------------------------------------------------------------------------
(* The cache. *)

USE CacheAssumption, NoneAssumption

-----------------------------------------------------------------------------
(* The order of a level.                                                   *)

\* rest of Remaining, up to n.
IsRest(g, n, order, ks) ==
  g = [i \in 0..n |-> IF i = 0 THEN <<>>
                      ELSE IF order[i] \in ks THEN g[i - 1] ELSE Append(g[i - 1], order[i])]

LEMMA RestExists ==
  ASSUME NEW order, NEW ks, NEW n \in Nat
  PROVE  \E g : IsRest(g, n, order, ks)
<1> DEFINE T == {m \in Nat : \E g : IsRest(g, m, order, ks)}
<1>1. 0 \in T
  <2> DEFINE g == [i \in 0..0 |-> <<>>]
  <2>1. IsRest(g, 0, order, ks)
    BY DEF IsRest
  <2> QED BY <2>1
<1>2. ASSUME NEW m \in T PROVE m + 1 \in T
  <2>1. PICK g : IsRest(g, m, order, ks)
    OBVIOUS
  <2> DEFINE h == [i \in 0..(m + 1) |->
                     IF i = m + 1 THEN (IF order[i] \in ks THEN g[m] ELSE Append(g[m], order[i]))
                     ELSE g[i]]
  <2>2. \A i \in 0..m : g[i] = IF i = 0 THEN <<>>
                               ELSE IF order[i] \in ks THEN g[i - 1] ELSE Append(g[i - 1], order[i])
    BY <2>1 DEF IsRest
  <2>3. \A i \in 0..m : h[i] = g[i]
    OBVIOUS
  <2>4. ASSUME NEW i \in 0..m
        PROVE  h[i] = IF i = 0 THEN <<>>
                      ELSE IF order[i] \in ks THEN h[i - 1] ELSE Append(h[i - 1], order[i])
    <3>1. CASE i = 0
      BY <2>2, <2>3, <3>1
    <3>2. CASE i # 0
      <4>1. i - 1 \in 0..m
        BY <3>2
      <4> HIDE DEF h
      <4> QED BY <2>2, <2>3, <3>2, <4>1
    <3> QED BY <3>1, <3>2
  <2>5. h[m + 1] = IF order[m + 1] \in ks THEN h[m] ELSE Append(h[m], order[m + 1])
    BY <2>3
  <2>6. \A i \in 0..(m + 1) :
          h[i] = IF i = 0 THEN <<>>
                 ELSE IF order[i] \in ks THEN h[i - 1] ELSE Append(h[i - 1], order[i])
    <3> HIDE DEF h
    <3> QED BY <2>4, <2>5
  <2>7. IsRest(h, m + 1, order, ks)
    BY <2>6 DEF IsRest
  <2> QED BY <2>7
<1>3. T = Nat
  <2> HIDE DEF T
  <2> QED BY <1>1, <1>2, Induction DEF T
<1> QED BY <1>3

LEMMA RemainingIsRest ==
  ASSUME NEW order, Len(order) \in Nat, NEW ks
  PROVE  \E g : IsRest(g, Len(order), order, ks) /\ Remaining(order, ks) = g[Len(order)]
<1> DEFINE f == CHOOSE g : IsRest(g, Len(order), order, ks)
<1>1. \E g : IsRest(g, Len(order), order, ks)
  BY RestExists
<1>2. IsRest(CHOOSE g : IsRest(g, Len(order), order, ks), Len(order), order, ks)
  BY <1>1
<1>3. Remaining(order, ks) = f[Len(order)]
  BY DEF Remaining, IsRest
<1> QED BY <1>2, <1>3

\* An order that names each of the keys ks once.
Names(order, ks) ==
    /\ order \in Seq(Keys)
    /\ \A i, j \in 1..Len(order) : order[i] = order[j] => i = j
    /\ {order[i] : i \in 1..Len(order)} = ks

\* What one key appended does.
LEMMA AppendNames ==
  ASSUME NEW order, NEW ks, Names(order, ks), NEW k \in Keys, k \notin ks
  PROVE  Names(Append(order, k), ks \cup {k})
<1> DEFINE after == Append(order, k)
<1>1. /\ after \in Seq(Keys) /\ Len(after) = Len(order) + 1
      /\ after[Len(order) + 1] = k /\ Len(order) \in Nat
      /\ \A i \in 1..Len(order) : after[i] = order[i]
  BY DEF Names
<1> HIDE DEF after
<1>2. \A i \in 1..Len(order) : order[i] \in ks
  BY DEF Names
<1>3. \A i \in 1..Len(after) : i \in 1..Len(order) \/ i = Len(order) + 1
  BY <1>1
<1>4. \A i, j \in 1..Len(after) : after[i] = after[j] => i = j
  BY <1>1, <1>2, <1>3 DEF Names
<1>5. {after[i] : i \in 1..Len(after)} = ks \cup {k}
  <2>1. \A i \in 1..Len(after) : after[i] \in ks \cup {k}
    BY <1>1, <1>2, <1>3
  <2>2. \A q \in ks : \E i \in 1..Len(after) : after[i] = q
    <3> SUFFICES ASSUME NEW q \in ks PROVE \E i \in 1..Len(after) : after[i] = q
      OBVIOUS
    <3>1. PICK i \in 1..Len(order) : order[i] = q
      BY DEF Names
    <3> QED BY <1>1, <3>1
  <2>3. Len(order) + 1 \in 1..Len(after)
    BY <1>1
  <2> QED BY <1>1, <2>1, <2>2, <2>3
<1> QED BY <1>1, <1>4, <1>5 DEF Names, after

\* What is left of an order names what is left of its keys.
LEMMA RemainingNames ==
  ASSUME NEW order, NEW held, Names(order, held), NEW ks
  PROVE  Names(Remaining(order, ks), held \ ks)
<1> DEFINE n == Len(order)
           Upto(m) == {order[i] : i \in 1..m}
<1>1. n \in Nat /\ \A i \in 1..n : order[i] \in Keys
  BY DEF Names
<1>2. PICK g : IsRest(g, n, order, ks) /\ Remaining(order, ks) = g[n]
  BY <1>1, RemainingIsRest
<1> HIDE DEF n
<1>3. \A i \in 0..n : g[i] = IF i = 0 THEN <<>>
                             ELSE IF order[i] \in ks THEN g[i - 1] ELSE Append(g[i - 1], order[i])
  BY <1>1, <1>2 DEF IsRest
<1> DEFINE T == {m \in Nat : m <= n => Names(g[m], Upto(m) \ ks)}
<1>4. 0 \in T
  <2>1. g[0] = <<>>
    BY <1>1, <1>3
  <2>2. <<>> \in Seq(Keys) /\ 1..Len(<<>>) = {} /\ Upto(0) \ ks = {}
    OBVIOUS
  <2>3. Names(<<>>, {})
    BY <2>2 DEF Names
  <2> QED BY <2>1, <2>2, <2>3
<1>5. ASSUME NEW m \in T PROVE m + 1 \in T
  <2> SUFFICES ASSUME m + 1 <= n PROVE Names(g[m + 1], Upto(m + 1) \ ks)
    OBVIOUS
  <2>1. m \in Nat /\ m + 1 \in 1..n /\ m + 1 \in 0..n /\ m + 1 # 0 /\ m + 1 - 1 = m
    BY <1>1
  <2>2. g[m + 1] = IF order[m + 1] \in ks THEN g[m] ELSE Append(g[m], order[m + 1])
    BY <1>3, <2>1
  <2>3. Names(g[m], Upto(m) \ ks)
    BY <1>1, <2>1
  <2>4. Upto(m + 1) = Upto(m) \cup {order[m + 1]}
    <3>1. 1..(m + 1) = 1..m \cup {m + 1}
      BY <2>1
    <3> QED BY <3>1
  <2>5. order[m + 1] \notin Upto(m)
    BY <2>1 DEF Names, n
  <2> HIDE DEF Upto
  <2>6. CASE order[m + 1] \in ks
    <3>1. Upto(m + 1) \ ks = Upto(m) \ ks
      BY <2>4, <2>6
    <3> QED BY <2>2, <2>3, <2>6, <3>1
  <2>7. CASE order[m + 1] \notin ks
    <3>1. Upto(m + 1) \ ks = (Upto(m) \ ks) \cup {order[m + 1]}
      BY <2>4, <2>7
    <3>2. Names(Append(g[m], order[m + 1]), (Upto(m) \ ks) \cup {order[m + 1]})
      BY <1>1, <2>1, <2>3, <2>5, AppendNames
    <3> QED BY <2>2, <2>7, <3>1, <3>2
  <2> QED BY <2>6, <2>7
<1>6. T = Nat
  <2> HIDE DEF T
  <2> QED BY <1>4, <1>5, Induction DEF T
<1>7. Names(g[n], Upto(n) \ ks)
  <2>1. n \in T
    BY <1>1, <1>6
  <2> QED BY <2>1
<1>8. Upto(n) = held
  BY DEF Names, n
<1> QED BY <1>2, <1>7, <1>8

LEMMA NamesCount ==
  ASSUME NEW order, NEW ks, Names(order, ks)
  PROVE  Len(order) = Cardinality(ks)
<1>1. Len(order) \in Nat /\ order \in [1..Len(order) -> ks]
  BY DEF Names
<1>2. order \in Bijection(1..Len(order), ks)
  <2>1. \A i, j \in 1..Len(order) : order[i] = order[j] => i = j
    BY DEF Names
  <2>2. \A k \in ks : \E i \in 1..Len(order) : order[i] = k
    BY DEF Names
  <2> QED BY <1>1, <2>1, <2>2 DEF Bijection, Injection, Surjection, IsInjective
<1>3. ExistsBijection(1..Len(order), ks)
  BY <1>2 DEF ExistsBijection
<1> QED BY <1>1, <1>3, FS_CountingElements

-----------------------------------------------------------------------------
(* The inductive invariant.                                                *)

Entries == [Keys -> Entry \cup {None}]

\* A typed level whose order names the keys it holds.
Sound(c) ==
    /\ c = [entries |-> c.entries, order |-> c.order]
    /\ c.entries \in Entries
    /\ Names(c.order, Held(c))

RestTyped ==
    /\ policy \in Policies
    /\ now \in 0..MaxTime
    /\ source \in [Keys -> Version]
    /\ load \in [Loaders -> Load \cup {None}]
    /\ raced \subseteq Keys

LevelsTyped == DOMAIN level = 1..2 /\ Sound(level[1]) /\ Sound(level[2])

\* The levels agree about what both hold, expired or not.
HeldAgree ==
    \A k \in Held(level[1]) \cap Held(level[2]) :
       level[1].entries[k].value = level[2].entries[k].value

\* Only the first level holds anything longer than it was set for.
Outlives(n) == IF n = 1 THEN DefaultTtl - 1 ELSE 0

Lives(n, e) == e.expiresAt <= e.until + Outlives(n)

LivesBounded ==
    \A n \in 1..2 : \A k \in Held(level[n]) : Lives(n, level[n].entries[k])

Current(k, v) == v = source[k] \/ k \in raced

HeldIsCurrent ==
    \A n \in 1..2 : \A k \in Held(level[n]) : Current(k, level[n].entries[k].value)

\* A load whose source changed since it began is known to have raced.
LoadsCurrent ==
    \A l \in Loaders : load[l] # None => Current(load[l].key, load[l].since)

CacheInv ==
    /\ RestTyped
    /\ LevelsTyped
    /\ HeldAgree
    /\ LivesBounded
    /\ HeldIsCurrent
    /\ LoadsCurrent

-----------------------------------------------------------------------------
(* What the operations do to the entries of a level.                       *)

\* The same value with the same life.
Alike(e, f) ==
    /\ e # None /\ f # None
    /\ f.value = e.value /\ f.expiresAt = e.expiresAt /\ f.until = e.until

\* d holds what c held, or less.
NoMore(c, d) ==
    /\ Sound(d)
    /\ \A k \in Keys : d.entries[k] = None \/ Alike(c.entries[k], d.entries[k])

LEMMA SoundNoMore ==
  ASSUME NEW c, Sound(c)
  PROVE  NoMore(c, c)
  BY DEF Sound, NoMore, Alike

LEMMA NoMoreTransitive ==
  ASSUME NEW c, NEW d, NEW e, NoMore(c, d), NoMore(d, e)
  PROVE  NoMore(c, e)
  BY DEF NoMore, Alike

LEMMA WithoutKeepsNoMore ==
  ASSUME NEW c, Sound(c), NEW ks
  PROVE  /\ NoMore(c, Without(c, ks))
         /\ \A k \in Keys \cap ks : Without(c, ks).entries[k] = None
<1> DEFINE entries == [k \in Keys |-> IF k \in ks THEN None ELSE c.entries[k]]
           order == Remaining(c.order, ks)
<1>1. Without(c, ks) = [entries |-> entries, order |-> order]
  BY DEF Without
<1>2. Names(order, Held(c) \ ks)
  BY RemainingNames DEF Sound
<1>3. entries \in Entries /\ \A k \in Keys : entries[k] = IF k \in ks THEN None ELSE c.entries[k]
  BY DEF Sound, Entries
<1> HIDE DEF entries, order
<1>4. Held(Without(c, ks)) = Held(c) \ ks
  BY <1>1, <1>3 DEF Held
<1>5. Sound(Without(c, ks))
  <2>1. /\ Without(c, ks).entries = entries
        /\ Without(c, ks).order = order
        /\ Without(c, ks) = [entries |-> Without(c, ks).entries, order |-> Without(c, ks).order]
    BY <1>1
  <2> QED BY <1>2, <1>3, <1>4, <2>1 DEF Sound
<1> QED BY <1>1, <1>3, <1>5 DEF NoMore, Alike

LEMMA DropExpiredKeepsNoMore ==
  ASSUME NEW c, Sound(c), NEW k \in Keys
  PROVE  /\ NoMore(c, DropExpired(c, k))
         /\ \A j \in Keys : j # k => DropExpired(c, k).entries[j] = c.entries[j]
<1>1. \A j \in Keys : j # k => Without(c, {k}).entries[j] = c.entries[j]
  BY DEF Without
<1> QED BY <1>1, WithoutKeepsNoMore, SoundNoMore DEF DropExpired

LEMMA TouchedKeepsNoMore ==
  ASSUME RestTyped, NEW c, Sound(c), NEW k \in Keys
  PROVE  NoMore(c, Touched(c, k))
<1>1. CASE Live(c, k)
  <2> DEFINE r == CASE policy = "lfu"  -> c.entries[k].rank + 1
                    [] policy = "lru"  -> now
                    [] policy = "fifo" -> c.entries[k].rank
  <2>1. c.entries[k] \in Entry
    BY <1>1 DEF Live, Held, Sound, Entries
  <2>2. r \in Nat
    BY <2>1 DEF Entry, RestTyped
  <2>3. Touched(c, k) = [c EXCEPT !.entries[k].rank = r]
    BY <1>1 DEF Touched
  <2> HIDE DEF r
  <2>4. [c.entries[k] EXCEPT !.rank = r] \in Entry
    BY <2>1, <2>2 DEF Entry
  <2>5. Alike(c.entries[k], [c.entries[k] EXCEPT !.rank = r])
    BY <2>1, <2>4 DEF Alike, Entry
  <2>6. Touched(c, k) = [entries |-> [c.entries EXCEPT ![k] = [c.entries[k] EXCEPT !.rank = r]],
                         order |-> c.order]
    BY <2>3 DEF Sound
  <2> DEFINE entries == [c.entries EXCEPT ![k] = [c.entries[k] EXCEPT !.rank = r]]
  <2>7. /\ entries \in Entries
        /\ \A j \in Keys : entries[j] = IF j = k THEN [c.entries[k] EXCEPT !.rank = r] ELSE c.entries[j]
    BY <2>4 DEF Sound, Entries
  <2> HIDE DEF entries
  <2>8. Held(Touched(c, k)) = Held(c)
    BY <2>5, <2>6, <2>7 DEF Held, Alike, entries
  <2>9. Sound(Touched(c, k))
    BY <2>6, <2>7, <2>8 DEF Sound, entries
  <2>10. \A j \in Keys : c.entries[j] = None \/ Alike(c.entries[j], entries[j])
    BY <2>5, <2>7 DEF Alike
  <2>11. \A j \in Keys : c.entries[j] = None => entries[j] = None
    BY <2>5, <2>7 DEF Alike
  <2> QED BY <2>6, <2>9, <2>10, <2>11 DEF NoMore, entries
<1>2. CASE ~Live(c, k)
  BY <1>2, DropExpiredKeepsNoMore DEF Touched
<1> QED BY <1>1, <1>2

\* What is evicted is not held any more.
LEMMA EvictedKeepsNoMore ==
  ASSUME NEW c, Sound(c), NEW d \in Evicted(c)
  PROVE  NoMore(c, d)
  BY WithoutKeepsNoMore DEF Evicted

FreshEntry(v, ttl, until) ==
    [value |-> v, expiresAt |-> now + ttl, until |-> until,
     rank |-> IF policy = "lru" THEN now ELSE 0]

\* set gives the key its entry, and leaves of the others what it does not evict.
LEMMA StoredSets ==
  ASSUME RestTyped, NEW n \in 1..2, NEW c, Sound(c), NEW k \in Keys, NEW v \in Version,
         NEW ttl \in Nat, NEW until \in Nat, NEW d \in Stored(c, n, k, v, ttl, until)
  PROVE  /\ Sound(d)
         /\ d.entries[k] = FreshEntry(v, ttl, until)
         /\ d.entries[k] \in Entry
         /\ \A j \in Keys \ {k} : d.entries[j] = None \/ Alike(c.entries[j], d.entries[j])
<1>1. FreshEntry(v, ttl, until) \in Entry
  BY DEF FreshEntry, Entry, RestTyped
<1>2. PICK b \in (IF k \notin Held(c) /\ Full(c, n) THEN Evicted(c) ELSE {c}) :
         d = [entries |-> [b.entries EXCEPT ![k] = FreshEntry(v, ttl, until)],
              order |-> IF k \in Held(b) THEN b.order ELSE Append(b.order, k)]
  BY DEF Stored, FreshEntry
<1>3. NoMore(c, b)
  BY <1>2, EvictedKeepsNoMore, SoundNoMore
<1> HIDE DEF FreshEntry
<1>4. b.entries \in Entries
  BY <1>3 DEF NoMore, Sound
<1>5. d.entries \in Entries /\ d.entries[k] = FreshEntry(v, ttl, until)
  BY <1>1, <1>2, <1>4 DEF Entries
<1>6. \A j \in Keys \ {k} : d.entries[j] = b.entries[j]
  BY <1>2, <1>4 DEF Entries
<1>7. d = [entries |-> d.entries, order |-> d.order]
  BY <1>2
<1>8. Held(d) = Held(b) \cup {k}
  BY <1>1, <1>5, <1>6 DEF Held
<1>9. Names(d.order, Held(d))
  <2>1. Names(b.order, Held(b))
    BY <1>3 DEF NoMore, Sound
  <2>2. CASE k \in Held(b)
    <3>1. Held(d) = Held(b)
      BY <1>8, <2>2
    <3> QED BY <1>2, <2>1, <2>2, <3>1
  <2>3. CASE k \notin Held(b)
    <3>1. Names(Append(b.order, k), Held(b) \cup {k})
      BY <2>1, <2>3, AppendNames
    <3>2. d.order = Append(b.order, k)
      BY <1>2, <2>3
    <3> QED BY <1>8, <3>1, <3>2
  <2> QED BY <2>2, <2>3
<1> QED BY <1>1, <1>3, <1>5, <1>6, <1>7, <1>9 DEF NoMore, Sound

-----------------------------------------------------------------------------
(* The steps.                                                              *)

\* What is held after a step is what was held, or has a life and a value as the
\* invariant has them.
Follows ==
    \A n \in 1..2 : \A k \in Held(level'[n]) :
      \/ Alike(level[n].entries[k], level'[n].entries[k])
      \/ /\ Lives(n, level'[n].entries[k])
         /\ Current(k, level'[n].entries[k].value)

LEMMA FollowingStep ==
  ASSUME CacheInv, RestTyped', LevelsTyped', HeldAgree', LoadsCurrent', Follows,
         UNCHANGED <<source, raced>>
  PROVE  CacheInv'
<1>1. ASSUME NEW n \in 1..2, NEW k \in Held(level'[n])
      PROVE  /\ Lives(n, level'[n].entries[k])
             /\ Current(k, level'[n].entries[k].value)
  <2>1. CASE Alike(level[n].entries[k], level'[n].entries[k])
    <3>1. k \in Held(level[n])
      BY <2>1 DEF Held, Alike
    <3>2. Lives(n, level[n].entries[k]) /\ Current(k, level[n].entries[k].value)
      BY <3>1 DEF CacheInv, LivesBounded, HeldIsCurrent
    <3> QED BY <2>1, <3>2 DEF Alike, Lives
  <2> QED BY <2>1 DEF Follows
<1>2. LivesBounded'
  BY <1>1 DEF LivesBounded, Lives
<1>3. HeldIsCurrent'
  BY <1>1 DEF HeldIsCurrent, Current
<1> QED BY <1>2, <1>3 DEF CacheInv

\* A step after which each level holds nothing it did not hold.
LEMMA NoMoreStep ==
  ASSUME CacheInv, RestTyped', LoadsCurrent', UNCHANGED <<source, raced>>,
         DOMAIN level' = 1..2, NoMore(level[1], level'[1]), NoMore(level[2], level'[2])
  PROVE  CacheInv'
<1>1. LevelsTyped'
  BY DEF LevelsTyped, NoMore, Sound
<1>2. \A n \in 1..2 : \A k \in Held(level'[n]) : Alike(level[n].entries[k], level'[n].entries[k])
  BY DEF NoMore, Held
<1>3. HeldAgree'
  <2> SUFFICES ASSUME NEW k \in Held(level'[1]) \cap Held(level'[2])
               PROVE  level'[1].entries[k].value = level'[2].entries[k].value
    BY DEF HeldAgree, Held
  <2>1. Alike(level[1].entries[k], level'[1].entries[k]) /\ Alike(level[2].entries[k], level'[2].entries[k])
    BY <1>2
  <2>2. k \in Held(level[1]) \cap Held(level[2])
    BY <2>1 DEF Alike, Held
  <2> QED BY <2>1, <2>2 DEF Alike, CacheInv, HeldAgree
<1>4. Follows
  BY <1>2 DEF Follows
<1> QED BY <1>1, <1>3, <1>4, FollowingStep

\* A step that sets a key in both levels, of which something may have gone.
LEMMA SetStep ==
  ASSUME CacheInv, RestTyped', LoadsCurrent', UNCHANGED <<now, source, raced, policy>>,
         NEW c, NoMore(level[1], c[1]), NoMore(level[2], c[2]),
         NEW k \in Keys, NEW ttl \in Ttls, NEW v \in Version, Current(k, v),
         SetIn(c, k, v, ttl)
  PROVE  CacheInv'
<1>1. PICK d1 \in Stored(c[1], 1, k, v, ttl, now + ttl), d2 \in Stored(c[2], 2, k, v, ttl, now + ttl) :
        level' = <<d1, d2>>
  BY DEF SetIn
<1>2. RestTyped /\ Sound(c[1]) /\ Sound(c[2]) /\ ttl \in Nat /\ now + ttl \in Nat
  BY DEF CacheInv, NoMore, RestTyped
<1>3. level'[1] = d1 /\ level'[2] = d2 /\ DOMAIN level' = 1..2
  BY <1>1
<1>4. /\ Sound(d1) /\ d1.entries[k] = FreshEntry(v, ttl, now + ttl)
      /\ \A j \in Keys \ {k} : d1.entries[j] = None \/ Alike(c[1].entries[j], d1.entries[j])
  BY <1>2, StoredSets
<1>5. /\ Sound(d2) /\ d2.entries[k] = FreshEntry(v, ttl, now + ttl)
      /\ \A j \in Keys \ {k} : d2.entries[j] = None \/ Alike(c[2].entries[j], d2.entries[j])
  BY <1>2, StoredSets
<1>6. LevelsTyped'
  BY <1>3, <1>4, <1>5 DEF LevelsTyped, Sound
<1>7. ASSUME NEW n \in 1..2, NEW j \in Held(level'[n]), j # k
      PROVE  Alike(level[n].entries[j], level'[n].entries[j])
  <2>1. j \in Keys /\ level'[n].entries[j] # None
    BY DEF Held
  <2>2. CASE n = 1
    BY <1>3, <1>4, <1>7, <2>1, <2>2 DEF NoMore, Alike
  <2>3. CASE n = 2
    BY <1>3, <1>5, <1>7, <2>1, <2>3 DEF NoMore, Alike
  <2> QED BY <2>2, <2>3
<1>8. HeldAgree'
  <2> SUFFICES ASSUME NEW j \in Held(level'[1]) \cap Held(level'[2])
               PROVE  level'[1].entries[j].value = level'[2].entries[j].value
    BY DEF HeldAgree, Held
  <2>1. CASE j = k
    BY <1>3, <1>4, <1>5, <2>1
  <2>2. CASE j # k
    <3>1. Alike(level[1].entries[j], level'[1].entries[j]) /\ Alike(level[2].entries[j], level'[2].entries[j])
      BY <1>7, <2>2
    <3>2. j \in Held(level[1]) \cap Held(level[2])
      BY <3>1 DEF Alike, Held
    <3> QED BY <3>1, <3>2 DEF Alike, CacheInv, HeldAgree
  <2> QED BY <2>1, <2>2
<1>9. Follows
  <2> SUFFICES ASSUME NEW n \in 1..2, NEW j \in Held(level'[n]), j = k
               PROVE  /\ Lives(n, level'[n].entries[j])
                      /\ Current(j, level'[n].entries[j].value)
    BY <1>7 DEF Follows
  <2>1. level'[n].entries[k] = FreshEntry(v, ttl, now + ttl)
    BY <1>3, <1>4, <1>5
  <2>2. Lives(n, FreshEntry(v, ttl, now + ttl))
    BY <1>2 DEF Lives, Outlives, FreshEntry, RestTyped
  <2> QED BY <2>1, <2>2 DEF FreshEntry
<1> QED BY <1>6, <1>8, <1>9, FollowingStep

\* A step that promotes a key.
LEMMA PromotingStep ==
  ASSUME CacheInv, RestTyped', LoadsCurrent', UNCHANGED <<now, source, raced, policy>>,
         NEW k \in Keys, Live(level[2], k), level' \in Promoted(k)
  PROVE  CacheInv'
<1> DEFINE e == level[2].entries[k]
           c1 == DropExpired(level[1], k)
<1>1. PICK d \in Stored(c1, 1, k, e.value, DefaultTtl, e.until) :
        level' = <<d, Touched(level[2], k)>>
  BY DEF Promoted
<1>2. RestTyped /\ Sound(level[1]) /\ Sound(level[2])
  BY DEF CacheInv, LevelsTyped
<1>3. k \in Held(level[2]) /\ e \in Entry /\ ~(now >= e.expiresAt)
  BY <1>2 DEF Live, Expired, Held, Sound, Entries
<1>4. NoMore(level[1], c1)
  BY <1>2, DropExpiredKeepsNoMore
<1>5. NoMore(level[2], level'[2])
  BY <1>1, <1>2, TouchedKeepsNoMore
<1>6. level'[1] = d /\ DOMAIN level' = 1..2
  BY <1>1
<1>7. e.value \in Version /\ DefaultTtl \in Nat /\ e.until \in Nat /\ Sound(c1)
  BY <1>3, <1>4 DEF Entry, NoMore
<1>8. /\ Sound(d) /\ d.entries[k] = FreshEntry(e.value, DefaultTtl, e.until)
      /\ \A j \in Keys \ {k} : d.entries[j] = None \/ Alike(c1.entries[j], d.entries[j])
  <2> HIDE DEF e, c1
  <2> QED BY <1>2, <1>7, StoredSets
<1>9. LevelsTyped'
  BY <1>5, <1>6, <1>8 DEF LevelsTyped, NoMore, Sound
<1>10. ASSUME NEW j \in Held(level'[1]), j # k
       PROVE  Alike(level[1].entries[j], level'[1].entries[j])
  <2>1. j \in Keys /\ level'[1].entries[j] # None
    BY DEF Held
  <2> HIDE DEF c1
  <2> QED BY <1>4, <1>6, <1>8, <1>10, <2>1 DEF NoMore, Alike
<1>11. ASSUME NEW j \in Held(level'[2])
       PROVE  Alike(level[2].entries[j], level'[2].entries[j])
  BY <1>5 DEF NoMore, Held
<1>12. HeldAgree'
  <2> SUFFICES ASSUME NEW j \in Held(level'[1]) \cap Held(level'[2])
               PROVE  level'[1].entries[j].value = level'[2].entries[j].value
    BY DEF HeldAgree, Held
  <2>1. Alike(level[2].entries[j], level'[2].entries[j])
    BY <1>11
  <2>2. CASE j = k
    BY <1>6, <1>8, <2>1, <2>2 DEF FreshEntry, Alike
  <2>3. CASE j # k
    <3>1. Alike(level[1].entries[j], level'[1].entries[j])
      BY <1>10, <2>3
    <3>2. j \in Held(level[1]) \cap Held(level[2])
      BY <2>1, <3>1 DEF Alike, Held
    <3> QED BY <2>1, <3>1, <3>2 DEF Alike, CacheInv, HeldAgree
  <2> QED BY <2>2, <2>3
<1>13. Follows
  <2> SUFFICES /\ Lives(1, level'[1].entries[k])
               /\ Current(k, level'[1].entries[k].value)
    BY <1>10, <1>11 DEF Follows
  <2>1. Lives(2, e) /\ Current(k, e.value)
    BY <1>3 DEF CacheInv, LivesBounded, HeldIsCurrent
  <2>2. now < e.expiresAt /\ e.expiresAt <= e.until
    BY <1>2, <1>3, <2>1 DEF Lives, Outlives, Entry, RestTyped
  <2>3. now + DefaultTtl <= e.until + (DefaultTtl - 1)
    BY <1>2, <1>3, <2>2 DEF Entry, RestTyped
  <2> QED BY <1>6, <1>8, <2>1, <2>3 DEF FreshEntry, Lives, Outlives
<1> QED BY <1>9, <1>12, <1>13, FollowingStep

\* A step that reads a key.
LEMMA GettingStep ==
  ASSUME CacheInv, RestTyped', LoadsCurrent', UNCHANGED <<now, source, raced, policy>>,
         NEW k \in Keys, Get(k)
  PROVE  CacheInv'
<1>1. RestTyped /\ Sound(level[1]) /\ Sound(level[2]) /\ DOMAIN level = 1..2
  BY DEF CacheInv, LevelsTyped
<1>2. CASE Live(level[1], k)
  <2>1. level' = [level EXCEPT ![1] = Touched(@, k)]
    BY <1>2 DEF Get
  <2>2. level'[1] = Touched(level[1], k) /\ level'[2] = level[2] /\ DOMAIN level' = 1..2
    BY <1>1, <2>1
  <2>3. NoMore(level[1], level'[1]) /\ NoMore(level[2], level'[2])
    BY <1>1, <2>2, TouchedKeepsNoMore, SoundNoMore
  <2> QED BY <2>2, <2>3, NoMoreStep
<1>3. CASE ~Live(level[1], k) /\ Live(level[2], k)
  BY <1>3, PromotingStep DEF Get
<1>4. CASE ~Live(level[1], k) /\ ~Live(level[2], k)
  <2>1. level' = [n \in 1..2 |-> DropExpired(level[n], k)]
    BY <1>4 DEF Get
  <2>2. NoMore(level[1], level'[1]) /\ NoMore(level[2], level'[2])
    BY <1>1, <2>1, DropExpiredKeepsNoMore
  <2> QED BY <2>1, <2>2, NoMoreStep
<1> QED BY <1>2, <1>3, <1>4

LEMMA InitCacheInv == Init => CacheInv
<1> SUFFICES ASSUME Init PROVE CacheInv
  OBVIOUS
<1>1. Sound(EmptyLevel) /\ Held(EmptyLevel) = {}
  <2>1. Held(EmptyLevel) = {}
    BY DEF EmptyLevel, Held
  <2>2. <<>> \in Seq(Keys) /\ 1..Len(<<>>) = {}
    OBVIOUS
  <2>3. Names(<<>>, {})
    BY <2>2 DEF Names
  <2> QED BY <2>1, <2>3 DEF EmptyLevel, Sound, Entries
<1>2. level[1] = EmptyLevel /\ level[2] = EmptyLevel /\ DOMAIN level = 1..2
  BY DEF Init
<1>3. RestTyped
  BY DEF Init, RestTyped, Version
<1>4. \A n \in 1..2 : Held(level[n]) = {}
  BY <1>1, <1>2
<1> QED
  BY <1>1, <1>2, <1>3, <1>4
     DEF Init, CacheInv, LevelsTyped, HeldAgree, LivesBounded, HeldIsCurrent, LoadsCurrent

LEMMA NextCacheInv == CacheInv /\ [Next]_vars => CacheInv'
<1> SUFFICES ASSUME CacheInv, [Next]_vars PROVE CacheInv'
  OBVIOUS
<1>1. RestTyped /\ Sound(level[1]) /\ Sound(level[2]) /\ DOMAIN level = 1..2
  BY DEF CacheInv, LevelsTyped
<1>2. LoadsCurrent
  BY DEF CacheInv
<1>3. ASSUME NEW k \in Keys, Read(k) PROVE CacheInv'
  <2>1. RestTyped' /\ LoadsCurrent'
    BY <1>1, <1>2, <1>3 DEF Read, RestTyped, LoadsCurrent, Current
  <2> QED BY <1>3, <2>1, GettingStep DEF Read
<1>4. ASSUME NEW k \in Keys, HasKey(k) PROVE CacheInv'
  <2>1. RestTyped' /\ LoadsCurrent'
    BY <1>1, <1>2, <1>4 DEF HasKey, RestTyped, LoadsCurrent, Current
  <2>2. NoMore(level[1], level'[1]) /\ NoMore(level[2], level'[2]) /\ DOMAIN level' = 1..2
    BY <1>1, <1>4, DropExpiredKeepsNoMore, SoundNoMore DEF HasKey
  <2> QED BY <1>4, <2>1, <2>2, NoMoreStep DEF HasKey
<1>5. ASSUME NEW k \in Keys, NEW ttl \in Ttls, Set(k, ttl) PROVE CacheInv'
  <2>1. RestTyped' /\ LoadsCurrent'
    BY <1>1, <1>2, <1>5 DEF Set, RestTyped, LoadsCurrent, Current
  <2>2. Current(k, source[k]) /\ source[k] \in Version
    BY <1>1 DEF Current, RestTyped
  <2>3. NoMore(level[1], level[1]) /\ NoMore(level[2], level[2])
    BY <1>1, SoundNoMore
  <2> QED BY <1>5, <2>1, <2>2, <2>3, SetStep DEF Set
<1>6. ASSUME NEW k \in Keys, NEW ttl \in Ttls, GetOrSet(k, ttl) PROVE CacheInv'
  <2>1. RestTyped' /\ LoadsCurrent'
    BY <1>1, <1>2, <1>6 DEF GetOrSet, RestTyped, LoadsCurrent, Current
  <2>2. Current(k, source[k]) /\ source[k] \in Version
    BY <1>1 DEF Current, RestTyped
  <2> DEFINE c == [n \in 1..2 |-> DropExpired(level[n], k)]
  <2>3. NoMore(level[1], c[1]) /\ NoMore(level[2], c[2])
    BY <1>1, DropExpiredKeepsNoMore
  <2>4. SetIn(c, k, source[k], ttl)
    BY <1>6 DEF GetOrSet
  <2> HIDE DEF c
  <2> QED BY <1>6, <2>1, <2>2, <2>3, <2>4, SetStep DEF GetOrSet
<1>7. ASSUME NEW k \in Keys, NEW ttl \in Ttls, NEW l \in Loaders,
             k \in Loadable, GetOrSetAsync(l, k, ttl)
      PROVE  CacheInv'
  <2>1. [key |-> k, ttl |-> ttl, since |-> source[k]] \in Load
    BY <1>1, <1>7 DEF RestTyped, Load
  <2>2. RestTyped'
    BY <1>1, <1>7, <2>1 DEF GetOrSetAsync, RestTyped
  <2>3. LoadsCurrent'
    BY <1>1, <1>2, <1>7 DEF GetOrSetAsync, RestTyped, LoadsCurrent, Current
  <2> QED BY <1>7, <2>2, <2>3, GettingStep DEF GetOrSetAsync
<1>8. ASSUME NEW l \in Loaders, Loaded(l) PROVE CacheInv'
  <2>1. RestTyped' /\ LoadsCurrent'
    BY <1>1, <1>2, <1>8 DEF Loaded, RestTyped, LoadsCurrent, Current
  <2>2. NoMore(level[1], level[1]) /\ NoMore(level[2], level[2])
    BY <1>1, SoundNoMore
  <2>3. CASE UNCHANGED level
    BY <1>1, <1>8, <2>1, <2>2, <2>3, NoMoreStep DEF Loaded
  <2>4. ASSUME NEW v \in LoadedSince(load[l].key, load[l].since),
               SetIn(level, load[l].key, v, load[l].ttl)
        PROVE  CacheInv'
    <3>1. /\ load[l] \in Load /\ load[l].key \in Keys
          /\ load[l].since \in Version /\ source[load[l].key] \in Version
          /\ load[l].ttl \in Ttls
      BY <1>1, <1>8 DEF Loaded, RestTyped, Load
    <3>2. v \in Version
      BY <3>1 DEF LoadedSince, Version
    <3>3. Current(load[l].key, load[l].since)
      BY <1>2, <1>8 DEF Loaded, LoadsCurrent
    <3>4. Current(load[l].key, v)
      BY <3>1, <3>2, <3>3 DEF Current, LoadedSince, Version
    <3> QED BY <1>8, <2>1, <2>2, <2>4, <3>1, <3>2, <3>4, SetStep DEF Loaded
  <2> QED BY <1>8, <2>3, <2>4 DEF Loaded
<1>9. ASSUME NEW ks \in SUBSET Keys,
             NEW changed \in SUBSET {k \in ks \cap Loadable : source[k] < MaxChanges},
             Invalidate(ks, changed)
      PROVE  CacheInv'
  <2>1. RestTyped'
    BY <1>1, <1>9 DEF Invalidate, RestTyped, Version
  <2>2. level'[1] = Without(level[1], ks) /\ level'[2] = Without(level[2], ks) /\ DOMAIN level' = 1..2
    BY <1>9 DEF Invalidate, Removed
  <2>3. /\ NoMore(level[1], level'[1]) /\ NoMore(level[2], level'[2])
        /\ \A n \in 1..2 : \A k \in Held(level'[n]) : k \in Keys /\ k \notin ks
    BY <1>1, <2>2, WithoutKeepsNoMore DEF Held
  <2>4. \A k \in Keys : k \notin ks => source'[k] = source[k] /\ (k \in raced' <=> k \in raced)
    BY <1>1, <1>9 DEF Invalidate, RestTyped
  <2>5. LevelsTyped'
    BY <2>2, <2>3 DEF LevelsTyped, NoMore
  <2>6. ASSUME NEW n \in 1..2, NEW k \in Held(level'[n])
        PROVE  k \in Held(level[n]) /\ Alike(level[n].entries[k], level'[n].entries[k])
    BY <2>3 DEF NoMore, Held, Alike
  <2>7. HeldAgree'
    BY <2>6 DEF HeldAgree, CacheInv, Alike
  <2>8. LivesBounded'
    BY <2>6 DEF LivesBounded, CacheInv, Alike, Lives
  <2>9. HeldIsCurrent'
    <3> SUFFICES ASSUME NEW n \in 1..2, NEW k \in Held(level'[n])
                 PROVE  level'[n].entries[k].value = source'[k] \/ k \in raced'
      BY DEF HeldIsCurrent, Current
    <3>1. Current(k, level[n].entries[k].value)
      BY <2>6 DEF CacheInv, HeldIsCurrent
    <3> QED BY <2>3, <2>4, <2>6, <3>1 DEF Current, Alike
  <2>10. LoadsCurrent'
    <3> SUFFICES ASSUME NEW l \in Loaders, load[l] # None
                 PROVE  Current(load[l].key, load[l].since)'
      BY <1>9 DEF Invalidate, LoadsCurrent
    <3>1. Current(load[l].key, load[l].since)
      BY <1>2 DEF LoadsCurrent
    <3>2. load[l].key \in Keys
      BY <1>1 DEF RestTyped, Load
    <3>3. CASE load[l].key \notin ks
      BY <1>9, <2>4, <3>1, <3>2, <3>3 DEF Current, Invalidate
    <3>4. CASE load[l].key \in ks
      <4>1. load[l].key \notin changed => source'[load[l].key] = source[load[l].key]
        BY <1>1, <1>9, <3>2 DEF Invalidate, RestTyped
      <4>2. load[l].key \in raced \cup changed => load[l].key \in raced'
        BY <1>9, <3>2, <3>4 DEF Invalidate
      <4> QED BY <1>9, <3>1, <4>1, <4>2 DEF Current, Invalidate
    <3> QED BY <3>3, <3>4
  <2> QED BY <2>1, <2>5, <2>7, <2>8, <2>9, <2>10 DEF CacheInv
<1>10. CASE Prune
  <2>1. RestTyped' /\ LoadsCurrent'
    BY <1>1, <1>2, <1>10 DEF Prune, RestTyped, LoadsCurrent, Current
  <2>2. NoMore(level[1], level'[1]) /\ NoMore(level[2], level'[2]) /\ DOMAIN level' = 1..2
    BY <1>1, <1>10, WithoutKeepsNoMore DEF Prune
  <2> QED BY <1>10, <2>1, <2>2, NoMoreStep DEF Prune
<1>11. CASE Tick
  <2>1. RestTyped' /\ LoadsCurrent'
    BY <1>1, <1>2, <1>11 DEF Tick, RestTyped, LoadsCurrent, Current
  <2>2. NoMore(level[1], level'[1]) /\ NoMore(level[2], level'[2]) /\ DOMAIN level' = 1..2
    BY <1>1, <1>11, SoundNoMore DEF Tick
  <2> QED BY <1>11, <2>1, <2>2, NoMoreStep DEF Tick
<1>12. CASE UNCHANGED vars
  <2>1. RestTyped' /\ LoadsCurrent'
    BY <1>1, <1>2, <1>12 DEF vars, RestTyped, LoadsCurrent, Current
  <2>2. NoMore(level[1], level'[1]) /\ NoMore(level[2], level'[2]) /\ DOMAIN level' = 1..2
    BY <1>1, <1>12, SoundNoMore DEF vars
  <2> QED BY <1>12, <2>1, <2>2, NoMoreStep DEF vars
<1> QED
  BY <1>3, <1>4, <1>5, <1>6, <1>7, <1>8, <1>9, <1>10, <1>11, <1>12 DEF Next

LEMMA AlwaysCacheInv == Spec => []CacheInv
  BY InitCacheInv, NextCacheInv, PTL DEF Spec

-----------------------------------------------------------------------------
(* The theorems.                                                           *)

\* An entry that can be read is held by the level it is read from.
LEMMA ReadableIsHeld ==
  ASSUME CacheInv, NEW k \in Keys, Readable(k) # None
  PROVE  \E n \in 1..2 : /\ k \in Held(level[n])
                         /\ Readable(k) = level[n].entries[k]
                         /\ ~(now >= Readable(k).expiresAt)
  BY DEF Readable, Live, Expired

\* There are two levels.
IsPair == level = [n \in 1..2 |-> level[n]]

LEMMA AlwaysPair == Spec => []IsPair
<1>1. Init => IsPair
  BY DEF Init, IsPair
<1>2. ASSUME IsPair, [Next]_vars PROVE IsPair'
  <2>1. \A c, d : <<c, d>> = [n \in 1..2 |-> <<c, d>>[n]]
    OBVIOUS
  <2>2. ASSUME NEW c, NEW k, NEW v, NEW ttl, SetIn(c, k, v, ttl) PROVE IsPair'
    BY <2>1, <2>2 DEF SetIn, IsPair
  <2>3. ASSUME NEW k, Get(k) PROVE IsPair'
    <3>1. CASE \E c : level' = [level EXCEPT ![1] = c]
      BY <1>2, <3>1 DEF IsPair
    <3>2. CASE \E c, d : level' = <<c, d>>
      BY <2>1, <3>2 DEF IsPair
    <3>3. CASE level' = [n \in 1..2 |-> DropExpired(level[n], k)]
      BY <3>3 DEF IsPair
    <3> QED BY <2>3, <3>1, <3>2, <3>3 DEF Get, Promoted
  <2>4. ASSUME NEW k, HasKey(k) PROVE IsPair'
    BY <2>4 DEF HasKey, IsPair
  <2>5. CASE Prune
    BY <2>5 DEF Prune, IsPair
  <2>6. ASSUME NEW ks, NEW changed, Invalidate(ks, changed) PROVE IsPair'
    BY <2>6 DEF Invalidate, Removed, IsPair
  <2>7. CASE UNCHANGED level
    BY <1>2, <2>7 DEF IsPair
  <2> QED BY <1>2, <2>2, <2>3, <2>4, <2>5, <2>6, <2>7
          DEF Next, vars, Read, Set, GetOrSet, GetOrSetAsync, Loaded, Tick
<1> QED BY <1>1, <1>2, PTL DEF Spec

\* After any mixture of expiry, eviction, promotion and deletion the insertOrder
\* of each level names what it holds, each key once; and what both can serve is
\* the same, so that TieredCache.get answers whatever was evicted from the first.
THEOREM LevelsConsistent == Spec => []CacheConsistent
<1>1. ASSUME CacheInv, IsPair PROVE TypeOK
  <2>1. ASSUME NEW n \in 1..2 PROVE level[n] \in Level
    <3>1. Sound(level[n])
      BY <1>1 DEF CacheInv, LevelsTyped
    <3> QED BY <3>1 DEF Sound, Names, Level, Entries
  <2>2. level = [n \in 1..2 |-> level[n]]
    BY <1>1 DEF IsPair
  <2> QED BY <1>1, <2>1, <2>2 DEF CacheInv, RestTyped, TypeOK
<1>2. ASSUME CacheInv PROVE OrderExact
  <2> SUFFICES ASSUME NEW n \in 1..2
               PROVE  /\ {level[n].order[i] : i \in DOMAIN level[n].order} = Held(level[n])
                      /\ Len(level[n].order) = Cardinality(Held(level[n]))
    BY DEF OrderExact
  <2>1. Names(level[n].order, Held(level[n]))
    BY <1>2 DEF CacheInv, LevelsTyped, Sound
  <2>2. DOMAIN level[n].order = 1..Len(level[n].order)
    BY <2>1 DEF Names
  <2> QED BY <2>1, <2>2, NamesCount DEF Names
<1>3. ASSUME CacheInv PROVE LevelsAgree
  BY <1>3 DEF CacheInv, HeldAgree, LevelsAgree, Live
<1>4. CacheInv /\ IsPair => CacheConsistent
  BY <1>1, <1>2, <1>3 DEF CacheConsistent
<1> QED BY <1>4, AlwaysCacheInv, AlwaysPair, PTL

\* MemoryCache.set in promotion gives an entry a new life: it is the last one,
\* shorter than the first level's default time, however often it is promoted.
THEOREM StaleForOnePromotion == Spec => []StaleBounded
<1>1. CacheInv => StaleBounded
  <2> SUFFICES ASSUME CacheInv, NEW k \in Keys, Readable(k) # None
               PROVE  now + 1 < Readable(k).until + DefaultTtl \/ now < Readable(k).until
    BY DEF StaleBounded
  <2>1. PICK n \in 1..2 : /\ k \in Held(level[n])
                          /\ Readable(k) = level[n].entries[k]
                          /\ ~(now >= Readable(k).expiresAt)
    BY ReadableIsHeld
  <2>2. Readable(k) \in Entry
    BY <2>1 DEF CacheInv, LevelsTyped, Sound, Entries, Held
  <2>3. Readable(k).expiresAt <= Readable(k).until + Outlives(n)
    BY <2>1 DEF CacheInv, LivesBounded, Lives
  <2>4. now \in Nat
    BY DEF CacheInv, RestTyped
  <2> QED BY <2>1, <2>2, <2>3, <2>4 DEF Entry, Outlives
<1> QED BY <1>1, AlwaysCacheInv, PTL

\* getOrSetAsync stores what its factory read before the key was deleted: only
\* then is what is read not what the source has.
THEOREM StaleOnlyByRacingLoads == Spec => []OnlyRacingLoadServesStale
<1>1. CacheInv => OnlyRacingLoadServesStale
  BY ReadableIsHeld DEF CacheInv, HeldIsCurrent, Current, OnlyRacingLoadServesStale
<1> QED BY <1>1, AlwaysCacheInv, PTL

-----------------------------------------------------------------------------
(* Overflow.                                                               *)

LEMMA SizesAreNumbers == \A n \in 1..2 : Size[n] \in Nat /\ Size[n] >= 1
  BY DEF Size

LEMMA HeldIsFinite ==
  ASSUME NEW c
  PROVE  /\ Held(c) \subseteq Keys
         /\ IsFiniteSet(Held(c)) /\ Cardinality(Held(c)) \in Nat
<1>1. Held(c) \subseteq Keys
  BY DEF Held
<1> QED BY <1>1, FS_Subset, FS_CardinalityType

LEMMA FewerHeld ==
  ASSUME NEW c, NEW d, Held(d) \subseteq Held(c)
  PROVE  Cardinality(Held(d)) <= Cardinality(Held(c))
  BY HeldIsFinite, FS_Subset

\* Whom a level evicts, it holds: fifo takes the head of an exact order.
LEMMA VictimsAreHeld ==
  ASSUME NEW c, Sound(c), Held(c) # {}
  PROVE  Victims(c) \subseteq Held(c)
<1>1. CASE policy = "fifo"
  <2>1. Names(c.order, Held(c))
    BY DEF Sound
  <2>2. c.order \in Seq(Keys) /\ Held(c) = {c.order[i] : i \in 1..Len(c.order)}
    BY <2>1 DEF Names
  <2>3. 1 \in 1..Len(c.order)
    BY <2>2
  <2>4. Head(c.order) = c.order[1]
    BY <2>2, <2>3
  <2> QED BY <1>1, <2>2, <2>3, <2>4 DEF Victims
<1>2. CASE policy # "fifo"
  BY <1>2 DEF Victims
<1> QED BY <1>1, <1>2

LEMMA StoredFrom ==
  ASSUME NEW n, NEW c, NEW k, NEW v, NEW ttl, NEW until, NEW d \in Stored(c, n, k, v, ttl, until)
  PROVE  \E b \in (IF k \notin Held(c) /\ Full(c, n) THEN Evicted(c) ELSE {c}) :
           d.entries = [b.entries EXCEPT ![k] = FreshEntry(v, ttl, until)]
<1>1. PICK b \in (IF k \notin Held(c) /\ Full(c, n) THEN Evicted(c) ELSE {c}) :
         d = [entries |-> [b.entries EXCEPT ![k] = FreshEntry(v, ttl, until)],
              order |-> IF k \in Held(b) THEN b.order ELSE Append(b.order, k)]
  BY DEF Stored, FreshEntry
<1> QED BY <1>1

LEMMA StoredHolds ==
  ASSUME NEW n, NEW c, Sound(c), NEW k \in Keys, NEW v, NEW ttl, NEW until,
         NEW d \in Stored(c, n, k, v, ttl, until)
  PROVE  Held(d) \subseteq Held(c) \cup {k}
<1>1. PICK b \in (IF k \notin Held(c) /\ Full(c, n) THEN Evicted(c) ELSE {c}) :
         d.entries = [b.entries EXCEPT ![k] = FreshEntry(v, ttl, until)]
  BY StoredFrom
<1>2. b.entries \in Entries /\ Held(b) \subseteq Held(c)
  <2>1. NoMore(c, b)
    BY <1>1, EvictedKeepsNoMore, SoundNoMore
  <2> QED BY <2>1 DEF Sound, NoMore, Held, Alike
<1> QED BY <1>1, <1>2 DEF Held, Entries

\* What set may add to a level that evicts something is one key for another.
LEMMA StoredOverflows ==
  ASSUME RestTyped, NEW n \in 1..2, NEW c, Sound(c), NEW k \in Keys, NEW v, NEW ttl, NEW until,
         NEW d \in Stored(c, n, k, v, ttl, until),
         k \notin Held(c) /\ Full(c, n) => Victims(c) \subseteq Held(c),
         Cardinality(Held(d)) > Size[n], Cardinality(Held(d)) > Cardinality(Held(c))
  PROVE  EmptyKey \in Held(c)
<1>1. PICK b \in (IF k \notin Held(c) /\ Full(c, n) THEN Evicted(c) ELSE {c}) :
         d.entries = [b.entries EXCEPT ![k] = FreshEntry(v, ttl, until)]
  BY StoredFrom
<1>2. b.entries \in Entries
  BY <1>1, EvictedKeepsNoMore DEF Sound, NoMore
<1>3. Held(d) \subseteq Held(b) \cup {k}
  BY <1>1, <1>2 DEF Held, Entries
<1>4. k \notin Held(c)
  <2> SUFFICES ASSUME k \in Held(c) PROVE FALSE
    OBVIOUS
  <2>1. Held(d) \subseteq Held(c)
    BY <1>1, <1>3
  <2> QED BY <2>1, FewerHeld, HeldIsFinite
<1>5. Cardinality(Held(c)) + 1 = Cardinality(Held(c) \cup {k})
  <2>1. IsFiniteSet(Held(c))
    BY HeldIsFinite
  <2> DEFINE held == Held(c)
  <2> HIDE DEF held
  <2>2. Cardinality(held \cup {k}) = Cardinality(held) + 1
    BY <1>4, <2>1, FS_AddElement DEF held
  <2> QED BY <2>2 DEF held
<1>6. Full(c, n)
  <2> SUFFICES ASSUME ~Full(c, n) PROVE FALSE
    OBVIOUS
  <2>1. Held(d) \subseteq Held(c) \cup {k} /\ IsFiniteSet(Held(c) \cup {k})
    BY <1>1, <1>3, HeldIsFinite, FS_AddElement
  <2>2. Cardinality(Held(d)) <= Cardinality(Held(c)) + 1
    BY <1>5, <2>1, FS_Subset
  <2>3. Cardinality(Held(c)) < Size[n]
    BY HeldIsFinite, SizesAreNumbers DEF Full
  <2> QED BY <2>2, <2>3, HeldIsFinite, SizesAreNumbers
<1>7. PICK w \in Victims(c) : b = Without(c, {w} \ {EmptyKey})
  BY <1>1, <1>4, <1>6 DEF Evicted
<1>8. w \in Held(c)
  BY <1>4, <1>6, <1>7
<1>9. w = EmptyKey
  <2> SUFFICES ASSUME w # EmptyKey PROVE FALSE
    OBVIOUS
  <2>1. Held(b) \subseteq Held(c) \ {w}
    BY <1>7 DEF Without, Held
  <2>2. Held(d) \subseteq (Held(c) \cup {k}) \ {w}
    BY <1>3, <1>4, <1>8, <2>1
  <2>3. /\ IsFiniteSet((Held(c) \cup {k}) \ {w})
        /\ Cardinality((Held(c) \cup {k}) \ {w}) = Cardinality(Held(c) \cup {k}) - 1
    BY <1>8, HeldIsFinite, FS_AddElement, FS_RemoveElement
  <2>4. Cardinality(Held(d)) <= Cardinality(Held(c))
    BY <1>5, <2>2, <2>3, FS_Subset, HeldIsFinite
  <2> QED BY <2>4, HeldIsFinite
<1> QED BY <1>8, <1>9

\* No level grows beyond its size and beyond what it was but around the key "".
LEMMA SetOverflows ==
  ASSUME CacheInv, NEW n \in 1..2, NEW k \in Keys, NEW v, NEW ttl, NEW until,
         NEW c \in {level[n], DropExpired(level[n], k)},
         NEW d \in Stored(c, n, k, v, ttl, until),
         Cardinality(Held(d)) > Size[n], Cardinality(Held(d)) > Cardinality(Held(level[n]))
  PROVE  EmptyKey \in Held(level[n])
<1>1. RestTyped /\ Sound(level[n])
  BY DEF CacheInv, LevelsTyped
<1>2. CASE c = level[n]
  <2>1. k \notin Held(c) /\ Full(c, n) => Victims(c) \subseteq Held(c)
    <3> SUFFICES ASSUME Full(c, n) PROVE Victims(c) \subseteq Held(c)
      OBVIOUS
    <3>1. Held(c) # {}
      <4>1. Size[n] \in Nat /\ Size[n] >= 1 /\ Cardinality(Held(c)) >= Size[n]
        BY SizesAreNumbers DEF Full
      <4> QED BY <4>1, FS_EmptySet
    <3> QED BY <1>1, <1>2, <3>1, VictimsAreHeld
  <2> QED BY <1>1, <1>2, <2>1, StoredOverflows
<1>3. CASE c # level[n]
  <2>1. Expired(level[n], k) /\ c = Without(level[n], {k})
    BY <1>3 DEF DropExpired
  <2>2. k \in Held(level[n]) /\ Held(c) \subseteq Held(level[n]) \ {k} /\ k \notin Held(c)
    BY <2>1 DEF Expired, Without, Held
  <2>3. Sound(c)
    BY <1>1, <2>1, WithoutKeepsNoMore DEF NoMore
  <2>4. d \in Stored(c, n, k, v, ttl, until)
    OBVIOUS
  <2>5. Held(d) \subseteq Held(c) \cup {k}
    BY <2>3, <2>4, StoredHolds
  <2>6. Held(d) \subseteq Held(level[n])
    BY <2>2, <2>5
  <2>7. Cardinality(Held(d)) <= Cardinality(Held(level[n]))
    BY <2>6, FewerHeld
  <2> QED BY <2>7, HeldIsFinite
<1> QED BY <1>2, <1>3

\* A level that holds nothing it did not hold has not grown.
LEMMA NoMoreIsNoGrowth ==
  ASSUME NEW c, NEW d, NoMore(c, d)
  PROVE  ~(Cardinality(Held(d)) > Cardinality(Held(c)))
<1>1. Held(d) \subseteq Held(c)
  BY DEF NoMore, Held, Alike
<1> QED BY <1>1, FewerHeld, HeldIsFinite

Overflows(n) ==
    /\ Cardinality(Held(level'[n])) > Size[n]
    /\ Cardinality(Held(level'[n])) > Cardinality(Held(level[n]))

LEMMA SettingOverflows ==
  ASSUME CacheInv, NEW k \in Keys, NEW ttl, NEW v, NEW c,
         \A m \in 1..2 : c[m] \in {level[m], DropExpired(level[m], k)},
         SetIn(c, k, v, ttl), NEW n \in 1..2, Overflows(n)
  PROVE  EmptyKey \in Held(level[n])
<1>1. PICK d1 \in Stored(c[1], 1, k, v, ttl, now + ttl), d2 \in Stored(c[2], 2, k, v, ttl, now + ttl) :
        level' = <<d1, d2>>
  BY DEF SetIn
<1>2. CASE n = 1
  BY <1>1, <1>2, SetOverflows DEF Overflows
<1>3. CASE n = 2
  BY <1>1, <1>3, SetOverflows DEF Overflows
<1> QED BY <1>2, <1>3

LEMMA GettingOverflows ==
  ASSUME CacheInv, NEW k \in Keys, Get(k), NEW n \in 1..2, Overflows(n)
  PROVE  EmptyKey \in Held(level[n])
<1>1. RestTyped /\ Sound(level[1]) /\ Sound(level[2]) /\ DOMAIN level = 1..2
  BY DEF CacheInv, LevelsTyped
<1>2. CASE Live(level[1], k)
  <2>1. level' = [level EXCEPT ![1] = Touched(@, k)]
    BY <1>2 DEF Get
  <2>2. NoMore(level[1], level'[1]) /\ NoMore(level[2], level'[2])
    BY <1>1, <2>1, TouchedKeepsNoMore, SoundNoMore
  <2> QED BY <2>2, NoMoreIsNoGrowth DEF Overflows
<1>3. CASE ~Live(level[1], k) /\ Live(level[2], k)
  <2>1. PICK d \in Stored(DropExpired(level[1], k), 1, k, level[2].entries[k].value, DefaultTtl,
                          level[2].entries[k].until) :
          level' = <<d, Touched(level[2], k)>>
    BY <1>3 DEF Get, Promoted
  <2>2. CASE n = 1
    BY <2>1, <2>2, SetOverflows DEF Overflows
  <2>3. CASE n = 2
    <3>1. NoMore(level[2], level'[2])
      BY <1>1, <2>1, TouchedKeepsNoMore
    <3> QED BY <2>3, <3>1, NoMoreIsNoGrowth DEF Overflows
  <2> QED BY <2>2, <2>3
<1>4. CASE ~Live(level[1], k) /\ ~Live(level[2], k)
  <2>1. level' = [m \in 1..2 |-> DropExpired(level[m], k)]
    BY <1>4 DEF Get
  <2>2. NoMore(level[1], level'[1]) /\ NoMore(level[2], level'[2])
    BY <1>1, <2>1, DropExpiredKeepsNoMore
  <2> QED BY <2>2, NoMoreIsNoGrowth DEF Overflows
<1> QED BY <1>2, <1>3, <1>4

LEMMA NextOverflows ==
  ASSUME CacheInv, [Next]_vars, NEW n \in 1..2, Overflows(n)
  PROVE  EmptyKey \in Held(level[n])
<1>1. RestTyped /\ Sound(level[1]) /\ Sound(level[2]) /\ DOMAIN level = 1..2
  BY DEF CacheInv, LevelsTyped
<1>2. ASSUME NEW k \in Keys, Read(k) PROVE EmptyKey \in Held(level[n])
  BY <1>2, GettingOverflows DEF Read
<1>3. ASSUME NEW k \in Keys, HasKey(k) PROVE FALSE
  <2>1. NoMore(level[1], level'[1]) /\ NoMore(level[2], level'[2])
    BY <1>1, <1>3, DropExpiredKeepsNoMore, SoundNoMore DEF HasKey
  <2> QED BY <2>1, NoMoreIsNoGrowth DEF Overflows
<1>4. ASSUME NEW k \in Keys, NEW ttl \in Ttls, Set(k, ttl) PROVE EmptyKey \in Held(level[n])
  BY <1>4, SettingOverflows DEF Set
<1>5. ASSUME NEW k \in Keys, NEW ttl \in Ttls, GetOrSet(k, ttl) PROVE EmptyKey \in Held(level[n])
  <2> DEFINE c == [m \in 1..2 |-> DropExpired(level[m], k)]
  <2>1. \A m \in 1..2 : c[m] \in {level[m], DropExpired(level[m], k)}
    OBVIOUS
  <2>2. SetIn(c, k, source[k], ttl)
    BY <1>5 DEF GetOrSet
  <2> HIDE DEF c
  <2> QED BY <2>1, <2>2, SettingOverflows
<1>6. ASSUME NEW k \in Keys, NEW ttl \in Ttls, NEW l \in Loaders, GetOrSetAsync(l, k, ttl)
      PROVE  EmptyKey \in Held(level[n])
  BY <1>6, GettingOverflows DEF GetOrSetAsync
<1>7. ASSUME NEW l \in Loaders, Loaded(l) PROVE EmptyKey \in Held(level[n])
  <2>1. load[l].key \in Keys
    BY <1>1, <1>7 DEF Loaded, RestTyped, Load
  <2>2. CASE UNCHANGED level
    BY <1>1, <2>2, SoundNoMore, NoMoreIsNoGrowth DEF Overflows
  <2>3. ASSUME NEW v, SetIn(level, load[l].key, v, load[l].ttl) PROVE EmptyKey \in Held(level[n])
    BY <2>1, <2>3, SettingOverflows
  <2> QED BY <1>7, <2>2, <2>3 DEF Loaded
<1>8. ASSUME NEW ks \in SUBSET Keys, NEW changed, Invalidate(ks, changed) PROVE FALSE
  <2>1. NoMore(level[1], level'[1]) /\ NoMore(level[2], level'[2])
    BY <1>1, <1>8, WithoutKeepsNoMore DEF Invalidate, Removed
  <2> QED BY <2>1, NoMoreIsNoGrowth DEF Overflows
<1>9. CASE Prune
  <2>1. NoMore(level[1], level'[1]) /\ NoMore(level[2], level'[2])
    BY <1>1, <1>9, WithoutKeepsNoMore DEF Prune
  <2> QED BY <2>1, NoMoreIsNoGrowth DEF Overflows
<1>10. CASE Tick \/ UNCHANGED vars
  <2>1. NoMore(level[1], level'[1]) /\ NoMore(level[2], level'[2])
    BY <1>1, <1>10, SoundNoMore DEF Tick, vars
  <2> QED BY <2>1, NoMoreIsNoGrowth DEF Overflows
<1> QED
  BY <1>2, <1>3, <1>4, <1>5, <1>6, <1>7, <1>8, <1>9, <1>10 DEF Next

\* evict is given the empty string as a key to evict and takes it for none:
\* that is the only way beyond maxSize.
THEOREM OverflowsByTheEmptyKey == Spec => OnlyEmptyKeyOverflows
<1>1. CacheInv /\ [Next]_vars =>
        \A n \in 1..2 :
          /\ Cardinality(Held(level'[n])) > Size[n]
          /\ Cardinality(Held(level'[n])) > Cardinality(Held(level[n]))
          => EmptyKey \in Held(level[n])
  BY NextOverflows DEF Overflows
<1> QED BY <1>1, AlwaysCacheInv, PTL DEF Spec, OnlyEmptyKeyOverflows
=============================================================================
