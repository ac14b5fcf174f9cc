---------------------------- MODULE Stores_proofs ----------------------------
(***************************************************************************)
(* Theorems about the two stores of records that several callers write:    *)
(* CredentialStore, for any number of sessions, sweepers, credentials,     *)
(* accessors, policies, provider versions and calls, and ConfigDocuments,  *)
(* for any clients, routes, editors, hooks, events and bounds; and about   *)
(* what DocumentTools makes of documents, for any contents and changes,    *)
(* and PolicyReviews of policy documents and of audited evaluations, for   *)
(* any rules, files, windows and thresholds.                               *)
(***************************************************************************)
EXTENDS CredentialStore, ConfigDocuments, DocumentTools, PolicyReviews, FiniteSetTheorems,
        SequenceTheorems, WellFoundedInduction, TLAPS

-----------------------------------------------------------------------------
(* Induction, for a set instead of a predicate: a least counterexample; and
   loops, which do a step a number of times.                               *)

LEMMA NatLeast ==
  ASSUME NEW T \in SUBSET Nat, T # {}
  PROVE  \E x \in T : \A y \in T : ~(y < x)
<1> DEFINE R == OpToRel(<, Nat)
<1>1. IsWellFoundedOn(R, Nat)
  BY NatLessThanWellFounded
<1>2. \A x, y \in Nat : <<x, y>> \in R <=> x < y
  BY DEF OpToRel
<1> HIDE DEF R
<1>3. \E x \in T : \A y \in T : ~(<<y, x>> \in R)
  BY <1>1, WFMin
<1> QED BY <1>2, <1>3

LEMMA Induction ==
  ASSUME NEW T \in SUBSET Nat, 0 \in T, \A n \in T : n + 1 \in T
  PROVE  T = Nat
<1> SUFFICES ASSUME T # Nat PROVE FALSE
  OBVIOUS
<1>1. PICK x \in Nat \ T : \A y \in Nat \ T : ~(y < x)
  BY NatLeast
<1>2. x - 1 \in Nat /\ x - 1 \in T
  BY <1>1
<1> QED BY <1>1, <1>2

\* g is what n turns of a loop leave that starts from base and does F.
Turns(g, n, base, F) ==
  g = [m \in 0..n |-> IF m = 0 THEN base ELSE F[<<m, g[m - 1]>>]]

LEMMA LoopTurns ==
  ASSUME NEW V, NEW base \in V, NEW N \in Nat, NEW F \in [(1..N) \X V -> V]
  PROVE  \E g \in [0..N -> V] : Turns(g, N, base, F)
<1> DEFINE T == {n \in Nat : n <= N => \E g \in [0..n -> V] : Turns(g, n, base, F)}
<1>1. 0 \in T
  <2> DEFINE g == [m \in 0..0 |-> base]
  <2>1. g \in [0..0 -> V] /\ \A m \in 0..0 : m = 0
    OBVIOUS
  <2>2. g = [m \in 0..0 |-> IF m = 0 THEN base ELSE F[<<m, g[m - 1]>>]]
    BY <2>1
  <2> QED BY <2>1, <2>2 DEF Turns
<1>2. ASSUME NEW n \in T PROVE n + 1 \in T
  <2>1. SUFFICES ASSUME n + 1 <= N
                 PROVE  \E g \in [0..(n + 1) -> V] : Turns(g, n + 1, base, F)
    OBVIOUS
  <2>2. PICK g \in [0..n -> V] : Turns(g, n, base, F)
    BY <2>1
  <2>3. n + 1 \in 1..N /\ g[n] \in V
    BY <2>1, <2>2
  <2>4. PICK v \in V : v = F[<<n + 1, g[n]>>]
    BY <2>3
  <2> DEFINE h == [m \in 0..(n + 1) |-> IF m = n + 1 THEN v ELSE g[m]]
  <2>5. h \in [0..(n + 1) -> V]
    BY <2>2, <2>4
  <2>6. \A m \in 0..n : h[m] = g[m]
    OBVIOUS
  <2>7. ASSUME NEW m \in 0..(n + 1)
        PROVE  h[m] = IF m = 0 THEN base ELSE F[<<m, h[m - 1]>>]
    <3>1. CASE m = n + 1
      <4>1. m # 0 /\ m - 1 = n /\ h[m - 1] = g[n]
        BY <3>1, <2>6
      <4> QED BY <3>1, <4>1, <2>4
    <3>2. CASE m # n + 1
      <4>1. m \in 0..n /\ (m # 0 => m - 1 \in 0..n)
        BY <3>2
      <4>2. g[m] = IF m = 0 THEN base ELSE F[<<m, g[m - 1]>>]
        BY <2>2, <4>1 DEF Turns
      <4> QED BY <4>1, <4>2, <2>6
    <3> QED BY <3>1, <3>2
  <2>8. h = [m \in 0..(n + 1) |-> IF m = 0 THEN base ELSE F[<<m, h[m - 1]>>]]
    <3> HIDE DEF h
    <3> QED BY <2>5, <2>7
  <2> QED BY <2>5, <2>8 DEF Turns
<1>3. T = Nat
  <2> HIDE DEF T
  <2> QED BY <1>1, <1>2, Induction DEF T
<1> QED BY <1>3

LEMMA StaysIn ==
  ASSUME NEW V, NEW N \in Nat, NEW f, f = [m \in 0..N |-> f[m]], f[0] \in V,
         \A m \in 1..N : f[m - 1] \in V => f[m] \in V
  PROVE  f \in [0..N -> V]
<1> DEFINE T == {n \in Nat : n <= N => f[n] \in V}
<1>1. 0 \in T
  OBVIOUS
<1>2. ASSUME NEW n \in T PROVE n + 1 \in T
  <2>1. SUFFICES ASSUME n + 1 <= N PROVE f[n + 1] \in V
    OBVIOUS
  <2>2. n + 1 \in 1..N /\ (n + 1) - 1 = n /\ f[n] \in V
    BY <2>1
  <2> QED BY <2>2
<1>3. T = Nat
  <2> HIDE DEF T
  <2> QED BY <1>1, <1>2, Induction DEF T
<1>4. \A m \in 0..N : f[m] \in V
  BY <1>3
<1> QED BY <1>4

-----------------------------------------------------------------------------
(* The table of longest common subsequences. *)

\* prevRow lies above what the loop writes for line i of a, currRow.
IsRow(a, b, i, prevRow, currRow) ==
  /\ currRow[0] = 0
  /\ \A j \in 1..Len(b) :
       currRow[j] = IF a[i] = b[j] THEN prevRow[j - 1] + 1 ELSE Later(prevRow[j], currRow[j - 1])

LEMMA RowIs ==
  ASSUME NEW a, NEW b, Len(b) \in Nat, NEW i, NEW prevRow \in [0..Len(b) -> Nat]
  PROVE  /\ LcsRow(a, b, i, prevRow) \in [0..Len(b) -> Nat]
         /\ IsRow(a, b, i, prevRow, LcsRow(a, b, i, prevRow))
<1> DEFINE n == Len(b)
           F == [x \in (1..n) \X Nat |->
                   IF a[i] = b[x[1]] THEN prevRow[x[1] - 1] + 1 ELSE Later(prevRow[x[1]], x[2])]
           Is(g) == g = [j \in 0..n |-> IF j = 0 THEN 0
                                        ELSE IF a[i] = b[j] THEN prevRow[j - 1] + 1
                                        ELSE Later(prevRow[j], g[j - 1])]
<1>1. F \in [(1..n) \X Nat -> Nat]
  <2> SUFFICES ASSUME NEW x \in (1..n) \X Nat
               PROVE  (IF a[i] = b[x[1]] THEN prevRow[x[1] - 1] + 1
                       ELSE Later(prevRow[x[1]], x[2])) \in Nat
    OBVIOUS
  <2>1. x[1] \in 1..n /\ x[2] \in Nat
    OBVIOUS
  <2>2. prevRow[x[1]] \in Nat /\ prevRow[x[1] - 1] \in Nat
    BY <2>1
  <2> QED BY <2>1, <2>2 DEF Later
<1>2. PICK g \in [0..n -> Nat] : Turns(g, n, 0, F)
  <2> HIDE DEF F
  <2> QED BY <1>1, LoopTurns
<1>3. ASSUME NEW j \in 0..n
      PROVE  g[j] = IF j = 0 THEN 0
                    ELSE IF a[i] = b[j] THEN prevRow[j - 1] + 1 ELSE Later(prevRow[j], g[j - 1])
  <2>1. g[j] = IF j = 0 THEN 0 ELSE F[<<j, g[j - 1]>>]
    <3> HIDE DEF F
    <3> QED BY <1>2 DEF Turns
  <2>2. j # 0 => <<j, g[j - 1]>> \in (1..n) \X Nat
    BY <1>2
  <2> QED BY <2>1, <2>2
<1>4. Is(g)
  BY <1>2, <1>3
<1> DEFINE r == LcsRow(a, b, i, prevRow)
<1>5. r = CHOOSE f : Is(f)
  BY DEF LcsRow
<1>6. Is(r)
  <2> HIDE DEF Is, r
  <2> QED BY <1>4, <1>5
<1>7. r = [j \in 0..n |-> r[j]]
  <2> HIDE DEF r
  <2> QED BY <1>6
<1>9. \A j \in 0..n : r[j] = IF j = 0 THEN 0 ELSE IF a[i] = b[j] THEN prevRow[j - 1] + 1
                                                 ELSE Later(prevRow[j], r[j - 1])
  <2> HIDE DEF r
  <2> QED BY <1>6
<1>8. r \in [0..n -> Nat]
  <2> HIDE DEF r
  <2>1. r[0] \in Nat
    BY <1>9
  <2>2. ASSUME NEW j \in 1..n, r[j - 1] \in Nat PROVE r[j] \in Nat
    <3>1. j \in 0..n /\ j # 0 /\ prevRow[j] \in Nat /\ prevRow[j - 1] \in Nat
      OBVIOUS
    <3>2. r[j] = IF a[i] = b[j] THEN prevRow[j - 1] + 1 ELSE Later(prevRow[j], r[j - 1])
      BY <3>1, <1>9
    <3>3. prevRow[j - 1] + 1 \in Nat /\ Later(prevRow[j], r[j - 1]) \in Nat
      BY <3>1, <2>2 DEF Later
    <3> QED BY <3>2, <3>3
  <2> QED BY <1>7, <2>1, <2>2, StaysIn
<1> HIDE DEF r
<1>10. r[0] = 0 /\ \A j \in 1..n : r[j] = IF a[i] = b[j] THEN prevRow[j - 1] + 1
                                          ELSE Later(prevRow[j], r[j - 1])
  <2> HIDE DEF Is, F
  <2>1. n \in Nat /\ 0 \in 0..n /\ \A j \in 1..n : j \in 0..n /\ j # 0
    OBVIOUS
  <2>2. r[0] = 0
    BY <1>9, <2>1
  <2>3. ASSUME NEW j \in 1..n
        PROVE  r[j] = IF a[i] = b[j] THEN prevRow[j - 1] + 1 ELSE Later(prevRow[j], r[j - 1])
    <3>1. j \in 0..n /\ j # 0
      BY <2>1
    <3> QED BY <1>9, <3>1
  <2> QED BY <2>2, <2>3
<1> QED BY <1>8, <1>10 DEF r, IsRow

\* dp is the table of the two contents.
IsTable(a, b, dp) ==
  /\ dp \in [0..Len(a) -> [0..Len(b) -> Nat]]
  /\ \A j \in 0..Len(b) : dp[0][j] = 0
  /\ \A i \in 0..Len(a) : dp[i][0] = 0
  /\ \A i \in 1..Len(a) : \A j \in 1..Len(b) :
       dp[i][j] = IF a[i] = b[j] THEN dp[i - 1][j - 1] + 1 ELSE Later(dp[i - 1][j], dp[i][j - 1])

LEMMA TableIs ==
  ASSUME NEW a, NEW b, Len(a) \in Nat, Len(b) \in Nat
  PROVE  IsTable(a, b, LcsTable(a, b))
<1> DEFINE m == Len(a)
           V == [0..Len(b) -> Nat]
           none == [j \in 0..Len(b) |-> 0]
           F == [x \in (1..m) \X V |-> LcsRow(a, b, x[1], x[2])]
           Is(g) == g = [i \in 0..m |-> IF i = 0 THEN none ELSE LcsRow(a, b, i, g[i - 1])]
<1>0. none \in V /\ m \in Nat
  OBVIOUS
<1>1. F \in [(1..m) \X V -> V]
  <2> SUFFICES ASSUME NEW x \in (1..m) \X V
               PROVE  LcsRow(a, b, x[1], x[2]) \in V
    OBVIOUS
  <2>1. x[2] \in V
    OBVIOUS
  <2> QED BY <2>1, RowIs
<1>2. PICK g \in [0..m -> V] : Turns(g, m, none, F)
  <2> HIDE DEF F, V, none, m
  <2> QED BY <1>0, <1>1, LoopTurns
<1>3. ASSUME NEW i \in 0..m
      PROVE  g[i] = IF i = 0 THEN none ELSE LcsRow(a, b, i, g[i - 1])
  <2>1. g[i] = IF i = 0 THEN none ELSE F[<<i, g[i - 1]>>]
    <3> HIDE DEF F, V, none
    <3> QED BY <1>2 DEF Turns
  <2>2. i # 0 => <<i, g[i - 1]>> \in (1..m) \X V
    <3> HIDE DEF V
    <3> QED BY <1>2
  <2> HIDE DEF V, none
  <2> QED BY <2>1, <2>2
<1>4. Is(g)
  <2> HIDE DEF V, none
  <2> QED BY <1>2, <1>3
<1> DEFINE dp == LcsTable(a, b)
<1>5. dp = CHOOSE f : Is(f)
  BY DEF LcsTable
<1>6. Is(dp)
  <2> HIDE DEF Is, dp
  <2> QED BY <1>4, <1>5
<1> HIDE DEF dp
<1>7. dp = [i \in 0..m |-> dp[i]]
  <2> HIDE DEF none
  <2> QED BY <1>6
<1>8. \A i \in 0..m : dp[i] = IF i = 0 THEN none ELSE LcsRow(a, b, i, dp[i - 1])
  <2> HIDE DEF none
  <2> QED BY <1>6
<1>9. dp \in [0..m -> V]
  <2>1. dp[0] \in V
    BY <1>0, <1>8
  <2>2. ASSUME NEW i \in 1..m, dp[i - 1] \in V PROVE dp[i] \in V
    <3>1. dp[i] = LcsRow(a, b, i, dp[i - 1])
      BY <1>8
    <3>2. LcsRow(a, b, i, dp[i - 1]) \in V
      <4> HIDE DEF m
      <4> QED BY <2>2, RowIs
    <3> HIDE DEF V
    <3> QED BY <3>1, <3>2
  <2> HIDE DEF V
  <2> QED BY <1>0, <1>7, <2>1, <2>2, StaysIn
<1>10. \A j \in 0..Len(b) : dp[0][j] = 0
  BY <1>0, <1>8
<1>11. ASSUME NEW i \in 1..m
       PROVE  /\ dp[i][0] = 0
              /\ \A j \in 1..Len(b) :
                   dp[i][j] = IF a[i] = b[j] THEN dp[i - 1][j - 1] + 1
                              ELSE Later(dp[i - 1][j], dp[i][j - 1])
  <2>1. dp[i] = LcsRow(a, b, i, dp[i - 1]) /\ dp[i - 1] \in V
    <3> HIDE DEF V, none
    <3> QED BY <1>8, <1>9
  <2> DEFINE above == dp[i - 1]
  <2>2. above \in [0..Len(b) -> Nat] /\ Len(b) \in Nat
    BY <2>1
  <2> HIDE DEF above
  <2>3. IsRow(a, b, i, above, LcsRow(a, b, i, above))
    <3> HIDE DEF m, none, V, dp
    <3> QED BY <2>2, RowIs
  <2>4. IsRow(a, b, i, above, dp[i])
    BY <2>1, <2>3 DEF above
  <2> QED BY <2>4 DEF above, IsRow
<1>12. \A i \in 0..m : dp[i][0] = 0
  BY <1>10, <1>11
<1> QED BY <1>9, <1>10, <1>11, <1>12 DEF IsTable, dp

\* Which lines of the first i of a are which of the first j of b: p of them.
Matching(a, b, p, i, j, f, g) ==
  /\ f \in [1..p -> 1..i] /\ g \in [1..p -> 1..j]
  /\ \A x, y \in 1..p : x < y => f[x] < f[y] /\ g[x] < g[y]
  /\ \A x \in 1..p : a[f[x]] = b[g[x]]

LEMMA MatchingShrinks ==
  ASSUME NEW a, NEW b, NEW p \in Nat \ {0}, NEW i \in Nat, NEW j \in Nat, NEW f, NEW g,
         Matching(a, b, p, i, j, f, g)
  PROVE  /\ i > 0 /\ j > 0
         /\ \E f2, g2 : Matching(a, b, p - 1, i - 1, j - 1, f2, g2)
         /\ \/ a[i] = b[j]
            \/ Matching(a, b, p, i - 1, j, f, g)
            \/ Matching(a, b, p, i, j - 1, f, g)
<1>0. p \in 1..p /\ f[p] \in 1..i /\ g[p] \in 1..j /\ p - 1 \in Nat
  BY DEF Matching
<1>1. i > 0 /\ j > 0
  BY <1>0
<1>2. \A x \in 1..p : f[x] \in 1..i /\ g[x] \in 1..j /\ f[x] <= f[p] /\ g[x] <= g[p]
  <2> SUFFICES ASSUME NEW x \in 1..p
               PROVE  f[x] \in 1..i /\ g[x] \in 1..j /\ f[x] <= f[p] /\ g[x] <= g[p]
    OBVIOUS
  <2>1. f[x] \in 1..i /\ g[x] \in 1..j
    BY DEF Matching
  <2>2. x < p => f[x] < f[p] /\ g[x] < g[p]
    BY <1>0 DEF Matching
  <2> QED BY <1>0, <2>1, <2>2
<1>3. \E f2, g2 : Matching(a, b, p - 1, i - 1, j - 1, f2, g2)
  <2> DEFINE f2 == [x \in 1..(p - 1) |-> f[x]]
             g2 == [x \in 1..(p - 1) |-> g[x]]
  <2>1. ASSUME NEW x \in 1..(p - 1)
        PROVE  x \in 1..p /\ f[x] \in 1..(i - 1) /\ g[x] \in 1..(j - 1)
    <3>1. x \in 1..p /\ x < p
      BY <1>0
    <3>2. f[x] < f[p] /\ g[x] < g[p]
      BY <3>1, <1>0 DEF Matching
    <3> QED BY <3>1, <3>2, <1>0, <1>2
  <2>2. f2 \in [1..(p - 1) -> 1..(i - 1)] /\ g2 \in [1..(p - 1) -> 1..(j - 1)]
    BY <2>1
  <2>3. Matching(a, b, p - 1, i - 1, j - 1, f2, g2)
    BY <2>1, <2>2 DEF Matching
  <2> QED BY <2>3
<1>4. ASSUME a[i] # b[j]
      PROVE  Matching(a, b, p, i - 1, j, f, g) \/ Matching(a, b, p, i, j - 1, f, g)
  <2>1. f[p] # i \/ g[p] # j
    BY <1>0, <1>4 DEF Matching
  <2>2. CASE f[p] # i
    <3>1. \A x \in 1..p : f[x] \in 1..(i - 1)
      BY <1>0, <1>2, <2>2
    <3>2. f \in [1..p -> 1..(i - 1)]
      BY <3>1 DEF Matching
    <3> QED BY <3>2 DEF Matching
  <2>3. CASE g[p] # j
    <3>1. \A x \in 1..p : g[x] \in 1..(j - 1)
      BY <1>0, <1>2, <2>3
    <3>2. g \in [1..p -> 1..(j - 1)]
      BY <3>1 DEF Matching
    <3> QED BY <3>2 DEF Matching
  <2> QED BY <2>1, <2>2, <2>3
<1> QED BY <1>1, <1>3, <1>4

\* No matching is longer than the table says.
LEMMA TableIsLongest ==
  ASSUME NEW a, NEW b, Len(a) \in Nat, Len(b) \in Nat, NEW dp, IsTable(a, b, dp),
         NEW i \in 0..Len(a), NEW j \in 0..Len(b), NEW p \in Nat, NEW f, NEW g,
         Matching(a, b, p, i, j, f, g)
  PROVE  p <= dp[i][j]
<1> DEFINE T == {t \in Nat : \A x \in 0..Len(a), y \in 0..Len(b), q \in Nat : \A f1, g1 :
                               x + y <= t /\ Matching(a, b, q, x, y, f1, g1) => q <= dp[x][y]}
<1>1. 0 \in T
  <2> SUFFICES ASSUME NEW x \in 0..Len(a), NEW y \in 0..Len(b), NEW q \in Nat, NEW f1, NEW g1,
                      x + y <= 0, Matching(a, b, q, x, y, f1, g1)
               PROVE  q <= dp[x][y]
    OBVIOUS
  <2>1. x = 0
    OBVIOUS
  <2>2. q = 0
    BY <2>1, MatchingShrinks
  <2>3. dp[x][y] \in Nat
    BY DEF IsTable
  <2> QED BY <2>2, <2>3
<1>2. ASSUME NEW t \in T PROVE t + 1 \in T
  <2> SUFFICES ASSUME NEW x \in 0..Len(a), NEW y \in 0..Len(b), NEW q \in Nat, NEW f1, NEW g1,
                      x + y <= t + 1, Matching(a, b, q, x, y, f1, g1)
               PROVE  q <= dp[x][y]
    OBVIOUS
  <2>0. /\ t \in Nat
        /\ \A v \in 0..Len(a), w \in 0..Len(b), u \in Nat : \A f2, g2 :
             v + w <= t /\ Matching(a, b, u, v, w, f2, g2) => u <= dp[v][w]
    OBVIOUS
  <2> HIDE DEF T
  <2>1. CASE q = 0
    <3>1. dp[x][y] \in Nat
      BY DEF IsTable
    <3> QED BY <3>1, <2>1
  <2>2. CASE q # 0
    <3>1. /\ x > 0 /\ y > 0
          /\ \E f2, g2 : Matching(a, b, q - 1, x - 1, y - 1, f2, g2)
          /\ \/ a[x] = b[y]
             \/ Matching(a, b, q, x - 1, y, f1, g1)
             \/ Matching(a, b, q, x, y - 1, f1, g1)
      <4>1. x \in Nat /\ y \in Nat /\ q \in Nat \ {0}
        BY <2>2
      <4> QED BY <4>1, MatchingShrinks
    <3>2. /\ x - 1 \in 0..Len(a) /\ y - 1 \in 0..Len(b) /\ x \in 1..Len(a) /\ y \in 1..Len(b)
          /\ (x - 1) + (y - 1) <= t /\ (x - 1) + y <= t /\ x + (y - 1) <= t /\ q - 1 \in Nat
      <4>1. x \in Nat /\ y \in Nat /\ x > 0 /\ y > 0 /\ t \in Nat /\ x + y <= t + 1
            /\ x <= Len(a) /\ y <= Len(b)
        BY <3>1, <2>0
      <4> QED BY <4>1, <2>2
    <3>3. dp[x][y] = IF a[x] = b[y] THEN dp[x - 1][y - 1] + 1
                     ELSE Later(dp[x - 1][y], dp[x][y - 1])
      BY <3>2 DEF IsTable
    <3>4. dp[x - 1][y] \in Nat /\ dp[x][y - 1] \in Nat /\ dp[x - 1][y - 1] \in Nat
      BY <3>2 DEF IsTable
    <3>5. CASE a[x] = b[y]
      <4>1. q - 1 <= dp[x - 1][y - 1]
        BY <3>1, <3>2, <2>0
      <4>2. dp[x][y] = dp[x - 1][y - 1] + 1
        BY <3>3, <3>5
      <4>3. \A A, C \in Nat : C - 1 <= A => C <= A + 1
        OBVIOUS
      <4> QED BY <4>1, <4>2, <4>3, <3>4
    <3>6. CASE a[x] # b[y]
      <4>1. q <= dp[x - 1][y] \/ q <= dp[x][y - 1]
        BY <3>1, <3>2, <3>6, <2>0
      <4>2. dp[x][y] = Later(dp[x - 1][y], dp[x][y - 1])
        BY <3>3, <3>6
      <4>3. \A A, B, C \in Nat : C <= A \/ C <= B => C <= Later(A, B)
        BY DEF Later
      <4> QED BY <4>1, <4>2, <4>3, <3>4
    <3> QED BY <3>5, <3>6
  <2> QED BY <2>1, <2>2
<1>3. T = Nat
  <2> HIDE DEF T
  <2> QED BY <1>1, <1>2, Induction DEF T
<1>4. i + j \in T
  <2>1. i + j \in Nat
    OBVIOUS
  <2> HIDE DEF T
  <2> QED BY <2>1, <1>3
<1> QED BY <1>4

-----------------------------------------------------------------------------
(* The subsequence the table leads to. *)

\* What follows the first k of s is found, in its order, after the first i of t.
Embedding(s, k, t, i, f) ==
  /\ f \in [(k + 1)..Len(s) -> (i + 1)..Len(t)]
  /\ \A x, y \in (k + 1)..Len(s) : x < y => f[x] < f[y]
  /\ \A x \in (k + 1)..Len(s) : s[x] = t[f[x]]

Embeds(s, k, t, i) == \E f : Embedding(s, k, t, i, f)

LEMMA EmbedsEarlier ==
  ASSUME NEW s, NEW k, NEW t, NEW i \in Nat, NEW j \in Nat, Len(t) \in Nat, j <= i, Embeds(s, k, t, i)
  PROVE  Embeds(s, k, t, j)
<1>1. PICK f : Embedding(s, k, t, i, f)
  BY DEF Embeds
<1>2. (i + 1)..Len(t) \subseteq (j + 1)..Len(t)
  OBVIOUS
<1>3. f \in [(k + 1)..Len(s) -> (j + 1)..Len(t)]
  BY <1>1, <1>2 DEF Embedding
<1> QED BY <1>1, <1>3 DEF Embeds, Embedding

LEMMA EmbedsSkipping ==
  ASSUME NEW s, NEW k \in Nat, NEW t, NEW i \in Nat, Len(t) \in Nat, Len(s) \in Nat, i < Len(t),
         ~(k < Len(s) /\ t[i + 1] = s[k + 1]), Embeds(s, k, t, i)
  PROVE  Embeds(s, k, t, i + 1)
<1>1. PICK f : Embedding(s, k, t, i, f)
  BY DEF Embeds
<1>2. ASSUME NEW x \in (k + 1)..Len(s) PROVE f[x] \in ((i + 1) + 1)..Len(t)
  <2>1. k + 1 \in (k + 1)..Len(s) /\ k < Len(s)
    OBVIOUS
  <2>2. f[k + 1] \in (i + 1)..Len(t) /\ f[x] \in (i + 1)..Len(t) /\ s[k + 1] = t[f[k + 1]]
    BY <1>1, <2>1 DEF Embedding
  <2>3. f[k + 1] # i + 1
    BY <2>1, <2>2
  <2>4. k + 1 < x => f[k + 1] < f[x]
    BY <1>1, <2>1 DEF Embedding
  <2>5. k + 1 = x \/ k + 1 < x
    OBVIOUS
  <2> QED BY <2>2, <2>3, <2>4, <2>5
<1>3. f \in [(k + 1)..Len(s) -> ((i + 1) + 1)..Len(t)]
  BY <1>1, <1>2 DEF Embedding
<1> QED BY <1>1, <1>3 DEF Embeds, Embedding

LEMMA EmbedsTaking ==
  ASSUME NEW s, NEW k \in Nat, NEW t, NEW i \in Nat, Len(t) \in Nat, Len(s) \in Nat, i < Len(t),
         k < Len(s), Embeds(s, k, t, i)
  PROVE  Embeds(s, k + 1, t, i + 1)
<1>1. PICK f : Embedding(s, k, t, i, f)
  BY DEF Embeds
<1> DEFINE g == [x \in ((k + 1) + 1)..Len(s) |-> f[x]]
<1>2. ASSUME NEW x \in ((k + 1) + 1)..Len(s)
      PROVE  x \in (k + 1)..Len(s) /\ g[x] = f[x] /\ f[x] \in ((i + 1) + 1)..Len(t)
  <2>1. k + 1 \in (k + 1)..Len(s) /\ x \in (k + 1)..Len(s) /\ k + 1 < x
    OBVIOUS
  <2>2. f[k + 1] \in (i + 1)..Len(t) /\ f[x] \in (i + 1)..Len(t) /\ f[k + 1] < f[x]
    BY <1>1, <2>1 DEF Embedding
  <2> QED BY <2>1, <2>2
<1>3. g \in [((k + 1) + 1)..Len(s) -> ((i + 1) + 1)..Len(t)]
  BY <1>2
<1>4. Embedding(s, k + 1, t, i + 1, g)
  <2> HIDE DEF g
  <2>1. \A x \in ((k + 1) + 1)..Len(s) : s[x] = t[g[x]]
    BY <1>1, <1>2 DEF Embedding
  <2>2. \A x, y \in ((k + 1) + 1)..Len(s) : x < y => g[x] < g[y]
    BY <1>1, <1>2 DEF Embedding
  <2> QED BY <1>3, <2>1, <2>2 DEF Embedding
<1> QED BY <1>4 DEF Embeds

\* A line put before what is found earlier is found too.
LEMMA EmbedsBefore ==
  ASSUME NEW E, NEW s \in Seq(E), NEW t, NEW i \in Nat \ {0}, Len(t) \in Nat, i <= Len(t),
         t[i] \in E, Embeds(s, 0, t, i)
  PROVE  Embeds(<<t[i]>> \o s, 0, t, i - 1)
<1>1. PICK f : Embedding(s, 0, t, i, f)
  BY DEF Embeds
<1> DEFINE r == <<t[i]>> \o s
           g == [x \in 1..(Len(s) + 1) |-> IF x = 1 THEN i ELSE f[x - 1]]
<1>2. /\ Len(s) \in Nat /\ Len(r) = Len(s) + 1 /\ r[1] = t[i]
      /\ \A x \in 2..(Len(s) + 1) : r[x] = s[x - 1]
  <2>1. <<t[i]>> \in Seq(E) /\ Len(<<t[i]>>) = 1 /\ <<t[i]>>[1] = t[i]
    OBVIOUS
  <2> QED BY <2>1, ConcatProperties
<1>3. g[1] = i /\ \A x \in 2..(Len(s) + 1) : g[x] = f[x - 1] /\ x - 1 \in 1..Len(s)
  BY <1>2
<1>4. \A x \in 1..Len(s) : f[x] \in (i + 1)..Len(t) /\ s[x] = t[f[x]]
  BY <1>1 DEF Embedding
<1>5. \A x, y \in 1..Len(s) : x < y => f[x] < f[y]
  BY <1>1 DEF Embedding
<1>6. \A x \in 1..(Len(s) + 1) : g[x] \in i..Len(t) /\ r[x] = t[g[x]]
  <2> HIDE DEF g, r
  <2> SUFFICES ASSUME NEW x \in 1..(Len(s) + 1)
               PROVE  g[x] \in i..Len(t) /\ r[x] = t[g[x]]
    OBVIOUS
  <2>1. CASE x = 1
    BY <2>1, <1>2, <1>3
  <2>2. CASE x # 1
    <3>1. x \in 2..(Len(s) + 1) /\ x - 1 \in 1..Len(s)
      BY <2>2, <1>2
    <3>2. g[x] = f[x - 1] /\ f[x - 1] \in (i + 1)..Len(t) /\ s[x - 1] = t[f[x - 1]] /\ r[x] = s[x - 1]
      BY <3>1, <1>2, <1>3, <1>4
    <3> QED BY <3>2
  <2> QED BY <2>1, <2>2
<1>7. \A x, y \in 1..(Len(s) + 1) : x < y => g[x] < g[y]
  <2> HIDE DEF g, r
  <2> SUFFICES ASSUME NEW x \in 1..(Len(s) + 1), NEW y \in 1..(Len(s) + 1), x < y
               PROVE  g[x] < g[y]
    OBVIOUS
  <2>0. y \in 2..(Len(s) + 1) /\ y - 1 \in 1..Len(s) /\ g[y] = f[y - 1]
    BY <1>2, <1>3
  <2>1. CASE x = 1
    BY <2>0, <2>1, <1>3, <1>4
  <2>2. CASE x # 1
    <3>1. x \in 2..(Len(s) + 1) /\ x - 1 \in 1..Len(s) /\ x - 1 < y - 1
      BY <2>2, <1>2
    <3> QED BY <3>1, <2>0, <1>3, <1>5
  <2> QED BY <2>1, <2>2
<1>8. g \in [1..(Len(s) + 1) -> i..Len(t)]
  BY <1>6
<1>9. (i - 1) + 1 = i /\ 0 + 1 = 1
  OBVIOUS
<1>10. Embedding(r, 0, t, i - 1, g)
  <2> HIDE DEF g, r
  <2> QED BY <1>2, <1>6, <1>7, <1>8, <1>9 DEF Embedding
<1> QED BY <1>10 DEF Embeds

\* The loop that finds the subsequence, from its end.
LEMMA StepsBack ==
  ASSUME NEW E, NEW a \in Seq(E), NEW b \in Seq(E), NEW dp, IsTable(a, b, dp), NEW at,
         at.i \in 0..Len(a), at.j \in 0..Len(b), at.lcs \in Seq(E),
         at = [i |-> at.i, j |-> at.j, lcs |-> at.lcs],
         Embeds(at.lcs, 0, a, at.i), Embeds(at.lcs, 0, b, at.j)
  PROVE  LET to == StepBack(a, b, dp, at)
         IN  /\ to = [i |-> to.i, j |-> to.j, lcs |-> to.lcs]
             /\ to.i \in 0..Len(a) /\ to.j \in 0..Len(b) /\ to.lcs \in Seq(E)
             /\ Len(to.lcs) + dp[to.i][to.j] = Len(at.lcs) + dp[at.i][at.j]
             /\ Embeds(to.lcs, 0, a, to.i) /\ Embeds(to.lcs, 0, b, to.j)
             /\ at.i = 0 \/ at.j = 0 => to = at
             /\ at.i # 0 /\ at.j # 0 => to.i + to.j < at.i + at.j
<1> DEFINE to == StepBack(a, b, dp, at)
<1>0. Len(a) \in Nat /\ Len(b) \in Nat /\ Len(at.lcs) \in Nat
  OBVIOUS
<1>1. CASE at.i = 0 \/ at.j = 0
  <2>1. to = at
    BY <1>1 DEF StepBack
  <2> HIDE DEF to
  <2> QED BY <2>1, <1>1 DEF to
<1>2. CASE ~(at.i = 0 \/ at.j = 0)
  <2>1. /\ at.i \in 1..Len(a) /\ at.j \in 1..Len(b) /\ at.i > 0 /\ at.j > 0
        /\ at.i - 1 \in 0..Len(a) /\ at.j - 1 \in 0..Len(b)
    BY <1>2, <1>0
  <2>2. dp[at.i][at.j] = IF a[at.i] = b[at.j] THEN dp[at.i - 1][at.j - 1] + 1
                         ELSE Later(dp[at.i - 1][at.j], dp[at.i][at.j - 1])
    BY <2>1 DEF IsTable
  <2>3. /\ dp[at.i - 1][at.j] \in Nat /\ dp[at.i][at.j - 1] \in Nat
        /\ dp[at.i - 1][at.j - 1] \in Nat /\ dp[at.i][at.j] \in Nat
    BY <2>1 DEF IsTable
  <2>4. CASE a[at.i] = b[at.j]
    <3>1. to = [i |-> at.i - 1, j |-> at.j - 1, lcs |-> <<a[at.i]>> \o at.lcs]
      BY <1>2, <2>1, <2>4 DEF StepBack
    <3>2. a[at.i] \in E /\ b[at.j] \in E
      BY <2>1
    <3>3. <<a[at.i]>> \o at.lcs \in Seq(E) /\ Len(<<a[at.i]>> \o at.lcs) = Len(at.lcs) + 1
      <4>1. <<a[at.i]>> \in Seq(E) /\ Len(<<a[at.i]>>) = 1
        BY <3>2
      <4> QED BY <4>1, <1>0, ConcatProperties
    <3>4. Embeds(<<a[at.i]>> \o at.lcs, 0, a, at.i - 1)
      BY <2>1, <3>2, <1>0, EmbedsBefore
    <3>5. Embeds(<<b[at.j]>> \o at.lcs, 0, b, at.j - 1)
      BY <2>1, <3>2, <1>0, EmbedsBefore
    <3>6. dp[at.i][at.j] = dp[at.i - 1][at.j - 1] + 1
      BY <2>2, <2>4
    <3>7. /\ to.i = at.i - 1 /\ to.j = at.j - 1 /\ to.lcs = <<a[at.i]>> \o at.lcs
          /\ to = [i |-> to.i, j |-> to.j, lcs |-> to.lcs]
      <4> HIDE DEF to
      <4> QED BY <3>1
    <3> HIDE DEF to
    <3>8. Len(to.lcs) + dp[to.i][to.j] = Len(at.lcs) + dp[at.i][at.j]
      <4>1. Len(to.lcs) = Len(at.lcs) + 1 /\ dp[to.i][to.j] = dp[at.i - 1][at.j - 1]
        BY <3>3, <3>7
      <4>2. PICK x \in Nat, y \in Nat : x = Len(at.lcs) /\ y = dp[at.i - 1][at.j - 1]
        BY <1>0, <2>3
      <4>3. Len(to.lcs) + dp[to.i][to.j] = (x + 1) + y
        BY <4>1, <4>2
      <4>4. Len(at.lcs) + dp[at.i][at.j] = x + (y + 1)
        BY <4>2, <3>6
      <4>5. (x + 1) + y = x + (y + 1)
        OBVIOUS
      <4> QED BY <4>3, <4>4, <4>5, Zenon
    <3>9. Embeds(to.lcs, 0, a, to.i) /\ Embeds(to.lcs, 0, b, to.j)
      BY <3>4, <3>5, <3>7, <2>4
    <3>10. to.i + to.j < at.i + at.j
      BY <3>7, <2>1
    <3>11. to.i \in 0..Len(a) /\ to.j \in 0..Len(b) /\ to.lcs \in Seq(E)
      BY <3>3, <3>7, <2>1
    <3> QED BY <3>7, <3>8, <3>9, <3>10, <3>11, <1>2 DEF to
  <2>5. CASE a[at.i] # b[at.j] /\ dp[at.i - 1][at.j] > dp[at.i][at.j - 1]
    <3>1. to = [at EXCEPT !.i = @ - 1]
      BY <1>2, <2>1, <2>5 DEF StepBack
    <3>2. to.i = at.i - 1 /\ to.j = at.j /\ to.lcs = at.lcs /\ to = [i |-> to.i, j |-> to.j, lcs |-> to.lcs]
      <4> HIDE DEF to
      <4> QED BY <3>1
    <3>3. Embeds(at.lcs, 0, a, at.i - 1)
      <4>1. at.i \in Nat /\ at.i - 1 \in Nat /\ at.i - 1 <= at.i
        BY <2>1
      <4> QED BY <4>1, <1>0, EmbedsEarlier
    <3>4. dp[at.i][at.j] = dp[at.i - 1][at.j]
      BY <2>2, <2>3, <2>5 DEF Later
    <3> HIDE DEF to
    <3>5. to.i + to.j < at.i + at.j
      BY <3>2, <2>1
    <3>6. to.i \in 0..Len(a) /\ to.j \in 0..Len(b) /\ to.lcs \in Seq(E)
      BY <3>2, <2>1
    <3>7. Len(to.lcs) + dp[to.i][to.j] = Len(at.lcs) + dp[at.i][at.j]
      BY <3>2, <3>4
    <3>8. Embeds(to.lcs, 0, a, to.i) /\ Embeds(to.lcs, 0, b, to.j)
      BY <3>2, <3>3
    <3> QED BY <3>2, <3>5, <3>6, <3>7, <3>8, <1>2 DEF to
  <2>6. CASE a[at.i] # b[at.j] /\ ~(dp[at.i - 1][at.j] > dp[at.i][at.j - 1])
    <3>1. to = [at EXCEPT !.j = @ - 1]
      BY <1>2, <2>1, <2>6 DEF StepBack
    <3>2. to.i = at.i /\ to.j = at.j - 1 /\ to.lcs = at.lcs /\ to = [i |-> to.i, j |-> to.j, lcs |-> to.lcs]
      <4> HIDE DEF to
      <4> QED BY <3>1
    <3>3. Embeds(at.lcs, 0, b, at.j - 1)
      <4>1. at.j \in Nat /\ at.j - 1 \in Nat /\ at.j - 1 <= at.j
        BY <2>1
      <4> QED BY <4>1, <1>0, EmbedsEarlier
    <3>4. dp[at.i][at.j] = dp[at.i][at.j - 1]
      BY <2>2, <2>3, <2>6 DEF Later
    <3> HIDE DEF to
    <3>5. to.i + to.j < at.i + at.j
      BY <3>2, <2>1
    <3>6. to.i \in 0..Len(a) /\ to.j \in 0..Len(b) /\ to.lcs \in Seq(E)
      BY <3>2, <2>1
    <3>7. Len(to.lcs) + dp[to.i][to.j] = Len(at.lcs) + dp[at.i][at.j]
      BY <3>2, <3>4
    <3>8. Embeds(to.lcs, 0, a, to.i) /\ Embeds(to.lcs, 0, b, to.j)
      BY <3>2, <3>3
    <3> QED BY <3>2, <3>5, <3>6, <3>7, <3>8, <1>2 DEF to
  <2> QED BY <2>4, <2>5, <2>6
<1> QED BY <1>1, <1>2

LEMMA EmbedsNothing ==
  ASSUME NEW k, NEW s, NEW t, NEW i, k \in Nat, Len(s) \in Nat, k >= Len(s)
  PROVE  Embeds(s, k, t, i)
<1> DEFINE f == [x \in (k + 1)..Len(s) |-> i]
<1>1. (k + 1)..Len(s) = {}
  OBVIOUS
<1>2. f \in [(k + 1)..Len(s) -> (i + 1)..Len(t)]
  BY <1>1
<1>3. Embedding(s, k, t, i, f)
  BY <1>1, <1>2 DEF Embedding
<1> QED BY <1>3 DEF Embeds

LEMMA LcsIs ==
  ASSUME NEW E, NEW a \in Seq(E), NEW b \in Seq(E)
  PROVE  LET lcs == LongestCommonSubsequence(a, b)
         IN  /\ lcs \in Seq(E) /\ Embeds(lcs, 0, a, 0) /\ Embeds(lcs, 0, b, 0)
             /\ Len(lcs) = LcsTable(a, b)[Len(a)][Len(b)]
<1> DEFINE dp == LcsTable(a, b)
           N == Len(a) + Len(b)
           start == [i |-> Len(a), j |-> Len(b), lcs |-> <<>>]
           V == {v \in [i : 0..Len(a), j : 0..Len(b), lcs : Seq(E)] :
                   Embeds(v.lcs, 0, a, v.i) /\ Embeds(v.lcs, 0, b, v.j)}
           F == [x \in (1..N) \X V |-> StepBack(a, b, dp, x[2])]
           Is(g) == g = [n \in 0..N |-> IF n = 0 THEN start ELSE StepBack(a, b, dp, g[n - 1])]
           back == CHOOSE g : Is(g)
<1>0. IsTable(a, b, dp) /\ N \in Nat /\ Len(a) \in Nat /\ Len(b) \in Nat
  BY TableIs
<1> HIDE DEF dp
<1>1. start \in V /\ start.i = Len(a) /\ start.j = Len(b) /\ start.lcs = <<>>
  <2>1. <<>> \in Seq(E) /\ Len(<<>>) = 0
    OBVIOUS
  <2>2. Embeds(<<>>, 0, a, Len(a)) /\ Embeds(<<>>, 0, b, Len(b))
    BY <2>1, EmbedsNothing
  <2>3. start \in [i : 0..Len(a), j : 0..Len(b), lcs : Seq(E)]
    BY <1>0, <2>1
  <2> QED BY <2>2, <2>3
<1>2. ASSUME NEW v \in V
      PROVE  /\ StepBack(a, b, dp, v) \in V
             /\ Len(StepBack(a, b, dp, v).lcs) + dp[StepBack(a, b, dp, v).i][StepBack(a, b, dp, v).j]
                  = Len(v.lcs) + dp[v.i][v.j]
             /\ v.i = 0 \/ v.j = 0 => StepBack(a, b, dp, v) = v
             /\ v.i # 0 /\ v.j # 0 => StepBack(a, b, dp, v).i + StepBack(a, b, dp, v).j < v.i + v.j
  <2>1. /\ v.i \in 0..Len(a) /\ v.j \in 0..Len(b) /\ v.lcs \in Seq(E)
        /\ v = [i |-> v.i, j |-> v.j, lcs |-> v.lcs]
        /\ Embeds(v.lcs, 0, a, v.i) /\ Embeds(v.lcs, 0, b, v.j)
    OBVIOUS
  <2> DEFINE to == StepBack(a, b, dp, v)
  <2>2. /\ to = [i |-> to.i, j |-> to.j, lcs |-> to.lcs]
        /\ to.i \in 0..Len(a) /\ to.j \in 0..Len(b) /\ to.lcs \in Seq(E)
        /\ Len(to.lcs) + dp[to.i][to.j] = Len(v.lcs) + dp[v.i][v.j]
        /\ Embeds(to.lcs, 0, a, to.i) /\ Embeds(to.lcs, 0, b, to.j)
        /\ v.i = 0 \/ v.j = 0 => to = v
        /\ v.i # 0 /\ v.j # 0 => to.i + to.j < v.i + v.j
    BY <2>1, <1>0, StepsBack
  <2>3. to \in V
    <3> HIDE DEF to
    <3> QED BY <2>2
  <2> QED BY <2>2, <2>3
<1> HIDE DEF V, start
<1>3. F \in [(1..N) \X V -> V]
  BY <1>2
<1>4. PICK g \in [0..N -> V] : Turns(g, N, start, F)
  <2> HIDE DEF F, N
  <2> QED BY <1>0, <1>1, <1>3, LoopTurns
<1>5. ASSUME NEW n \in 0..N
      PROVE  g[n] = IF n = 0 THEN start ELSE StepBack(a, b, dp, g[n - 1])
  <2>1. g[n] = IF n = 0 THEN start ELSE F[<<n, g[n - 1]>>]
    <3> HIDE DEF F
    <3> QED BY <1>4 DEF Turns
  <2>2. n # 0 => <<n, g[n - 1]>> \in (1..N) \X V
    <3> HIDE DEF N
    <3> QED BY <1>0, <1>4
  <2> QED BY <2>1, <2>2
<1>6. Is(g)
  BY <1>4, <1>5
<1>7. LongestCommonSubsequence(a, b) = back[N].lcs
  BY DEF LongestCommonSubsequence, dp, start
<1>8. Is(back)
  <2> HIDE DEF Is
  <2> QED BY <1>6
<1> HIDE DEF back
<1>9a. back = [n \in 0..N |-> back[n]]
  <2> HIDE DEF N
  <2> QED BY <1>8
<1>9. \A n \in 0..N : back[n] = IF n = 0 THEN start ELSE StepBack(a, b, dp, back[n - 1])
  <2> HIDE DEF N
  <2> QED BY <1>8
<1>10. back \in [0..N -> V]
  <2> HIDE DEF N
  <2>1. back[0] \in V
    BY <1>0, <1>1, <1>9
  <2>2. ASSUME NEW n \in 1..N, back[n - 1] \in V PROVE back[n] \in V
    <3>1. back[n] = StepBack(a, b, dp, back[n - 1])
      BY <1>0, <1>9
    <3> QED BY <3>1, <2>2, <1>2
  <2> QED BY <1>0, <1>9a, <2>1, <2>2, StaysIn
<1> DEFINE L == dp[Len(a)][Len(b)]
           D(n) == Len(back[n].lcs) + dp[back[n].i][back[n].j]
           T == {n \in Nat : n <= N =>
                   /\ D(n) = L
                   /\ back[n].i = 0 \/ back[n].j = 0 \/ back[n].i + back[n].j + n <= N}
<1> HIDE DEF N
<1>11. \A v \in V : v.i \in 0..Len(a) /\ v.j \in 0..Len(b) /\ v.lcs \in Seq(E)
                   /\ Embeds(v.lcs, 0, a, v.i) /\ Embeds(v.lcs, 0, b, v.j)
  BY DEF V
<1>12. L \in Nat /\ \A v \in V : dp[v.i][v.j] \in Nat /\ Len(v.lcs) \in Nat
  <2>1. \A x \in 0..Len(a), y \in 0..Len(b) : dp[x][y] \in Nat
    BY <1>0 DEF IsTable
  <2>2. Len(a) \in 0..Len(a) /\ Len(b) \in 0..Len(b)
    BY <1>0
  <2>3. \A s \in Seq(E) : Len(s) \in Nat
    OBVIOUS
  <2> QED BY <2>1, <2>2, <2>3, <1>11
<1>13. 0 \in T
  <2>1. back[0] = start
    BY <1>0, <1>9
  <2>2. D(0) = L
    BY <1>1, <1>12, <2>1
  <2>3. back[0].i + back[0].j + 0 <= N
    BY <1>0, <1>1, <2>1 DEF N
  <2> QED BY <2>2, <2>3
<1>14. ASSUME NEW n \in T PROVE n + 1 \in T
  <2>1. SUFFICES ASSUME n + 1 <= N
                 PROVE  /\ D(n + 1) = L
                        /\ \/ back[n + 1].i = 0 \/ back[n + 1].j = 0
                           \/ back[n + 1].i + back[n + 1].j + (n + 1) <= N
    OBVIOUS
  <2>2. n \in Nat /\ n \in 0..N /\ n + 1 \in 0..N /\ n + 1 # 0 /\ (n + 1) - 1 = n
    BY <2>1, <1>0
  <2>3. D(n) = L /\ (back[n].i = 0 \/ back[n].j = 0 \/ back[n].i + back[n].j + n <= N)
    BY <2>1, <1>0
  <2>4. back[n + 1] = StepBack(a, b, dp, back[n]) /\ back[n] \in V /\ back[n + 1] \in V
    BY <2>2, <1>9, <1>10
  <2>5. /\ D(n + 1) = D(n)
        /\ back[n].i = 0 \/ back[n].j = 0 => back[n + 1] = back[n]
        /\ back[n].i # 0 /\ back[n].j # 0 => back[n + 1].i + back[n + 1].j < back[n].i + back[n].j
    BY <2>4, <1>2
  <2>6. /\ back[n].i \in Nat /\ back[n].j \in Nat
        /\ back[n + 1].i \in Nat /\ back[n + 1].j \in Nat
    BY <2>4, <1>11
  <2> HIDE DEF D, L, T
  <2>7. D(n + 1) = L
    BY <2>3, <2>5
  <2>8. CASE back[n].i = 0 \/ back[n].j = 0
    BY <2>5, <2>7, <2>8
  <2>9. CASE back[n].i # 0 /\ back[n].j # 0
    <3>1. back[n].i + back[n].j + n <= N /\ back[n + 1].i + back[n + 1].j < back[n].i + back[n].j
      BY <2>3, <2>5, <2>9
    <3>2. back[n + 1].i + back[n + 1].j + (n + 1) <= N
      <4>1. \A p, q, x, y \in Int : p + x <= y /\ q < p => q + (x + 1) <= y
        OBVIOUS
      <4>2. back[n].i + back[n].j \in Int /\ back[n + 1].i + back[n + 1].j \in Int /\ n \in Int /\ N \in Int
        <5>1. \A x, y \in Nat : x + y \in Int
          OBVIOUS
        <5> QED BY <5>1, <2>2, <2>6, <1>0
      <4> QED BY <3>1, <4>1, <4>2
    <3> QED BY <3>2, <2>7
  <2> QED BY <2>8, <2>9
<1>15. T = Nat
  <2> HIDE DEF T
  <2> QED BY <1>13, <1>14, Induction DEF T
<1>16. D(N) = L /\ (back[N].i = 0 \/ back[N].j = 0 \/ back[N].i + back[N].j + N <= N)
  <2>1. N \in T
    <3> HIDE DEF T
    <3> QED BY <1>0, <1>15
  <2> HIDE DEF D, L
  <2> QED BY <2>1, <1>0
<1>17. back[N] \in V
  BY <1>0, <1>10
<1>18. back[N].i \in Nat /\ back[N].j \in Nat /\ back[N].i \in 0..Len(a) /\ back[N].j \in 0..Len(b)
       /\ back[N].lcs \in Seq(E) /\ Len(back[N].lcs) \in Nat
  BY <1>17, <1>11, <1>12
<1>19. back[N].i = 0 \/ back[N].j = 0
  <2> HIDE DEF D, L
  <2> QED BY <1>16, <1>18, <1>0
<1>20. dp[back[N].i][back[N].j] = 0
  BY <1>18, <1>19, <1>0 DEF IsTable
<1>21. Len(back[N].lcs) = L
  <2> HIDE DEF L
  <2> QED BY <1>16, <1>18, <1>20
<1>22. Embeds(back[N].lcs, 0, a, 0) /\ Embeds(back[N].lcs, 0, b, 0)
  BY <1>17, <1>11, <1>18, <1>0, EmbedsEarlier
<1> QED BY <1>7, <1>18, <1>21, <1>22 DEF dp

-----------------------------------------------------------------------------
(* A difference has two sides, and what is common to both. *)

DiffLines(E) == [type : {"context", "add", "remove"}, content : E]

\* g[n] is the side of the first n lines.
Sides(diff, types, N, g) ==
  g = [n \in 0..N |-> IF n = 0 THEN <<>>
                      ELSE IF diff[n].type \in types
                      THEN Append(g[n - 1], diff[n].content) ELSE g[n - 1]]

LEMMA SidesExist ==
  ASSUME NEW E, NEW diff \in Seq(DiffLines(E)), NEW types
  PROVE  /\ \E g \in [0..Len(diff) -> Seq(E)] : Sides(diff, types, Len(diff), g)
         /\ \E g : Sides(diff, types, Len(diff), g) /\ Side(diff, types) = g[Len(diff)]
<1> DEFINE N == Len(diff)
           V == Seq(E)
           F == [x \in (1..N) \X V |-> IF diff[x[1]].type \in types
                                       THEN Append(x[2], diff[x[1]].content) ELSE x[2]]
           side == CHOOSE g : Sides(diff, types, N, g)
<1>0. N \in Nat /\ <<>> \in V
  OBVIOUS
<1>1. \A n \in 1..N : diff[n].content \in E
  <2>1. \A n \in 1..N : diff[n] \in DiffLines(E)
    OBVIOUS
  <2> QED BY <2>1 DEF DiffLines
<1>2. F \in [(1..N) \X V -> V]
  <2> SUFFICES ASSUME NEW x \in (1..N) \X V
               PROVE  (IF diff[x[1]].type \in types
                       THEN Append(x[2], diff[x[1]].content) ELSE x[2]) \in V
    OBVIOUS
  <2>1. x[1] \in 1..N /\ x[2] \in Seq(E) /\ diff[x[1]].content \in E
    BY <1>1
  <2> QED BY <2>1
<1>3. PICK g \in [0..N -> V] : Turns(g, N, <<>>, F)
  <2> HIDE DEF F, V, N
  <2> QED BY <1>0, <1>2, LoopTurns
<1>4. ASSUME NEW n \in 0..N
      PROVE  g[n] = IF n = 0 THEN <<>>
                    ELSE IF diff[n].type \in types
                    THEN Append(g[n - 1], diff[n].content) ELSE g[n - 1]
  <2>1. g[n] = IF n = 0 THEN <<>> ELSE F[<<n, g[n - 1]>>]
    <3> HIDE DEF F, V
    <3> QED BY <1>3 DEF Turns
  <2>2. n # 0 => <<n, g[n - 1]>> \in (1..N) \X V
    <3> HIDE DEF V, N
    <3> QED BY <1>0, <1>3
  <2> HIDE DEF V, N
  <2> QED BY <2>1, <2>2
<1>5. Sides(diff, types, N, g)
  <2> HIDE DEF V, N
  <2> QED BY <1>3, <1>4 DEF Sides
<1>6. Side(diff, types) = side[N]
  BY DEF Side, Sides
<1>7. Sides(diff, types, N, side)
  BY <1>5
<1> HIDE DEF side
<1> QED BY <1>3, <1>5, <1>6, <1>7

LEMMA SidesAgree ==
  ASSUME NEW d, NEW e, NEW types, NEW M \in Nat, NEW N \in Nat, M <= N,
         \A n \in 1..M : d[n] = e[n], NEW g, NEW h, Sides(d, types, M, g), Sides(e, types, N, h)
  PROVE  g[M] = h[M]
<1> DEFINE T == {n \in Nat : n <= M => g[n] = h[n]}
<1>0. /\ \A n \in 0..M : g[n] = IF n = 0 THEN <<>>
                                ELSE IF d[n].type \in types
                                THEN Append(g[n - 1], d[n].content) ELSE g[n - 1]
      /\ \A n \in 0..N : h[n] = IF n = 0 THEN <<>>
                                ELSE IF e[n].type \in types
                                THEN Append(h[n - 1], e[n].content) ELSE h[n - 1]
  BY DEF Sides
<1>1. 0 \in T
  BY <1>0
<1>2. ASSUME NEW n \in T PROVE n + 1 \in T
  <2>1. SUFFICES ASSUME n + 1 <= M PROVE g[n + 1] = h[n + 1]
    OBVIOUS
  <2>2. /\ n + 1 \in 0..M /\ n + 1 \in 0..N /\ n + 1 \in 1..M /\ n + 1 # 0 /\ (n + 1) - 1 = n
        /\ g[n] = h[n]
    BY <2>1
  <2>3. d[n + 1] = e[n + 1]
    BY <2>2
  <2> HIDE DEF T
  <2> QED BY <2>2, <2>3, <1>0
<1>3. T = Nat
  <2> HIDE DEF T
  <2> QED BY <1>1, <1>2, Induction DEF T
<1>4. M \in T
  <2> HIDE DEF T
  <2> QED BY <1>3
<1> QED BY <1>4

LEMMA SideIs ==
  ASSUME NEW E, NEW diff \in Seq(DiffLines(E)), NEW types, NEW g, Sides(diff, types, Len(diff), g)
  PROVE  Side(diff, types) = g[Len(diff)]
<1>1. PICK h : Sides(diff, types, Len(diff), h) /\ Side(diff, types) = h[Len(diff)]
  BY SidesExist
<1> QED BY <1>1, SidesAgree

LEMMA SideOfNothing ==
  ASSUME NEW types
  PROVE  Side(<<>>, types) = <<>>
<1>1. <<>> \in Seq(DiffLines({})) /\ Len(<<>>) = 0
  OBVIOUS
<1>2. PICK g : Sides(<<>>, types, Len(<<>>), g) /\ Side(<<>>, types) = g[Len(<<>>)]
  BY <1>1, SidesExist
<1>3. g[0] = <<>>
  BY <1>1, <1>2 DEF Sides
<1> QED BY <1>1, <1>2, <1>3

LEMMA SideOfLonger ==
  ASSUME NEW E, NEW diff \in Seq(DiffLines(E)), NEW types, NEW line \in DiffLines(E)
  PROVE  /\ Append(diff, line) \in Seq(DiffLines(E))
         /\ Side(diff, types) \in Seq(E)
         /\ Side(Append(diff, line), types) =
              IF line.type \in types THEN Append(Side(diff, types), line.content) ELSE Side(diff, types)
<1> DEFINE more == Append(diff, line)
           n == Len(diff)
<1>1. /\ more \in Seq(DiffLines(E)) /\ Len(more) = n + 1 /\ n \in Nat
      /\ \A m \in 1..n : more[m] = diff[m]
      /\ more[n + 1] = line
  BY AppendProperties
<1>2. PICK g \in [0..n -> Seq(E)] : Sides(diff, types, n, g)
  BY SidesExist
<1>3. PICK h : Sides(more, types, Len(more), h) /\ Side(more, types) = h[Len(more)]
  BY <1>1, SidesExist
<1> HIDE DEF more
<1>4. Side(diff, types) = g[n] /\ g[n] \in Seq(E)
  BY <1>1, <1>2, SideIs
<1>5. Sides(more, types, n + 1, h)
  BY <1>1, <1>3
<1>6. g[n] = h[n]
  <2>1. n <= n + 1 /\ n + 1 \in Nat /\ n \in Nat
    BY <1>1
  <2>2. \A m \in 1..n : diff[m] = more[m]
    BY <1>1
  <2>3. Sides(diff, types, n, g)
    BY <1>2
  <2> HIDE DEF n
  <2> QED BY <2>1, <2>2, <2>3, <1>5, SidesAgree
<1>7. h[n + 1] = IF more[n + 1].type \in types THEN Append(h[n], more[n + 1].content) ELSE h[n]
  <2>1. n + 1 \in 0..(n + 1) /\ n + 1 # 0 /\ (n + 1) - 1 = n
    BY <1>1
  <2> HIDE DEF n
  <2> QED BY <1>5, <2>1 DEF Sides
<1>8. Side(more, types) = IF line.type \in types THEN Append(Side(diff, types), line.content)
                          ELSE Side(diff, types)
  BY <1>1, <1>3, <1>4, <1>6, <1>7
<1> QED BY <1>1, <1>4, <1>8 DEF more

-----------------------------------------------------------------------------
(* The loop that writes the difference. *)

LEMMA SubSeqLonger ==
  ASSUME NEW E, NEW s \in Seq(E), NEW i \in 0..(Len(s) - 1)
  PROVE  /\ SubSeq(s, 1, i) \in Seq(E) /\ s[i + 1] \in E
         /\ Append(SubSeq(s, 1, i), s[i + 1]) = SubSeq(s, 1, i + 1)
<1>1. Len(s) \in Nat /\ i \in Nat /\ i + 1 \in 1..Len(s)
  OBVIOUS
<1>2. s[i + 1] \in E /\ \A x \in 1..(i + 1) : x \in 1..Len(s) /\ s[x] \in E
  BY <1>1
<1>3. SubSeq(s, 1, i) = [x \in 1..i |-> s[x]] /\ SubSeq(s, 1, i + 1) = [x \in 1..(i + 1) |-> s[x]]
  <2>1. SubSeq(s, 1, i) = [x \in 1..((1 + i) - 1) |-> s[(1 + x) - 1]]
    BY <1>1
  <2>2. SubSeq(s, 1, i + 1) = [x \in 1..((1 + (i + 1)) - 1) |-> s[(1 + x) - 1]]
    BY <1>1
  <2>3. (1 + i) - 1 = i /\ (1 + (i + 1)) - 1 = i + 1 /\ \A x \in 1..(i + 1) : (1 + x) - 1 = x
    BY <1>1
  <2>4. \A x \in 1..i : (1 + x) - 1 = x
    BY <1>1
  <2> QED BY <2>1, <2>2, <2>3, <2>4
<1>4. SubSeq(s, 1, i) \in Seq(E) /\ Len(SubSeq(s, 1, i)) = i /\ SubSeq(s, 1, i + 1) \in Seq(E)
      /\ Len(SubSeq(s, 1, i + 1)) = i + 1
  BY <1>1, <1>2, <1>3
<1>5. Append(SubSeq(s, 1, i), s[i + 1]) \in Seq(E) /\ Len(Append(SubSeq(s, 1, i), s[i + 1])) = i + 1
  BY <1>2, <1>4, AppendProperties
<1>6. \A x \in 1..(i + 1) : Append(SubSeq(s, 1, i), s[i + 1])[x] = SubSeq(s, 1, i + 1)[x]
  <2> SUFFICES ASSUME NEW x \in 1..(i + 1)
               PROVE  Append(SubSeq(s, 1, i), s[i + 1])[x] = SubSeq(s, 1, i + 1)[x]
    OBVIOUS
  <2>1. CASE x = i + 1
    BY <2>1, <1>2, <1>3, <1>4, AppendProperties
  <2>2. CASE x # i + 1
    <3>1. x \in 1..i
      BY <2>2, <1>1
    <3>2. Append(SubSeq(s, 1, i), s[i + 1])[x] = SubSeq(s, 1, i)[x]
      BY <3>1, <1>2, <1>4, AppendProperties
    <3> QED BY <3>1, <3>2, <1>3
  <2> QED BY <2>1, <2>2
<1> QED BY <1>2, <1>4, <1>5, <1>6, SeqEqual

\* Where the loop over both contents is: what is written gives back what of each
\* was read, and the rest of the common lines is still to be found in both.
WalkAt(E, a, b, lcs, at) ==
  /\ at = [i |-> at.i, j |-> at.j, k |-> at.k, lines |-> at.lines]
  /\ at.i \in 0..Len(a) /\ at.j \in 0..Len(b) /\ at.k \in 0..Len(lcs)
  /\ at.lines \in Seq(DiffLines(E))
  /\ Embeds(lcs, at.k, a, at.i) /\ Embeds(lcs, at.k, b, at.j)
  /\ Side(at.lines, {"context", "remove"}) = SubSeq(a, 1, at.i)
  /\ Side(at.lines, {"context", "add"}) = SubSeq(b, 1, at.j)
  /\ Len(Side(at.lines, {"context"})) = at.k

LEMMA StepsOn ==
  ASSUME NEW E, NEW a \in Seq(E), NEW b \in Seq(E), NEW lcs \in Seq(E), NEW at,
         WalkAt(E, a, b, lcs, at)
  PROVE  LET to == StepOn(a, b, lcs, at)
         IN  /\ WalkAt(E, a, b, lcs, to)
             /\ at.i = Len(a) /\ at.j = Len(b) => to = at
             /\ ~(at.i = Len(a) /\ at.j = Len(b)) => to.i + to.j > at.i + at.j
<1> DEFINE to == StepOn(a, b, lcs, at)
<1>0. /\ Len(a) \in Nat /\ Len(b) \in Nat /\ Len(lcs) \in Nat
      /\ at.i \in 0..Len(a) /\ at.j \in 0..Len(b) /\ at.k \in 0..Len(lcs)
      /\ at.lines \in Seq(DiffLines(E))
      /\ at = [i |-> at.i, j |-> at.j, k |-> at.k, lines |-> at.lines]
  BY DEF WalkAt
<1>1. CASE at.i = Len(a) /\ at.j = Len(b)
  <2>1. to = at
    BY <1>0, <1>1 DEF StepOn, InBoth, AtHand
  <2> HIDE DEF to
  <2> QED BY <2>1, <1>1 DEF to
<1>2. CASE ~(at.i = Len(a) /\ at.j = Len(b)) /\ InBoth(a, b, lcs, at)
  <2>1. to = [i |-> at.i + 1, j |-> at.j + 1, k |-> at.k + 1,
              lines |-> Append(at.lines, DiffLine("context", a[at.i + 1]))]
    BY <1>2 DEF StepOn
  <2>2. /\ at.k < Len(lcs) /\ at.i < Len(a) /\ at.j < Len(b) /\ a[at.i + 1] = lcs[at.k + 1]
        /\ b[at.j + 1] = lcs[at.k + 1]
    BY <1>2 DEF InBoth, AtHand
  <2>3. /\ at.i \in 0..(Len(a) - 1) /\ at.j \in 0..(Len(b) - 1)
        /\ at.i \in Nat /\ at.j \in Nat /\ at.k \in Nat
    BY <1>0, <2>2
  <2> DEFINE line == DiffLine("context", a[at.i + 1])
  <2>4. a[at.i + 1] \in E /\ line \in DiffLines(E) /\ line.type = "context" /\ line.content = a[at.i + 1]
    <3>1. a[at.i + 1] \in E
      BY <2>3, SubSeqLonger
    <3> QED BY <3>1 DEF DiffLine, DiffLines
  <2> HIDE DEF line
  <2> DEFINE more == Append(at.lines, line)
  <2>5. /\ more \in Seq(DiffLines(E))
        /\ \A types : Side(more, types) = IF line.type \in types THEN Append(Side(at.lines, types), line.content)
                                          ELSE Side(at.lines, types)
    BY <1>0, <2>4, SideOfLonger
  <2>5a. Side(at.lines, {"context"}) \in Seq(E)
    BY <1>0, <2>4, SideOfLonger
  <2> HIDE DEF more, to
  <2>6. /\ to.i = at.i + 1 /\ to.j = at.j + 1 /\ to.k = at.k + 1 /\ to.lines = more
        /\ to = [i |-> to.i, j |-> to.j, k |-> to.k, lines |-> to.lines]
    BY <2>1 DEF more, line
  <2>7. Embeds(lcs, at.k + 1, a, at.i + 1) /\ Embeds(lcs, at.k + 1, b, at.j + 1)
    <3>1. Embeds(lcs, at.k, a, at.i) /\ Embeds(lcs, at.k, b, at.j)
      BY DEF WalkAt
    <3> QED BY <3>1, <2>2, <2>3, <1>0, EmbedsTaking
  <2>8. Side(more, {"context", "remove"}) = SubSeq(a, 1, at.i + 1)
    <3>1. Side(more, {"context", "remove"}) = Append(Side(at.lines, {"context", "remove"}), a[at.i + 1])
      BY <2>4, <2>5
    <3>2. Side(at.lines, {"context", "remove"}) = SubSeq(a, 1, at.i)
      BY DEF WalkAt
    <3> QED BY <3>1, <3>2, <2>3, SubSeqLonger
  <2>9. Side(more, {"context", "add"}) = SubSeq(b, 1, at.j + 1)
    <3>1. Side(more, {"context", "add"}) = Append(Side(at.lines, {"context", "add"}), b[at.j + 1])
      BY <2>2, <2>4, <2>5
    <3>2. Side(at.lines, {"context", "add"}) = SubSeq(b, 1, at.j)
      BY DEF WalkAt
    <3> QED BY <3>1, <3>2, <2>3, SubSeqLonger
  <2>10. Len(Side(more, {"context"})) = at.k + 1
    <3>1. Side(more, {"context"}) = Append(Side(at.lines, {"context"}), a[at.i + 1])
      BY <2>4, <2>5
    <3>2. Len(Side(at.lines, {"context"})) = at.k
      BY DEF WalkAt
    <3> QED BY <3>1, <3>2, <2>4, <2>5a, AppendProperties
  <2>11. to.i \in 0..Len(a) /\ to.j \in 0..Len(b) /\ to.k \in 0..Len(lcs) /\ to.i + to.j > at.i + at.j
    <3>1. at.i + 1 \in 0..Len(a) /\ at.j + 1 \in 0..Len(b) /\ at.k + 1 \in 0..Len(lcs)
          /\ (at.i + 1) + (at.j + 1) > at.i + at.j
      <4>1. \A x, m \in Nat : x < m => x + 1 \in 0..m
        OBVIOUS
      <4>2. \A x, y \in Nat : (x + 1) + (y + 1) > x + y
        OBVIOUS
      <4> QED BY <4>1, <4>2, <2>2, <2>3, <1>0
    <3> QED BY <3>1, <2>6
  <2>12. WalkAt(E, a, b, lcs, to)
    BY <2>5, <2>6, <2>7, <2>8, <2>9, <2>10, <2>11 DEF WalkAt
  <2> QED BY <2>11, <2>12, <1>2 DEF to
<1>3. CASE /\ ~(at.i = Len(a) /\ at.j = Len(b)) /\ ~InBoth(a, b, lcs, at)
           /\ at.j < Len(b) /\ (at.i = Len(a) \/ AtHand(a, lcs, at))
  <2>1. to = [at EXCEPT !.j = @ + 1, !.lines = Append(@, DiffLine("add", b[at.j + 1]))]
    BY <1>3 DEF StepOn
  <2>2. ~(at.k < Len(lcs) /\ b[at.j + 1] = lcs[at.k + 1])
    <3>1. CASE AtHand(a, lcs, at)
      BY <3>1, <1>3 DEF InBoth
    <3>2. CASE at.i = Len(a)
      <4>1. PICK f : Embedding(lcs, at.k, a, at.i, f)
        BY DEF WalkAt, Embeds
      <4>2. (at.i + 1)..Len(a) = {}
        BY <1>0, <3>2
      <4>3. at.k < Len(lcs) => at.k + 1 \in (at.k + 1)..Len(lcs)
        BY <1>0
      <4> QED BY <4>1, <4>2, <4>3 DEF Embedding
    <3> QED BY <3>1, <3>2, <1>3
  <2>3. at.j \in 0..(Len(b) - 1) /\ at.i \in Nat /\ at.j \in Nat /\ at.k \in Nat
    BY <1>0, <1>3
  <2> DEFINE line == DiffLine("add", b[at.j + 1])
  <2>4. b[at.j + 1] \in E /\ line \in DiffLines(E) /\ line.type = "add" /\ line.content = b[at.j + 1]
    <3>1. b[at.j + 1] \in E
      BY <2>3, SubSeqLonger
    <3> QED BY <3>1 DEF DiffLine, DiffLines
  <2> HIDE DEF line
  <2> DEFINE more == Append(at.lines, line)
  <2>5. /\ more \in Seq(DiffLines(E))
        /\ \A types : Side(more, types) = IF line.type \in types THEN Append(Side(at.lines, types), line.content)
                                          ELSE Side(at.lines, types)
    BY <1>0, <2>4, SideOfLonger
  <2> HIDE DEF more, to
  <2>6. /\ to.i = at.i /\ to.j = at.j + 1 /\ to.k = at.k /\ to.lines = more
        /\ to = [i |-> to.i, j |-> to.j, k |-> to.k, lines |-> to.lines]
    BY <2>1, <1>0 DEF more, line
  <2>7. Embeds(lcs, at.k, a, at.i) /\ Embeds(lcs, at.k, b, at.j + 1)
    <3>1. Embeds(lcs, at.k, a, at.i) /\ Embeds(lcs, at.k, b, at.j)
      BY DEF WalkAt
    <3> QED BY <3>1, <2>2, <2>3, <1>0, <1>3, EmbedsSkipping
  <2>8. Side(more, {"context", "remove"}) = SubSeq(a, 1, at.i)
    <3>1. Side(more, {"context", "remove"}) = Side(at.lines, {"context", "remove"})
      BY <2>4, <2>5
    <3> QED BY <3>1 DEF WalkAt
  <2>9. Side(more, {"context", "add"}) = SubSeq(b, 1, at.j + 1)
    <3>1. Side(more, {"context", "add"}) = Append(Side(at.lines, {"context", "add"}), b[at.j + 1])
      BY <2>4, <2>5
    <3>2. Side(at.lines, {"context", "add"}) = SubSeq(b, 1, at.j)
      BY DEF WalkAt
    <3> QED BY <3>1, <3>2, <2>3, SubSeqLonger
  <2>10. Len(Side(more, {"context"})) = at.k
    <3>1. Side(more, {"context"}) = Side(at.lines, {"context"})
      BY <2>4, <2>5
    <3> QED BY <3>1 DEF WalkAt
  <2>11. to.i \in 0..Len(a) /\ to.j \in 0..Len(b) /\ to.k \in 0..Len(lcs) /\ to.i + to.j > at.i + at.j
    BY <2>3, <2>6, <1>0
  <2>12. WalkAt(E, a, b, lcs, to)
    BY <2>5, <2>6, <2>7, <2>8, <2>9, <2>10, <2>11 DEF WalkAt
  <2> QED BY <2>11, <2>12, <1>3 DEF to
<1>4. CASE /\ ~(at.i = Len(a) /\ at.j = Len(b)) /\ ~InBoth(a, b, lcs, at)
           /\ ~(at.j < Len(b) /\ (at.i = Len(a) \/ AtHand(a, lcs, at)))
  <2>1. to = [at EXCEPT !.i = @ + 1, !.lines = Append(@, DiffLine("remove", a[at.i + 1]))]
    BY <1>4 DEF StepOn
  <2>2. at.i < Len(a)
    BY <1>0, <1>4
  <2>3. at.i \in 0..(Len(a) - 1) /\ at.i \in Nat /\ at.j \in Nat /\ at.k \in Nat
    BY <1>0, <2>2
  <2>4. ~(at.k < Len(lcs) /\ a[at.i + 1] = lcs[at.k + 1])
    <3>1. CASE ~AtHand(a, lcs, at)
      BY <3>1, <2>2 DEF AtHand
    <3>2. CASE at.j = Len(b)
      <4>1. PICK f : Embedding(lcs, at.k, b, at.j, f)
        BY DEF WalkAt, Embeds
      <4>2. (at.j + 1)..Len(b) = {}
        BY <1>0, <3>2
      <4>3. at.k < Len(lcs) => at.k + 1 \in (at.k + 1)..Len(lcs)
        BY <1>0
      <4> QED BY <4>1, <4>2, <4>3 DEF Embedding
    <3> QED BY <3>1, <3>2, <1>0, <1>4
  <2> DEFINE line == DiffLine("remove", a[at.i + 1])
  <2>5. a[at.i + 1] \in E /\ line \in DiffLines(E) /\ line.type = "remove" /\ line.content = a[at.i + 1]
    <3>1. a[at.i + 1] \in E
      BY <2>3, SubSeqLonger
    <3> QED BY <3>1 DEF DiffLine, DiffLines
  <2> HIDE DEF line
  <2> DEFINE more == Append(at.lines, line)
  <2>6. /\ more \in Seq(DiffLines(E))
        /\ \A types : Side(more, types) = IF line.type \in types THEN Append(Side(at.lines, types), line.content)
                                          ELSE Side(at.lines, types)
    BY <1>0, <2>5, SideOfLonger
  <2> HIDE DEF more, to
  <2>7. /\ to.i = at.i + 1 /\ to.j = at.j /\ to.k = at.k /\ to.lines = more
        /\ to = [i |-> to.i, j |-> to.j, k |-> to.k, lines |-> to.lines]
    BY <2>1, <1>0 DEF more, line
  <2>8. Embeds(lcs, at.k, a, at.i + 1) /\ Embeds(lcs, at.k, b, at.j)
    <3>1. Embeds(lcs, at.k, a, at.i) /\ Embeds(lcs, at.k, b, at.j)
      BY DEF WalkAt
    <3> QED BY <3>1, <2>2, <2>3, <2>4, <1>0, EmbedsSkipping
  <2>9. Side(more, {"context", "remove"}) = SubSeq(a, 1, at.i + 1)
    <3>1. Side(more, {"context", "remove"}) = Append(Side(at.lines, {"context", "remove"}), a[at.i + 1])
      BY <2>5, <2>6
    <3>2. Side(at.lines, {"context", "remove"}) = SubSeq(a, 1, at.i)
      BY DEF WalkAt
    <3> QED BY <3>1, <3>2, <2>3, SubSeqLonger
  <2>10. Side(more, {"context", "add"}) = SubSeq(b, 1, at.j)
    <3>1. Side(more, {"context", "add"}) = Side(at.lines, {"context", "add"})
      BY <2>5, <2>6
    <3> QED BY <3>1 DEF WalkAt
  <2>11. Len(Side(more, {"context"})) = at.k
    <3>1. Side(more, {"context"}) = Side(at.lines, {"context"})
      BY <2>5, <2>6
    <3> QED BY <3>1 DEF WalkAt
  <2>12. to.i \in 0..Len(a) /\ to.j \in 0..Len(b) /\ to.k \in 0..Len(lcs) /\ to.i + to.j > at.i + at.j
    BY <2>2, <2>3, <2>7, <1>0
  <2>13. WalkAt(E, a, b, lcs, to)
    BY <2>6, <2>7, <2>8, <2>9, <2>10, <2>11, <2>12 DEF WalkAt
  <2> QED BY <2>12, <2>13, <1>4 DEF to
<1> QED BY <1>1, <1>2, <1>3, <1>4

LEMMA DiffIs ==
  ASSUME NEW E, NEW a \in Seq(E), NEW b \in Seq(E)
  PROVE  \E at : /\ WalkAt(E, a, b, LongestCommonSubsequence(a, b), at)
                 /\ at.i = Len(a) /\ at.j = Len(b) /\ at.lines = ComputeDiff(a, b)
<1> DEFINE lcs == LongestCommonSubsequence(a, b)
           N == Len(a) + Len(b)
           start == [i |-> 0, j |-> 0, k |-> 0, lines |-> <<>>]
           V == {v \in [i : 0..Len(a), j : 0..Len(b), k : 0..Len(lcs), lines : Seq(DiffLines(E))] :
                   WalkAt(E, a, b, lcs, v)}
           F == [x \in (1..N) \X V |-> StepOn(a, b, lcs, x[2])]
           Is(g) == g = [n \in 0..N |-> IF n = 0 THEN start ELSE StepOn(a, b, lcs, g[n - 1])]
           walk == CHOOSE g : Is(g)
<1>0. /\ N \in Nat /\ Len(a) \in Nat /\ Len(b) \in Nat /\ Len(lcs) \in Nat /\ lcs \in Seq(E)
      /\ Embeds(lcs, 0, a, 0) /\ Embeds(lcs, 0, b, 0)
  <2>1. lcs \in Seq(E) /\ Embeds(lcs, 0, a, 0) /\ Embeds(lcs, 0, b, 0)
    BY LcsIs
  <2>2. \A s \in Seq(E) : Len(s) \in Nat
    OBVIOUS
  <2> HIDE DEF lcs
  <2> QED BY <2>1, <2>2
<1> HIDE DEF lcs
<1>1. start \in V /\ start.i = 0 /\ start.j = 0
  <2>1. <<>> \in Seq(DiffLines(E)) /\ Len(<<>>) = 0
    OBVIOUS
  <2>2. \A types : Side(<<>>, types) = <<>>
    BY SideOfNothing
  <2>3. SubSeq(a, 1, 0) = <<>> /\ SubSeq(b, 1, 0) = <<>>
    BY <1>0
  <2>4. /\ start.i = 0 /\ start.j = 0 /\ start.k = 0 /\ start.lines = <<>>
        /\ start = [i |-> start.i, j |-> start.j, k |-> start.k, lines |-> start.lines]
    OBVIOUS
  <2>5. start \in [i : 0..Len(a), j : 0..Len(b), k : 0..Len(lcs), lines : Seq(DiffLines(E))]
    BY <1>0, <2>1
  <2> HIDE DEF start
  <2>6. WalkAt(E, a, b, lcs, start)
    <3>1. start.i \in 0..Len(a) /\ start.j \in 0..Len(b) /\ start.k \in 0..Len(lcs)
      BY <1>0, <2>4
    <3>2. start.lines \in Seq(DiffLines(E)) /\ \A types : Side(start.lines, types) = <<>>
      BY <2>1, <2>2, <2>4
    <3>3. SubSeq(a, 1, start.i) = <<>> /\ SubSeq(b, 1, start.j) = <<>> /\ Len(<<>>) = start.k
      BY <2>1, <2>3, <2>4
    <3>4. Embeds(lcs, start.k, a, start.i) /\ Embeds(lcs, start.k, b, start.j)
      BY <1>0, <2>4
    <3> QED BY <2>4, <3>1, <3>2, <3>3, <3>4 DEF WalkAt
  <2> QED BY <2>4, <2>5, <2>6
<1> HIDE DEF start
<1>2. ASSUME NEW v \in V
      PROVE  /\ StepOn(a, b, lcs, v) \in V
             /\ v.i = Len(a) /\ v.j = Len(b) => StepOn(a, b, lcs, v) = v
             /\ ~(v.i = Len(a) /\ v.j = Len(b)) =>
                  StepOn(a, b, lcs, v).i + StepOn(a, b, lcs, v).j > v.i + v.j
  <2> DEFINE to == StepOn(a, b, lcs, v)
  <2>1. WalkAt(E, a, b, lcs, v)
    OBVIOUS
  <2>2. /\ WalkAt(E, a, b, lcs, to)
        /\ v.i = Len(a) /\ v.j = Len(b) => to = v
        /\ ~(v.i = Len(a) /\ v.j = Len(b)) => to.i + to.j > v.i + v.j
    BY <1>0, <2>1, StepsOn
  <2>3. to \in V
    <3> HIDE DEF to
    <3>1. /\ to = [i |-> to.i, j |-> to.j, k |-> to.k, lines |-> to.lines]
          /\ to.i \in 0..Len(a) /\ to.j \in 0..Len(b) /\ to.k \in 0..Len(lcs)
          /\ to.lines \in Seq(DiffLines(E))
      BY <2>2 DEF WalkAt
    <3> QED BY <2>2, <3>1
  <2> QED BY <2>2, <2>3
<1>3. \A v \in V : v.i \in 0..Len(a) /\ v.j \in 0..Len(b) /\ WalkAt(E, a, b, lcs, v)
  OBVIOUS
<1> HIDE DEF V
<1>4. F \in [(1..N) \X V -> V]
  BY <1>2
<1>5. PICK g \in [0..N -> V] : Turns(g, N, start, F)
  <2> HIDE DEF F, N
  <2> QED BY <1>0, <1>1, <1>4, LoopTurns
<1>6. ASSUME NEW n \in 0..N
      PROVE  g[n] = IF n = 0 THEN start ELSE StepOn(a, b, lcs, g[n - 1])
  <2>1. g[n] = IF n = 0 THEN start ELSE F[<<n, g[n - 1]>>]
    <3> HIDE DEF F
    <3> QED BY <1>5 DEF Turns
  <2>2. n # 0 => <<n, g[n - 1]>> \in (1..N) \X V
    <3> HIDE DEF N
    <3> QED BY <1>0, <1>5
  <2> QED BY <2>1, <2>2
<1>7. Is(g)
  BY <1>5, <1>6
<1>8. ComputeDiff(a, b) = walk[N].lines
  BY DEF ComputeDiff, lcs, start
<1>9. Is(walk)
  <2> HIDE DEF Is
  <2> QED BY <1>7
<1> HIDE DEF walk
<1>10. walk = [n \in 0..N |-> walk[n]]
  <2> HIDE DEF N
  <2> QED BY <1>9
<1>11. \A n \in 0..N : walk[n] = IF n = 0 THEN start ELSE StepOn(a, b, lcs, walk[n - 1])
  <2> HIDE DEF N
  <2> QED BY <1>9
<1>12. walk \in [0..N -> V]
  <2> HIDE DEF N
  <2>1. walk[0] \in V
    <3>1. 0 \in 0..N
      BY <1>0
    <3> QED BY <3>1, <1>1, <1>11
  <2>2. ASSUME NEW n \in 1..N, walk[n - 1] \in V PROVE walk[n] \in V
    <3>1. walk[n] = StepOn(a, b, lcs, walk[n - 1])
      BY <1>0, <1>11
    <3> QED BY <3>1, <2>2, <1>2
  <2> QED BY <1>0, <1>10, <2>1, <2>2, StaysIn
<1> HIDE DEF N
<1> DEFINE Done(n) == walk[n].i = Len(a) /\ walk[n].j = Len(b)
           T == {n \in Nat : n <= N => Done(n) \/ walk[n].i + walk[n].j >= n}
<1>13. 0 \in T
  <2>1. walk[0] = start
    BY <1>0, <1>11
  <2> QED BY <1>1, <2>1
<1>14. ASSUME NEW n \in T PROVE n + 1 \in T
  <2>1. SUFFICES ASSUME n + 1 <= N
                 PROVE  Done(n + 1) \/ walk[n + 1].i + walk[n + 1].j >= n + 1
    OBVIOUS
  <2>2. n \in Nat /\ n \in 0..N /\ n + 1 \in 0..N /\ n + 1 # 0 /\ (n + 1) - 1 = n
    BY <2>1, <1>0
  <2>3. Done(n) \/ walk[n].i + walk[n].j >= n
    BY <2>1, <1>0
  <2>4. walk[n + 1] = StepOn(a, b, lcs, walk[n]) /\ walk[n] \in V /\ walk[n + 1] \in V
    BY <2>2, <1>11, <1>12
  <2>5. /\ Done(n) => walk[n + 1] = walk[n]
        /\ ~Done(n) => walk[n + 1].i + walk[n + 1].j > walk[n].i + walk[n].j
    BY <2>4, <1>2
  <2>6. walk[n].i + walk[n].j \in Int /\ walk[n + 1].i + walk[n + 1].j \in Int
    <3>1. \A x \in 0..Len(a), y \in 0..Len(b) : x + y \in Int
      BY <1>0
    <3> QED BY <3>1, <2>4, <1>3
  <2>7. CASE Done(n)
    BY <2>5, <2>7
  <2>8. CASE ~Done(n)
    <3>1. \A p, q \in Int : p >= n /\ q > p => q >= n + 1
      BY <2>2
    <3> HIDE DEF Done, T
    <3> QED BY <3>1, <2>3, <2>5, <2>6, <2>8
  <2> QED BY <2>7, <2>8
<1>15. T = Nat
  <2> HIDE DEF T
  <2> QED BY <1>13, <1>14, Induction DEF T
<1>16. Done(N) \/ walk[N].i + walk[N].j >= N
  <2>1. N \in T
    <3> HIDE DEF T
    <3> QED BY <1>0, <1>15
  <2> QED BY <2>1, <1>0
<1>17. walk[N] \in V /\ walk[N].i \in 0..Len(a) /\ walk[N].j \in 0..Len(b)
  BY <1>0, <1>3, <1>12
<1>18. Done(N)
  <2>1. \A x \in 0..Len(a), y \in 0..Len(b) : x + y >= Len(a) + Len(b) => x = Len(a) /\ y = Len(b)
    BY <1>0
  <2> QED BY <2>1, <1>16, <1>17 DEF N
<1>19. WalkAt(E, a, b, lcs, walk[N])
  BY <1>3, <1>17
<1> QED BY <1>8, <1>18, <1>19 DEF lcs

\* What a common subsequence has in common.
LEMMA CommonIsMatching ==
  ASSUME NEW s, NEW a, NEW b, Len(s) \in Nat, Len(a) \in Nat, Len(b) \in Nat,
         DOMAIN s = 1..Len(s), DOMAIN a = 1..Len(a), DOMAIN b = 1..Len(b),
         IsSubsequence(s, a), IsSubsequence(s, b)
  PROVE  \E f, g : Matching(a, b, Len(s), Len(a), Len(b), f, g)
<1>1. PICK f \in [DOMAIN s -> DOMAIN a] : /\ \A i, j \in DOMAIN s : i < j => f[i] < f[j]
                                          /\ \A i \in DOMAIN s : s[i] = a[f[i]]
  BY DEF IsSubsequence
<1>2. PICK g \in [DOMAIN s -> DOMAIN b] : /\ \A i, j \in DOMAIN s : i < j => g[i] < g[j]
                                          /\ \A i \in DOMAIN s : s[i] = b[g[i]]
  BY DEF IsSubsequence
<1>3. Matching(a, b, Len(s), Len(a), Len(b), f, g)
  BY <1>1, <1>2 DEF Matching
<1> QED BY <1>3

\* The difference of any two contents.
LEMMA DiffHolds ==
  ASSUME NEW a \in Seq(Lines), NEW b \in Seq(Lines)
  PROVE  /\ Side(ComputeDiff(a, b), {"context", "remove"}) = a
         /\ Side(ComputeDiff(a, b), {"context", "add"}) = b
         /\ \A s \in Seq(Lines) : IsSubsequence(s, a) /\ IsSubsequence(s, b) =>
                                    Len(s) <= Len(Side(ComputeDiff(a, b), {"context"}))
<1> DEFINE lcs == LongestCommonSubsequence(a, b)
           dp == LcsTable(a, b)
<1>1. PICK at : /\ WalkAt(Lines, a, b, lcs, at)
                /\ at.i = Len(a) /\ at.j = Len(b) /\ at.lines = ComputeDiff(a, b)
  BY DiffIs
<1>2. Len(a) \in Nat /\ Len(b) \in Nat /\ lcs \in Seq(Lines) /\ Len(lcs) \in Nat
      /\ Len(lcs) = dp[Len(a)][Len(b)] /\ IsTable(a, b, dp)
  <2>1. lcs \in Seq(Lines) /\ Len(lcs) = dp[Len(a)][Len(b)]
    BY LcsIs
  <2>2. \A s \in Seq(Lines) : Len(s) \in Nat
    OBVIOUS
  <2>3. IsTable(a, b, dp)
    BY <2>2, TableIs
  <2> HIDE DEF lcs, dp
  <2> QED BY <2>1, <2>2, <2>3
<1> HIDE DEF lcs, dp
<1>3. SubSeq(a, 1, Len(a)) = a /\ SubSeq(b, 1, Len(b)) = b
  <2>1. \A s \in Seq(Lines) : SubSeq(s, 1, Len(s)) = s
    OBVIOUS
  <2> QED BY <2>1
<1>4. /\ Side(ComputeDiff(a, b), {"context", "remove"}) = a
      /\ Side(ComputeDiff(a, b), {"context", "add"}) = b
      /\ Len(Side(ComputeDiff(a, b), {"context"})) = at.k
  BY <1>1, <1>3 DEF WalkAt
<1>5. at.k = Len(lcs)
  <2>1. at.k \in 0..Len(lcs) /\ Embeds(lcs, at.k, a, Len(a))
    BY <1>1 DEF WalkAt
  <2>2. PICK f : Embedding(lcs, at.k, a, Len(a), f)
    BY <2>1 DEF Embeds
  <2>3. (Len(a) + 1)..Len(a) = {}
    BY <1>2
  <2>4. at.k < Len(lcs) => at.k + 1 \in (at.k + 1)..Len(lcs)
    BY <1>2, <2>1
  <2>5. ~(at.k < Len(lcs))
    BY <2>2, <2>3, <2>4 DEF Embedding
  <2> QED BY <2>1, <2>5, <1>2
<1>6. ASSUME NEW s \in Seq(Lines), IsSubsequence(s, a), IsSubsequence(s, b)
      PROVE  Len(s) <= Len(lcs)
  <2>1. Len(s) \in Nat /\ DOMAIN s = 1..Len(s) /\ DOMAIN a = 1..Len(a) /\ DOMAIN b = 1..Len(b)
    OBVIOUS
  <2>2. PICK f, g : Matching(a, b, Len(s), Len(a), Len(b), f, g)
    BY <1>2, <1>6, <2>1, CommonIsMatching
  <2>3. Len(a) \in 0..Len(a) /\ Len(b) \in 0..Len(b)
    BY <1>2
  <2> QED BY <1>2, <2>1, <2>2, <2>3, TableIsLongest
<1> QED BY <1>4, <1>5, <1>6

-----------------------------------------------------------------------------
(* Merges of any number of changes. *)

MergeState == [merged : MergeDocument, conflicts : SUBSET {"body", "metadata", "tools"}]

\* What a tool's overrides say: None when there is none, or none of the field.
Said(tool) == IF tool = <<>> THEN None ELSE tool[1]

\* Documents that say the same, as far as they say anything.
Agreed(ds) ==
  /\ \A d, e \in ds : d.body = e.body
  /\ \A d, e \in ds : d.meta # None /\ e.meta # None => d.meta = e.meta
  /\ \A d, e \in ds : Said(d.tool) # None /\ Said(e.tool) # None => Said(d.tool) = Said(e.tool)

\* m says what one of the documents says, wherever one of them says something.
Joint(ds, base, m) ==
  /\ m \in MergeDocument /\ m.body = base.body
  /\ \A d \in ds : d.meta # None => m.meta # None
  /\ m.meta # None => \E d \in ds : d.meta = m.meta
  /\ \A d \in ds : d.tool # <<>> => m.tool # <<>>
  /\ m.tool # <<>> => \E d \in ds : d.tool # <<>>
  /\ \A d \in ds : Said(d.tool) # None => Said(m.tool) # None
  /\ Said(m.tool) # None => \E d \in ds : Said(d.tool) = Said(m.tool)

LEMMA DocumentType ==
  ASSUME NEW d \in MergeDocument
  PROVE  /\ d = [body |-> d.body, meta |-> d.meta, tool |-> d.tool]
         /\ d.meta \in MergeValues \cup {None}
         /\ d.tool = <<>> \/ (d.tool # <<>> /\ d.tool = <<d.tool[1]>> /\ d.tool[1] \in MergeValues \cup {None})
  BY DEF MergeDocument

LEMMA MergedOne ==
  ASSUME NEW c, NEW d, c \in MergeValues \cup {None}, d \in MergeValues \cup {None}
  PROVE  /\ Merged(c, d) \in MergeValues \cup {None}
         /\ c # None \/ d # None => Merged(c, d) # None
         /\ Merged(c, d) = c \/ Merged(c, d) = d
         /\ c # None => Merged(c, d) = c
  BY DEF Merged

LEMMA MergedTools ==
  ASSUME NEW m \in MergeDocument, NEW d \in MergeDocument
  PROVE  LET t == MergedTool(m.tool, d.tool)
         IN  /\ t \in {<<>>} \cup {<<v>> : v \in MergeValues \cup {None}}
             /\ t # <<>> <=> m.tool # <<>> \/ d.tool # <<>>
             /\ Said(t) = Merged(Said(m.tool), Said(d.tool))
<1>1. CASE d.tool = <<>>
  BY <1>1, DocumentType DEF MergedTool, MergeDocument, Said, Merged
<1>2. CASE d.tool # <<>> /\ m.tool = <<>>
  BY <1>2, DocumentType DEF MergedTool, MergeDocument, Said, Merged
<1>3. CASE d.tool # <<>> /\ m.tool # <<>>
  <2>1. /\ m.tool = <<m.tool[1]>> /\ m.tool[1] \in MergeValues \cup {None}
        /\ d.tool = <<d.tool[1]>> /\ d.tool[1] \in MergeValues \cup {None}
    BY <1>3, DocumentType
  <2>2. MergedTool(m.tool, d.tool) = <<Merged(m.tool[1], d.tool[1])>>
    BY <1>3 DEF MergedTool
  <2>3. Merged(m.tool[1], d.tool[1]) \in MergeValues \cup {None}
    BY <2>1, MergedOne
  <2>4. \A v : <<v>> # <<>> /\ <<v>>[1] = v
    OBVIOUS
  <2>5. Said(MergedTool(m.tool, d.tool)) = Merged(Said(m.tool), Said(d.tool))
    BY <2>2, <2>4, <1>3 DEF Said
  <2> QED BY <2>2, <2>3, <2>4, <2>5, <1>3
<1> QED BY <1>1, <1>2, <1>3

\* d says nothing else than the merged document m, nor has another body than base.
Alike(base, m, d) ==
  /\ d.body = base.body
  /\ ~(m.meta # None /\ d.meta # None /\ m.meta # d.meta)
  /\ ~(Said(m.tool) # None /\ Said(d.tool) # None /\ Said(m.tool) # Said(d.tool))

\* to is what one change makes of st, whatever was merged before.
Changed(base, st, d, to) ==
  /\ to \in MergeState /\ st.merged \in MergeDocument
  /\ to.merged.body = st.merged.body
  /\ to.merged.meta = Merged(st.merged.meta, d.meta)
  /\ to.merged.tool = MergedTool(st.merged.tool, d.tool)
  /\ to.conflicts = {} <=> st.conflicts = {} /\ Alike(base, st.merged, d)

LEMMA ChangeIs ==
  ASSUME NEW base, NEW st \in MergeState, NEW d \in MergeDocument
  PROVE  Changed(base, st, d, MergeChange(base, st, d))
<1> DEFINE to == MergeChange(base, st, d)
           m == st.merged
           tool == MergedTool(m.tool, d.tool)
           meta == Merged(m.meta, d.meta)
<1>0. m \in MergeDocument /\ st.conflicts \in SUBSET {"body", "metadata", "tools"}
  BY DEF MergeState
<1>1. /\ to.merged = [m EXCEPT !.meta = meta, !.tool = tool]
      /\ to.conflicts = st.conflicts \cup ConflictsOf(base, m, d)
      /\ to = [merged |-> to.merged, conflicts |-> to.conflicts]
  BY DEF MergeChange
<1>2. /\ tool \in {<<>>} \cup {<<v>> : v \in MergeValues \cup {None}}
      /\ tool # <<>> <=> m.tool # <<>> \/ d.tool # <<>>
      /\ Said(tool) = Merged(Said(m.tool), Said(d.tool))
  BY <1>0, MergedTools
<1>3. /\ m.meta \in MergeValues \cup {None} /\ d.meta \in MergeValues \cup {None}
      /\ Said(m.tool) \in MergeValues \cup {None} /\ Said(d.tool) \in MergeValues \cup {None}
  BY <1>0, DocumentType DEF Said
<1>4. /\ meta \in MergeValues \cup {None}
      /\ m.meta # None \/ d.meta # None => meta # None
      /\ meta = m.meta \/ meta = d.meta
  BY <1>3, MergedOne
<1>5. /\ Said(m.tool) # None \/ Said(d.tool) # None => Said(tool) # None
      /\ Said(tool) = Said(m.tool) \/ Said(tool) = Said(d.tool)
  BY <1>2, <1>3, MergedOne
<1> HIDE DEF tool, meta
<1>6. /\ to.merged \in MergeDocument /\ to.merged.body = m.body
      /\ to.merged.meta = meta /\ to.merged.tool = tool
  <2>1. m = [body |-> m.body, meta |-> m.meta, tool |-> m.tool] /\ m.body \in {1, 2}
    BY <1>0, DocumentType DEF MergeDocument
  <2> HIDE DEF to, m
  <2>2. to.merged = [body |-> m.body, meta |-> meta, tool |-> tool]
    BY <1>1, <2>1
  <2> QED BY <2>1, <2>2, <1>2, <1>4 DEF MergeDocument
<1>7. ConflictsOf(base, m, d) = {} <=> Alike(base, m, d)
  BY DEF ConflictsOf, Conflicting, Said, Alike
<1>8. ConflictsOf(base, m, d) \subseteq {"body", "metadata", "tools"}
  BY DEF ConflictsOf
<1>9. to \in MergeState
  <2> HIDE DEF to, m
  <2>1. to.conflicts \in SUBSET {"body", "metadata", "tools"}
    BY <1>0, <1>1, <1>8
  <2> QED BY <2>1, <1>1, <1>6 DEF MergeState
<1> HIDE DEF to, m
<1>11. to.conflicts = {} <=> st.conflicts = {} /\ ConflictsOf(base, m, d) = {}
  BY <1>1
<1> QED BY <1>0, <1>6, <1>7, <1>9, <1>11 DEF Changed, to, m, tool, meta

LEMMA ChangeMerged ==
  ASSUME NEW base \in MergeDocument, NEW st \in MergeState, NEW ds, base \in ds,
         \A d \in ds : d \in MergeDocument, NEW d \in MergeDocument,
         st.conflicts = {} <=> Agreed(ds), Joint(ds, base, st.merged)
  PROVE  LET to == MergeChange(base, st, d)
         IN  /\ to \in MergeState
             /\ to.conflicts = {} <=> Agreed(ds \cup {d})
             /\ Joint(ds \cup {d}, base, to.merged)
<1> DEFINE to == MergeChange(base, st, d)
           m == st.merged
           tool == MergedTool(m.tool, d.tool)
           meta == Merged(m.meta, d.meta)
           Like == Alike(base, m, d)
<1>1. /\ to \in MergeState /\ m \in MergeDocument
      /\ to.merged.body = m.body /\ to.merged.meta = meta /\ to.merged.tool = tool
      /\ to.conflicts = {} <=> st.conflicts = {} /\ Like
  <2>1. Changed(base, st, d, to)
    BY ChangeIs
  <2> HIDE DEF to
  <2> QED BY <2>1 DEF Changed
<1>2. /\ tool \in {<<>>} \cup {<<v>> : v \in MergeValues \cup {None}}
      /\ tool # <<>> <=> m.tool # <<>> \/ d.tool # <<>>
      /\ Said(tool) = Merged(Said(m.tool), Said(d.tool))
  BY <1>1, MergedTools
<1>3. /\ m.meta \in MergeValues \cup {None} /\ d.meta \in MergeValues \cup {None}
      /\ Said(m.tool) \in MergeValues \cup {None} /\ Said(d.tool) \in MergeValues \cup {None}
  BY <1>1, DocumentType DEF Said
<1>4. /\ meta \in MergeValues \cup {None}
      /\ m.meta # None \/ d.meta # None => meta # None
      /\ meta = m.meta \/ meta = d.meta
  BY <1>3, MergedOne
<1>5. /\ Said(m.tool) # None \/ Said(d.tool) # None => Said(tool) # None
      /\ Said(tool) = Said(m.tool) \/ Said(tool) = Said(d.tool)
  BY <1>2, <1>3, MergedOne
<1> HIDE DEF tool, meta
<1>6. /\ to.merged \in MergeDocument /\ to.merged.body = m.body
      /\ to.merged.meta = meta /\ to.merged.tool = tool
  <2> HIDE DEF to, m
  <2> QED BY <1>1 DEF MergeState
<1> HIDE DEF to, m
<1>10. Joint(ds \cup {d}, base, to.merged)
  <2>1. \A e \in ds \cup {d} : e.meta # None => to.merged.meta # None
    BY <1>4, <1>6 DEF Joint, m
  <2>2. to.merged.meta # None => \E e \in ds \cup {d} : e.meta = to.merged.meta
    BY <1>4, <1>6 DEF Joint, m
  <2>3. \A e \in ds \cup {d} : e.tool # <<>> => to.merged.tool # <<>>
    BY <1>2, <1>6 DEF Joint, m
  <2>4. to.merged.tool # <<>> => \E e \in ds \cup {d} : e.tool # <<>>
    BY <1>2, <1>6 DEF Joint, m
  <2>5. \A e \in ds \cup {d} : Said(e.tool) # None => Said(to.merged.tool) # None
    BY <1>5, <1>6 DEF Joint, m
  <2>6. Said(to.merged.tool) # None => \E e \in ds \cup {d} : Said(e.tool) = Said(to.merged.tool)
    BY <1>5, <1>6 DEF Joint, m
  <2>7. to.merged.body = base.body
    BY <1>6 DEF Joint, m
  <2> QED BY <2>1, <2>2, <2>3, <2>4, <2>5, <2>6, <2>7, <1>6 DEF Joint
<1>12. ASSUME Agreed(ds \cup {d}) PROVE Agreed(ds) /\ Like
  <2>1. Agreed(ds)
    BY <1>12 DEF Agreed
  <2>2. d.body = base.body
    BY <1>12 DEF Agreed
  <2>3. ~(m.meta # None /\ d.meta # None /\ m.meta # d.meta)
    BY <1>12 DEF Agreed, Joint, m
  <2>4. ~(Said(m.tool) # None /\ Said(d.tool) # None /\ Said(m.tool) # Said(d.tool))
    BY <1>12 DEF Agreed, Joint, m
  <2> QED BY <2>1, <2>2, <2>3, <2>4 DEF Alike
<1>13. ASSUME Agreed(ds), Like PROVE Agreed(ds \cup {d})
  <2>1. \A e \in ds : e.body = d.body
    BY <1>13 DEF Agreed, Alike
  <2>2. \A e \in ds : e.meta # None /\ d.meta # None => e.meta = d.meta
    BY <1>13 DEF Agreed, Alike, Joint, m
  <2>3. \A e \in ds : Said(e.tool) # None /\ Said(d.tool) # None => Said(e.tool) = Said(d.tool)
    BY <1>13 DEF Agreed, Alike, Joint, m
  <2> QED BY <1>13, <2>1, <2>2, <2>3 DEF Agreed
<1>14. to.conflicts = {} <=> Agreed(ds \cup {d})
  BY <1>1, <1>12, <1>13
<1> QED BY <1>1, <1>10, <1>14 DEF to

\* What a merge of any changes makes of them and their base.
LEMMA MergeIs ==
  ASSUME NEW base \in MergeDocument, NEW changes \in Seq(MergeDocument)
  PROVE  LET merge == AutoMergeAdditive(base, changes)
             ds == Range(changes) \cup {base}
         IN  /\ merge \in MergeState
             /\ merge.conflicts = {} <=> Agreed(ds)
             /\ Joint(ds, base, merge.merged)
<1> DEFINE N == Len(changes)
           start == [merged |-> base, conflicts |-> {}]
           F == [x \in (1..N) \X MergeState |-> MergeChange(base, x[2], changes[x[1]])]
           Is(g) == g = [n \in 0..N |-> IF n = 0 THEN start ELSE MergeChange(base, g[n - 1], changes[n])]
           merge == CHOOSE g : Is(g)
<1>0. N \in Nat /\ \A n \in 1..N : changes[n] \in MergeDocument
  OBVIOUS
<1>1. start \in MergeState /\ start.merged = base /\ start.conflicts = {}
  BY DEF MergeState
<1> HIDE DEF start
<1>2. \A v \in MergeState, n \in 1..N : MergeChange(base, v, changes[n]) \in MergeState
  BY <1>0, ChangeIs DEF Changed
<1>3. F \in [(1..N) \X MergeState -> MergeState]
  BY <1>2
<1>4. PICK g \in [0..N -> MergeState] : Turns(g, N, start, F)
  <2> HIDE DEF F, N
  <2> QED BY <1>0, <1>1, <1>3, LoopTurns
<1>5. ASSUME NEW n \in 0..N
      PROVE  g[n] = IF n = 0 THEN start ELSE MergeChange(base, g[n - 1], changes[n])
  <2>1. g[n] = IF n = 0 THEN start ELSE F[<<n, g[n - 1]>>]
    <3> HIDE DEF F
    <3> QED BY <1>4 DEF Turns
  <2>2. n # 0 => <<n, g[n - 1]>> \in (1..N) \X MergeState
    <3> HIDE DEF N
    <3> QED BY <1>0, <1>4
  <2> QED BY <2>1, <2>2
<1>6. Is(g)
  BY <1>4, <1>5
<1>7. AutoMergeAdditive(base, changes) = merge[N]
  BY DEF AutoMergeAdditive, start
<1>8. Is(merge)
  <2> HIDE DEF Is
  <2> QED BY <1>6
<1> HIDE DEF merge
<1>9. \A n \in 0..N : merge[n] = IF n = 0 THEN start ELSE MergeChange(base, merge[n - 1], changes[n])
  <2> HIDE DEF N
  <2> QED BY <1>8
<1> DEFINE Upto(n) == {base} \cup {changes[x] : x \in 1..n}
           T == {n \in Nat : n <= N => /\ merge[n] \in MergeState
                                       /\ merge[n].conflicts = {} <=> Agreed(Upto(n))
                                       /\ Joint(Upto(n), base, merge[n].merged)}
<1>10. 0 \in T
  <2>1. merge[0] = start
    <3>1. 0 \in 0..N
      BY <1>0
    <3> HIDE DEF N
    <3> QED BY <3>1, <1>9
  <2>2. Upto(0) = {base}
    OBVIOUS
  <2>3. Agreed({base}) /\ Joint({base}, base, base)
    BY DEF Agreed, Joint
  <2>4. merge[0].conflicts = {} <=> Agreed(Upto(0))
    BY <1>1, <2>1, <2>2, <2>3
  <2> HIDE DEF Upto
  <2> QED BY <1>1, <2>1, <2>2, <2>3, <2>4
<1>11. ASSUME NEW n \in T PROVE n + 1 \in T
  <2>1. SUFFICES ASSUME n + 1 <= N
                 PROVE  /\ merge[n + 1] \in MergeState
                        /\ merge[n + 1].conflicts = {} <=> Agreed(Upto(n + 1))
                        /\ Joint(Upto(n + 1), base, merge[n + 1].merged)
    OBVIOUS
  <2>2. n \in Nat /\ n + 1 \in 0..N /\ n + 1 \in 1..N /\ n + 1 # 0 /\ (n + 1) - 1 = n
    BY <2>1, <1>0
  <2>3. /\ merge[n] \in MergeState
        /\ merge[n].conflicts = {} <=> Agreed(Upto(n))
        /\ Joint(Upto(n), base, merge[n].merged)
    BY <2>1, <1>0
  <2> DEFINE d == changes[n + 1]
  <2>4. merge[n + 1] = MergeChange(base, merge[n], d) /\ d \in MergeDocument
    <3> HIDE DEF N
    <3> QED BY <2>2, <1>0, <1>9
  <2>5. Upto(n + 1) = Upto(n) \cup {d}
    <3>1. 1..(n + 1) = 1..n \cup {n + 1}
      BY <2>2
    <3> QED BY <3>1
  <2>6. base \in Upto(n) /\ \A e \in Upto(n) : e \in MergeDocument
    BY <2>2, <1>0
  <2> HIDE DEF Upto, d, T
  <2>7. /\ MergeChange(base, merge[n], d) \in MergeState
        /\ MergeChange(base, merge[n], d).conflicts = {} <=> Agreed(Upto(n) \cup {d})
        /\ Joint(Upto(n) \cup {d}, base, MergeChange(base, merge[n], d).merged)
    BY <2>3, <2>4, <2>6, ChangeMerged
  <2> QED BY <2>4, <2>5, <2>7
<1>12. T = Nat
  <2> HIDE DEF T
  <2> QED BY <1>10, <1>11, Induction DEF T
<1>13. /\ merge[N] \in MergeState
       /\ merge[N].conflicts = {} <=> Agreed(Upto(N))
       /\ Joint(Upto(N), base, merge[N].merged)
  <2>1. N \in T
    <3> HIDE DEF T
    <3> QED BY <1>0, <1>12
  <2> HIDE DEF Upto
  <2> QED BY <2>1, <1>0
<1>14. Range(changes) \cup {base} = Upto(N)
  BY <1>0 DEF Range
<1> HIDE DEF Upto
<1> QED BY <1>7, <1>13, <1>14

\* Documents that agree have one joint document, and it says what each says.
LEMMA JointIsOne ==
  ASSUME NEW base, NEW ds, \A d \in ds : d \in MergeDocument, base \in ds, Agreed(ds), NEW m, NEW n,
         Joint(ds, base, m), Joint(ds, base, n)
  PROVE  m = n /\ \A d \in ds : Keeps(m, d)
<1>1. m \in MergeDocument /\ n \in MergeDocument /\ m.body = base.body /\ n.body = base.body
  BY DEF Joint
<1>2. m.meta = n.meta
  BY DEF Joint, Agreed
<1>3. Said(m.tool) = Said(n.tool) /\ (m.tool = <<>> <=> n.tool = <<>>)
  BY DEF Joint, Agreed
<1>4. m.tool = n.tool
  BY <1>1, <1>3, DocumentType DEF Said
<1>5. m = n
  BY <1>1, <1>2, <1>4, DocumentType
<1>6. ASSUME NEW d \in ds PROVE Keeps(m, d)
  <2>1. d.meta # None => m.meta = d.meta
    BY DEF Joint, Agreed
  <2>2. d.tool # <<>> => m.tool # <<>>
    BY DEF Joint
  <2>3. Said(d.tool) # None => Said(m.tool) = Said(d.tool)
    BY DEF Joint, Agreed
  <2>4. m.body = d.body
    BY <1>1 DEF Agreed
  <2>5. d.tool # <<>> /\ d.tool[1] # None => m.tool[1] = d.tool[1]
    BY <2>2, <2>3 DEF Said
  <2> QED BY <2>1, <2>2, <2>4, <2>5 DEF Keeps
<1> QED BY <1>5, <1>6

LEMMA ReversedRange ==
  ASSUME NEW s, Len(s) \in Nat, DOMAIN s = 1..Len(s)
  PROVE  Range(Reverse(s)) = Range(s)
<1>1. Reverse(s) = [x \in 1..Len(s) |-> s[(Len(s) - x) + 1]]
  BY DEF Reverse
<1>2. \A x \in 1..Len(s) : (Len(s) - x) + 1 \in 1..Len(s) /\ (Len(s) - ((Len(s) - x) + 1)) + 1 = x
  OBVIOUS
<1>3. DOMAIN Reverse(s) = 1..Len(s) /\ \A x \in 1..Len(s) : Reverse(s)[x] = s[(Len(s) - x) + 1]
  BY <1>1
<1>4. ASSUME NEW v \in Range(s) PROVE v \in Range(Reverse(s))
  <2>1. PICK x \in 1..Len(s) : s[x] = v
    BY DEF Range
  <2>2. Reverse(s)[(Len(s) - x) + 1] = s[x]
    BY <1>2, <1>3
  <2> QED BY <2>1, <2>2, <1>2, <1>3 DEF Range
<1>5. ASSUME NEW v \in Range(Reverse(s)) PROVE v \in Range(s)
  BY <1>2, <1>3 DEF Range
<1> QED BY <1>4, <1>5

\* The merge of any changes, in one order and the other.
LEMMA MergeHolds ==
  ASSUME NEW base \in MergeDocument, NEW changes \in Seq(MergeDocument)
  PROVE  LET one == AutoMergeAdditive(base, changes)
             other == AutoMergeAdditive(base, Reverse(changes))
         IN  /\ one.conflicts = {} => \A d \in Range(changes) \cup {base} : Keeps(one.merged, d)
             /\ (one.conflicts = {}) = (other.conflicts = {})
             /\ one.conflicts = {} => one.merged = other.merged
<1> DEFINE one == AutoMergeAdditive(base, changes)
           other == AutoMergeAdditive(base, Reverse(changes))
           ds == Range(changes) \cup {base}
<1>1. Len(changes) \in Nat /\ DOMAIN changes = 1..Len(changes)
      /\ \A x \in 1..Len(changes) : changes[x] \in MergeDocument
  OBVIOUS
<1>2. Range(Reverse(changes)) = Range(changes)
  BY <1>1, ReversedRange
<1>3. Reverse(changes) \in Seq(MergeDocument)
  <2>1. Reverse(changes) = [x \in 1..Len(changes) |-> changes[(Len(changes) - x) + 1]]
    BY DEF Reverse
  <2>2. \A x \in 1..Len(changes) : changes[(Len(changes) - x) + 1] \in MergeDocument
    BY <1>1
  <2> QED BY <2>1, <2>2, <1>1
<1>4. (one.conflicts = {} <=> Agreed(ds)) /\ Joint(ds, base, one.merged)
  BY MergeIs
<1>5. (other.conflicts = {} <=> Agreed(ds)) /\ Joint(ds, base, other.merged)
  BY <1>2, <1>3, MergeIs
<1>6. base \in ds /\ \A d \in ds : d \in MergeDocument
  BY <1>1 DEF Range
<1> HIDE DEF one, other, ds
<1>7. one.conflicts = {} => one.merged = other.merged /\ \A d \in ds : Keeps(one.merged, d)
  BY <1>4, <1>5, <1>6, JointIsOne
<1>8. (one.conflicts = {}) = (other.conflicts = {})
  BY <1>4, <1>5
<1> QED BY <1>7, <1>8 DEF one, other, ds

-----------------------------------------------------------------------------
(* The questions about documents. *)

DocumentsAsked == asked \in {NoQuestion} \cup DiffQuestions \cup MergeQuestions

LEMMA DocumentsHold == DocumentsAsked => DocumentsSound
<1> SUFFICES ASSUME DocumentsAsked PROVE DocumentsSound
  OBVIOUS
<1>1. CASE asked = NoQuestion
  BY <1>1 DEF NoQuestion, DocumentsSound, AskedAbout
<1>2. CASE asked \in DiffQuestions
  <2>1. asked.about = "diff" /\ asked.old \in DiffContents /\ asked.new \in DiffContents
    BY <1>2 DEF DiffQuestions
  <2>2. DiffContents \subseteq Seq(Lines)
    BY DocumentAssumption DEF DiffContents
  <2>3. asked.old \in Seq(Lines) /\ asked.new \in Seq(Lines)
    BY <2>1, <2>2
  <2>4. DiffSound
    BY <2>2, <2>3, DiffHolds DEF DiffSound
  <2> QED BY <2>1, <2>4 DEF DocumentsSound, AskedAbout
<1>3. CASE asked \in MergeQuestions
  <2>1. asked.about = "merge" /\ asked.base \in MergeDocument
        /\ asked.changes \in UNION {[1..n -> MergeDocument] : n \in 0..MostChanges}
    BY <1>3 DEF MergeQuestions
  <2>2. asked.changes \in Seq(MergeDocument)
    BY <2>1, DocumentAssumption
  <2>3. MergeSound
    BY <2>1, <2>2, MergeHolds DEF MergeSound
  <2> QED BY <2>1, <2>3 DEF DocumentsSound, AskedAbout
<1> QED BY <1>1, <1>2, <1>3 DEF DocumentsAsked

\* Whatever two contents are compared, the difference gives back both and keeps
\* no fewer lines than any common subsequence has; and however many changes are
\* merged, they conflict or not whichever came first, and without a conflict
\* the one document they make says what the base and each of them says.
THEOREM DocumentsReach == QuestionInit /\ [][DocumentsNext]_asked => []DocumentsSound
<1>1. QuestionInit => DocumentsAsked
  BY DEF QuestionInit, DocumentsAsked
<1>2. DocumentsAsked /\ [DocumentsNext]_asked => DocumentsAsked'
  BY DEF DocumentsAsked, DocumentsNext, Ask
<1> QED BY <1>1, <1>2, DocumentsHold, PTL

-----------------------------------------------------------------------------
(* Policy documents.  The rules that remain, and their order.              *)

LEMMA GreatestUpTo ==
  ASSUME NEW n \in Nat, NEW P \in SUBSET (1..n), P # {}
  PROVE  \E v \in P : \A w \in P : w <= v
<1> DEFINE T == {n - v : v \in P}
<1>0. \A v \in P : v \in 1..n
  OBVIOUS
<1>1. T \in SUBSET Nat /\ T # {}
  <2>1. ASSUME NEW v \in P PROVE n - v \in Nat
    BY <1>0
  <2> QED BY <2>1
<1>2. PICK x \in T : \A y \in T : ~(y < x)
  BY <1>1, NatLeast
<1>3. PICK v \in P : x = n - v
  BY <1>2
<1>4. \A w \in P : ~(n - w < n - v)
  BY <1>2, <1>3
<1>5. \A w \in P : w <= v
  BY <1>0, <1>4
<1> QED BY <1>5

\* One rule of each id.
OneOfEach(ruleSet) == \A q, r \in ruleSet : q.id = r.id => q = r

\* What remains of some rules is one of each id they have.
LEMMA LastOfEach ==
  ASSUME NEW rules \in Seq(PolicyRule)
  PROVE  /\ LastById(rules) \subseteq Range(rules) /\ Range(rules) \subseteq PolicyRule
         /\ IsFiniteSet(LastById(rules))
         /\ OneOfEach(LastById(rules))
         /\ IdsOf(LastById(rules)) = IdsOf(Range(rules))
<1> DEFINE last == {j \in DOMAIN rules : \A k \in (j+1)..Len(rules) : rules[k].id # rules[j].id}
<1>1. DOMAIN rules = 1..Len(rules) /\ Len(rules) \in Nat /\ \A i \in DOMAIN rules : rules[i] \in PolicyRule
  OBVIOUS
<1>2. LastById(rules) = {rules[i] : i \in last}
  BY DEF LastById
<1>3. /\ LastById(rules) \subseteq Range(rules) /\ Range(rules) \subseteq PolicyRule
  BY <1>1, <1>2 DEF Range
<1>4. IsFiniteSet(LastById(rules))
  <2>1. IsFiniteSet(1..Len(rules))
    BY <1>1, FS_Interval
  <2>2. IsFiniteSet(last)
    BY <2>1, <1>1, FS_Subset
  <2> HIDE DEF last
  <2> DEFINE f == [i \in last |-> rules[i]]
  <2>3. f \in Surjection(last, LastById(rules))
    BY <1>2 DEF Surjection
  <2> QED BY <2>2, <2>3, FS_Surjection
<1>5. ASSUME NEW i \in last, NEW j \in last, rules[i].id = rules[j].id PROVE i = j
  BY <1>5, <1>1
<1>6. OneOfEach(LastById(rules))
  BY <1>2, <1>5 DEF OneOfEach
<1>7. ASSUME NEW i \in DOMAIN rules PROVE \E j \in last : rules[j].id = rules[i].id
  <2> DEFINE same == {j \in 1..Len(rules) : rules[j].id = rules[i].id}
  <2>1. same \subseteq 1..Len(rules) /\ i \in same
    BY <1>1
  <2>2. PICK v \in same : \A w \in same : w <= v
    BY <2>1, <1>1, GreatestUpTo
  <2>3. v \in last
    BY <2>2, <1>1
  <2> QED BY <2>2, <2>3
<1>8. IdsOf(LastById(rules)) = IdsOf(Range(rules))
  <2>1. \A r \in Range(rules) : \E q \in LastById(rules) : q.id = r.id
    <3> SUFFICES ASSUME NEW i \in DOMAIN rules
                 PROVE  \E q \in LastById(rules) : q.id = rules[i].id
      BY DEF Range
    <3>1. PICK j \in last : rules[j].id = rules[i].id
      BY <1>7
    <3>2. rules[j] \in LastById(rules)
      BY <1>2
    <3> QED BY <3>1, <3>2
  <2> QED BY <1>3, <2>1 DEF IdsOf
<1> QED BY <1>3, <1>4, <1>6, <1>8

\* A finite set whose members have numbers of their own can be put in their order.
LEMMA InAscendingOrder ==
  ASSUME NEW S, IsFiniteSet(S), NEW number \in [S -> Nat],
         \A x, y \in S : number[x] = number[y] => x = y
  PROVE  \E q \in [1..Cardinality(S) -> S] : \A i, j \in DOMAIN q : i < j => number[q[i]] < number[q[j]]
<1> DEFINE Sorts(q, T) == \A i, j \in DOMAIN q : i < j => number[q[i]] < number[q[j]]
           Can == {n \in Nat : \A T \in SUBSET S : Cardinality(T) = n =>
                                 \E q \in [1..n -> T] : Sorts(q, T)}
<1>1. 0 \in Can
  <2> SUFFICES ASSUME NEW T \in SUBSET S, Cardinality(T) = 0
               PROVE  \E q \in [1..0 -> T] : Sorts(q, T)
    OBVIOUS
  <2>1. [i \in 1..0 |-> i] \in [1..0 -> T] /\ Sorts([i \in 1..0 |-> i], T)
    OBVIOUS
  <2> QED BY <2>1
<1>2. ASSUME NEW n \in Can PROVE n + 1 \in Can
  <2> SUFFICES ASSUME NEW T \in SUBSET S, Cardinality(T) = n + 1
               PROVE  \E q \in [1..(n + 1) -> T] : Sorts(q, T)
    OBVIOUS
  <2>0. IsFiniteSet(T) /\ n \in Nat
    BY FS_Subset
  <2>1. PICK m \in T : \A x \in T : ~(number[x] < number[m])
    <3> DEFINE used == {number[x] : x \in T}
    <3>1. T # {}
      BY <2>0, FS_EmptySet
    <3>2. used \in SUBSET Nat /\ used # {}
      BY <3>1
    <3>3. PICK v \in used : \A w \in used : ~(w < v)
      <4> HIDE DEF used
      <4> QED BY <3>2, NatLeast
    <3>4. PICK m \in T : v = number[m]
      OBVIOUS
    <3> QED BY <3>3, <3>4
  <2>2. Cardinality(T \ {m}) = n /\ T \ {m} \in SUBSET S
    <3>1. Cardinality(T \ {m}) = Cardinality(T) - 1
      BY <2>0, FS_RemoveElement
    <3>2. Cardinality(T) = n + 1
      OBVIOUS
    <3> QED BY <2>0, <3>1, <3>2
  <2>3. PICK p \in [1..n -> T \ {m}] : Sorts(p, T)
    BY <2>2, <2>0
  <2> DEFINE q == [i \in 1..(n + 1) |-> IF i = 1 THEN m ELSE p[i - 1]]
  <2>4. q \in [1..(n + 1) -> T]
    BY <2>0, <2>3
  <2>5. \A i \in 1..n : number[m] < number[p[i]]
    <3> SUFFICES ASSUME NEW i \in 1..n PROVE number[m] < number[p[i]]
      OBVIOUS
    <3>1. p[i] \in T /\ p[i] # m /\ p[i] \in S /\ m \in S
      BY <2>3
    <3>2. number[p[i]] # number[m] /\ ~(number[p[i]] < number[m]) /\ number[p[i]] \in Nat /\ number[m] \in Nat
      BY <3>1, <2>1
    <3> QED BY <3>2
  <2>6. Sorts(q, T)
    <3> SUFFICES ASSUME NEW i \in 1..(n + 1), NEW j \in 1..(n + 1), i < j
                 PROVE  number[q[i]] < number[q[j]]
      BY <2>4
    <3>1. j - 1 \in 1..n /\ q[j] = p[j - 1]
      BY <2>0
    <3>2. CASE i = 1
      BY <3>1, <3>2, <2>5
    <3>3. CASE i # 1
      <4>1. i - 1 \in 1..n /\ i - 1 < j - 1 /\ q[i] = p[i - 1]
        BY <3>3, <2>0
      <4> QED BY <3>1, <4>1, <2>3
    <3> QED BY <3>2, <3>3
  <2> HIDE DEF q
  <2> QED BY <2>4, <2>6
<1>3. Can = Nat
  <2> HIDE DEF Can
  <2>1. Can \in SUBSET Nat
    BY DEF Can
  <2> QED BY <1>1, <1>2, <2>1, Induction
<1>4. Cardinality(S) \in Can
  BY <1>3, FS_CardinalityType
<1> QED BY <1>4

\* Put in their order, all are there.
LEMMA AscendingIsAll ==
  ASSUME NEW S, IsFiniteSet(S), NEW number \in [S -> Nat], NEW q \in [1..Cardinality(S) -> S],
         \A i, j \in DOMAIN q : i < j => number[q[i]] < number[q[j]]
  PROVE  /\ \A i, j \in DOMAIN q : i # j => q[i] # q[j]
         /\ Range(q) = S
<1>0. Cardinality(S) \in Nat
  BY FS_CardinalityType
<1>1. ASSUME NEW i \in DOMAIN q, NEW j \in DOMAIN q, i # j PROVE q[i] # q[j]
  <2>1. i < j \/ j < i
    BY <1>0, <1>1
  <2>2. number[q[i]] \in Nat /\ number[q[j]] \in Nat /\ number[q[i]] # number[q[j]]
    BY <2>1
  <2> QED BY <2>2
<1>2. q \in Injection(1..Cardinality(S), S)
  BY <1>1 DEF Injection, IsInjective
<1>3. IsFiniteSet(1..Cardinality(S)) /\ Cardinality(1..Cardinality(S)) = Cardinality(S)
  BY <1>0, FS_Interval
<1>4. q \in Surjection(1..Cardinality(S), S)
  BY <1>2, <1>3, FS_Injection
<1>5. Range(q) = S
  BY <1>4 DEF Surjection, Range
<1> QED BY <1>1, <1>5

\* Sorted by their ids, rules of which there is one of each id are all there once.
LEMMA SortedRules ==
  ASSUME NEW ruleSet \in SUBSET PolicyRule, IsFiniteSet(ruleSet), OneOfEach(ruleSet)
  PROVE  /\ SortedById(ruleSet) \in Seq(PolicyRule)
         /\ Range(SortedById(ruleSet)) = ruleSet
         /\ LastById(SortedById(ruleSet)) = ruleSet
         /\ DuplicateRuleIds(SortedById(ruleSet)) = {}
<1> DEFINE number == [r \in ruleSet |-> r.id]
           q == SortedById(ruleSet)
           n == Cardinality(ruleSet)
<1>0. n \in Nat
  BY FS_CardinalityType
<1>1. number \in [ruleSet -> Nat]
  BY ReviewsAssumption DEF PolicyRule
<1>2. \A x, y \in ruleSet : number[x] = number[y] => x = y
  BY DEF OneOfEach
<1>3. \A x \in ruleSet : number[x] = x.id
  OBVIOUS
<1> HIDE DEF number
<1>4. \E p \in [1..n -> ruleSet] : \A i, j \in DOMAIN p : i < j => number[p[i]] < number[p[j]]
  BY <1>1, <1>2, InAscendingOrder
<1>5. \E p \in [1..n -> ruleSet] : \A i, j \in DOMAIN p : i < j => p[i].id < p[j].id
  BY <1>3, <1>4
<1>6. q \in [1..n -> ruleSet] /\ \A i, j \in DOMAIN q : i < j => q[i].id < q[j].id
  BY <1>5 DEF SortedById
<1> HIDE DEF q, n
<1>7. \A i, j \in DOMAIN q : i < j => number[q[i]] < number[q[j]]
  BY <1>3, <1>6
<1>8. /\ \A i, j \in DOMAIN q : i # j => q[i] # q[j]
      /\ Range(q) = ruleSet
  BY <1>1, <1>6, <1>7, AscendingIsAll DEF n
<1>9. q \in Seq(PolicyRule) /\ Len(q) = n /\ DOMAIN q = 1..n
  BY <1>0, <1>6
<1>10. \A i, j \in DOMAIN q : i # j => q[i].id # q[j].id
  BY <1>6, <1>8 DEF OneOfEach
<1>11. LastById(q) = ruleSet
  <2>1. LastById(q) = {q[i] : i \in DOMAIN q}
    <3>1. ASSUME NEW j \in DOMAIN q, NEW k \in (j+1)..Len(q) PROVE q[k].id # q[j].id
      BY <1>0, <1>9, <1>10
    <3> QED BY <3>1 DEF LastById
  <2> QED BY <2>1, <1>8 DEF Range
<1>12. DuplicateRuleIds(q) = {}
  <2>1. ASSUME NEW j \in DOMAIN q, NEW k \in 1..(j - 1) PROVE q[k].id # q[j].id
    BY <1>0, <1>9, <1>10
  <2> QED BY <2>1 DEF DuplicateRuleIds
<1> QED BY <1>8, <1>9, <1>11, <1>12 DEF q

LEMMA RuleIs ==
  ASSUME NEW ruleSet, OneOfEach(ruleSet), NEW r \in ruleSet
  PROVE  RuleById(ruleSet, r.id) = r
BY DEF OneOfEach, RuleById

LEMMA RuleOf ==
  ASSUME NEW ruleSet, NEW id \in IdsOf(ruleSet)
  PROVE  RuleById(ruleSet, id) \in ruleSet /\ RuleById(ruleSet, id).id = id
BY DEF IdsOf, RuleById

\* What a plan that is ok says of the rules that remain of both documents.
PlanSays(plan, current, candidate) ==
  LET before == LastById(current)
      after == LastById(candidate)
  IN  /\ current # <<>> /\ candidate # <<>> /\ DuplicateRuleIds(candidate) = {}
      /\ plan.next = SortedById(after)
      /\ plan.changes.add = {r \in after : r.id \notin IdsOf(before)}
      /\ plan.changes.remove = {r \in before : r.id \notin IdsOf(after)}
      /\ plan.changes.update = {r \in after : \E q \in before : q.id = r.id /\ q # r}
      /\ plan.changes.unchanged = {r.id : r \in before \cap after}
      /\ plan.changes = [add |-> plan.changes.add, remove |-> plan.changes.remove,
                         update |-> plan.changes.update, unchanged |-> plan.changes.unchanged]

LEMMA PlanIs ==
  ASSUME NEW current \in Seq(PolicyRule), NEW candidate \in Seq(PolicyRule), NEW dryRun,
         CreatePolicyDeploymentPlan(current, candidate, dryRun).ok
  PROVE  PlanSays(CreatePolicyDeploymentPlan(current, candidate, dryRun), current, candidate)
<1> DEFINE plan == CreatePolicyDeploymentPlan(current, candidate, dryRun)
           before == LastById(current)
           after == LastById(candidate)
           both == IdsOf(before) \cap IdsOf(after)
           same == {id \in both : RuleById(before, id) = RuleById(after, id)}
           update == {RuleById(after, id) : id \in both \ same}
<1>1. OneOfEach(before) /\ OneOfEach(after)
  BY LastOfEach
<1>2. /\ current # <<>> /\ candidate # <<>> /\ DuplicateRuleIds(candidate) = {}
      /\ plan.next = SortedById(after)
      /\ plan.changes = [add |-> {r \in after : r.id \notin IdsOf(before)},
                         remove |-> {r \in before : r.id \notin IdsOf(after)},
                         update |-> update, unchanged |-> same]
  BY DEF CreatePolicyDeploymentPlan, ValidatePolicyDocument
<1> HIDE DEF before, after, plan
<1>3. same = {r.id : r \in before \cap after}
  <2>1. ASSUME NEW r \in before \cap after PROVE r.id \in same
    BY <1>1, RuleIs DEF IdsOf
  <2>2. ASSUME NEW id \in same PROVE \E r \in before \cap after : r.id = id
    BY RuleOf
  <2> QED BY <2>1, <2>2
<1>4. update = {r \in after : \E q \in before : q.id = r.id /\ q # r}
  <2>1. ASSUME NEW r \in after, NEW q \in before, q.id = r.id, q # r PROVE r \in update
    <3>1. r.id \in both /\ RuleById(after, r.id) = r /\ RuleById(before, r.id) = q
      BY <1>1, <2>1, RuleIs DEF IdsOf
    <3> QED BY <3>1, <2>1
  <2>2. ASSUME NEW id \in both \ same
        PROVE  /\ RuleById(after, id) \in after
               /\ \E q \in before : q.id = RuleById(after, id).id /\ q # RuleById(after, id)
    BY RuleOf
  <2> QED BY <2>1, <2>2
<1> HIDE DEF same, update
<1> QED BY <1>2, <1>3, <1>4 DEF before, after, plan, PlanSays

LEMMA NothingButUnchanged ==
  ASSUME NEW ids
  PROVE  [EmptyChanges EXCEPT !.unchanged = ids] = [add |-> {}, remove |-> {}, update |-> {}, unchanged |-> ids]
<1> DEFINE e == [EmptyChanges EXCEPT !.unchanged = ids]
<1>1. e = [f \in DOMAIN EmptyChanges |-> IF f = "unchanged" THEN ids ELSE EmptyChanges[f]]
  BY DEF EmptyChanges
<1>2. DOMAIN EmptyChanges = {"add", "remove", "update", "unchanged"}
  BY DEF EmptyChanges
<1>3. e.add = {} /\ e.remove = {} /\ e.update = {} /\ e.unchanged = ids
  BY DEF EmptyChanges
<1> QED BY <1>1, <1>2, <1>3

LEMMA PlanHolds ==
  ASSUME asked.current \in Seq(PolicyRule), asked.candidate \in Seq(PolicyRule)
  PROVE  PlanExplainsDeployment
<1> DEFINE plan == CreatePolicyDeploymentPlan(asked.current, asked.candidate, asked.dryRun)
           c == plan.changes
           result == ApplyPolicyDeploymentPlan(plan)
           again == CreatePolicyDeploymentPlan(result.document, asked.candidate, asked.dryRun)
           before == LastById(asked.current)
           after == LastById(asked.candidate)
<1>1. ~result.applied => result.document = asked.current
  BY DEF ApplyPolicyDeploymentPlan, CreatePolicyDeploymentPlan
<1>2. ASSUME result.applied
      PROVE  /\ Range(result.document) =
                  {r \in before : r.id \notin IdsOf(c.remove \cup c.update)} \cup c.add \cup c.update
             /\ c.unchanged \cup IdsOf(c.add \cup c.update \cup c.remove)
                  = IdsOf(before) \cup IdsOf(Range(asked.candidate))
             /\ again.ok /\ again.changes = [EmptyChanges EXCEPT !.unchanged = IdsOf(Range(result.document))]
  <2>1. plan.ok /\ result.document = plan.next
    BY <1>2 DEF ApplyPolicyDeploymentPlan
  <2>2. /\ OneOfEach(before) /\ OneOfEach(after)
        /\ after \in SUBSET PolicyRule /\ IsFiniteSet(after)
        /\ IdsOf(after) = IdsOf(Range(asked.candidate))
    <3>1. Range(asked.candidate) \subseteq PolicyRule /\ after \subseteq Range(asked.candidate)
      BY LastOfEach
    <3> QED BY <3>1, LastOfEach
  <2>3. /\ asked.current # <<>> /\ asked.candidate # <<>> /\ DuplicateRuleIds(asked.candidate) = {}
        /\ plan.next = SortedById(after)
        /\ c.add = {r \in after : r.id \notin IdsOf(before)}
        /\ c.remove = {r \in before : r.id \notin IdsOf(after)}
        /\ c.update = {r \in after : \E q \in before : q.id = r.id /\ q # r}
        /\ c.unchanged = {r.id : r \in before \cap after}
    <3>1. PlanSays(plan, asked.current, asked.candidate)
      BY <2>1, PlanIs
    <3> HIDE DEF plan
    <3> QED BY <3>1 DEF PlanSays
  <2>4. /\ plan.next \in Seq(PolicyRule) /\ Range(plan.next) = after /\ LastById(plan.next) = after
    BY <2>2, <2>3, SortedRules
  <2> DEFINE doc == result.document
  <2>5. doc \in Seq(PolicyRule) /\ Range(doc) = after /\ LastById(doc) = after
    BY <2>1, <2>4
  <2>6. doc # <<>>
    <3>1. 1 \in DOMAIN asked.candidate
      BY <2>3
    <3>3. Range(asked.candidate) # {}
      BY <3>1 DEF Range
    <3>2. after # {}
      BY <2>2, <3>3 DEF IdsOf
    <3> QED BY <3>2, <2>5 DEF Range
  <2>7. again.ok
    BY <2>3, <2>6 DEF CreatePolicyDeploymentPlan, ValidatePolicyDocument
  <2>8. again.changes = [add |-> {}, remove |-> {}, update |-> {}, unchanged |-> IdsOf(after)]
    <3> HIDE DEF doc
    <3>1. /\ again.changes.add = {r \in after : r.id \notin IdsOf(after)}
          /\ again.changes.remove = {r \in after : r.id \notin IdsOf(after)}
          /\ again.changes.update = {r \in after : \E q \in after : q.id = r.id /\ q # r}
          /\ again.changes.unchanged = {r.id : r \in after \cap after}
          /\ again.changes = [add |-> again.changes.add, remove |-> again.changes.remove,
                              update |-> again.changes.update, unchanged |-> again.changes.unchanged]
      <4>1. PlanSays(again, doc, asked.candidate)
        BY <2>5, <2>7, PlanIs DEF doc
      <4> HIDE DEF again, after
      <4> QED BY <4>1, <2>5 DEF PlanSays, after
    <3> HIDE DEF again
    <3>2. again.changes.add = {} /\ again.changes.remove = {}
      BY <3>1 DEF IdsOf
    <3>3. again.changes.update = {}
      BY <3>1, <2>2 DEF OneOfEach
    <3>4. again.changes.unchanged = IdsOf(after)
      BY <3>1 DEF IdsOf
    <3> QED BY <3>1, <3>2, <3>3, <3>4
  <2> HIDE DEF doc, again, before, after, c, plan
  <2>9. Range(doc) = {r \in before : r.id \notin IdsOf(c.remove \cup c.update)} \cup c.add \cup c.update
    <3>1. ASSUME NEW r \in after
          PROVE  r \in {q \in before : q.id \notin IdsOf(c.remove \cup c.update)} \cup c.add \cup c.update
      <4>1. CASE \A q \in before : q.id # r.id
        BY <4>1, <2>3 DEF IdsOf
      <4>2. ASSUME NEW q \in before, q.id = r.id, q # r PROVE r \in c.update
        BY <4>2, <2>3
      <4>3. CASE r \in before
        <5>1. r.id \notin IdsOf(c.remove)
          BY <2>3 DEF IdsOf
        <5>2. r.id \notin IdsOf(c.update)
          BY <4>3, <2>2, <2>3 DEF IdsOf, OneOfEach
        <5> QED BY <4>3, <5>1, <5>2 DEF IdsOf
      <4> QED BY <4>1, <4>2, <4>3
    <3>2. ASSUME NEW r \in before, r.id \notin IdsOf(c.remove \cup c.update) PROVE r \in after
      <4>1. PICK q \in after : q.id = r.id
        BY <3>2, <2>3 DEF IdsOf
      <4>2. r = q
        BY <3>2, <4>1, <2>3 DEF IdsOf
      <4> QED BY <4>1, <4>2
    <3>3. c.add \subseteq after /\ c.update \subseteq after
      BY <2>3
    <3> QED BY <3>1, <3>2, <3>3, <2>5
  <2>10. c.unchanged \cup IdsOf(c.add \cup c.update \cup c.remove) = IdsOf(before) \cup IdsOf(Range(asked.candidate))
    <3>1. c.unchanged \cup IdsOf(c.add \cup c.update \cup c.remove) \subseteq IdsOf(before) \cup IdsOf(after)
      BY <2>3 DEF IdsOf
    <3>2. ASSUME NEW r \in after PROVE r.id \in c.unchanged \cup IdsOf(c.add \cup c.update \cup c.remove)
      BY <2>3 DEF IdsOf
    <3>3. ASSUME NEW r \in before PROVE r.id \in c.unchanged \cup IdsOf(c.add \cup c.update \cup c.remove)
      BY <2>3, <3>2 DEF IdsOf
    <3>4. IdsOf(before) \cup IdsOf(after) \subseteq c.unchanged \cup IdsOf(c.add \cup c.update \cup c.remove)
      BY <3>2, <3>3 DEF IdsOf
    <3> QED BY <3>1, <3>4, <2>2
  <2>11. [EmptyChanges EXCEPT !.unchanged = IdsOf(Range(doc))]
            = [add |-> {}, remove |-> {}, update |-> {}, unchanged |-> IdsOf(after)]
    BY <2>5, NothingButUnchanged
  <2> QED BY <2>7, <2>8, <2>9, <2>10, <2>11 DEF doc
<1> HIDE DEF plan, c, result, again, before, after
<1> QED BY <1>1, <1>2 DEF PlanExplainsDeployment, plan, c, result, again, before, after

\* byId[n] is what the first n documents leave, of which the last that has an
\* id has its rule.
RulesAfter(documents, byId) ==
  byId = [n \in 0..Len(documents) |-> IF n = 0 THEN {} ELSE SetRules(byId[n - 1], documents[n])]

LeftBy(documents, n, ruleSet) ==
  /\ ruleSet \subseteq PolicyRule /\ IsFiniteSet(ruleSet) /\ OneOfEach(ruleSet)
  /\ \A k \in 1..n : \A r \in LastById(documents[k]) :
       (\A m \in (k + 1)..n : r.id \notin IdsOf(Range(documents[m]))) => r \in ruleSet

LEMMA SetRulesLeaves ==
  ASSUME NEW documents \in Seq(Seq(PolicyRule)), NEW n \in Nat, n + 1 \in DOMAIN documents,
         NEW ruleSet, LeftBy(documents, n, ruleSet)
  PROVE  LeftBy(documents, n + 1, SetRules(ruleSet, documents[n + 1]))
<1> DEFINE doc == documents[n + 1]
           new == SetRules(ruleSet, doc)
<1>1. doc \in Seq(PolicyRule)
  OBVIOUS
<1>2. /\ LastById(doc) \subseteq Range(doc) /\ Range(doc) \subseteq PolicyRule
      /\ IsFiniteSet(LastById(doc)) /\ OneOfEach(LastById(doc))
      /\ IdsOf(LastById(doc)) = IdsOf(Range(doc))
  BY <1>1, LastOfEach
<1> HIDE DEF doc
<1>3. new \subseteq PolicyRule
  BY <1>2 DEF SetRules, LeftBy
<1>4. IsFiniteSet(new)
  <2> DEFINE kept == {r \in ruleSet : r.id \notin IdsOf(Range(doc))}
  <2>1. IsFiniteSet(kept)
    BY FS_Subset DEF LeftBy
  <2> HIDE DEF kept
  <2>2. IsFiniteSet(kept \cup LastById(doc))
    BY <2>1, <1>2, FS_Union
  <2> QED BY <2>2 DEF SetRules, kept
<1>5. OneOfEach(new)
  BY <1>2 DEF SetRules, OneOfEach, LeftBy, IdsOf
<1>6. ASSUME NEW k \in 1..(n + 1), NEW r \in LastById(documents[k]),
             \A m \in (k + 1)..(n + 1) : r.id \notin IdsOf(Range(documents[m]))
      PROVE  r \in new
  <2>1. CASE k = n + 1
    BY <2>1 DEF SetRules, doc
  <2>2. CASE k # n + 1
    <3>1. k \in 1..n /\ n + 1 \in (k + 1)..(n + 1) /\ \A m \in (k + 1)..n : m \in (k + 1)..(n + 1)
      BY <2>2
    <3>2. r \in ruleSet
      BY <1>6, <3>1 DEF LeftBy
    <3>3. r.id \notin IdsOf(Range(doc))
      BY <1>6, <3>1 DEF doc
    <3> QED BY <3>2, <3>3 DEF SetRules
  <2> QED BY <2>1, <2>2
<1> HIDE DEF new
<1>7. LeftBy(documents, n + 1, new)
  BY <1>3, <1>4, <1>5, <1>6 DEF LeftBy
<1> QED BY <1>7 DEF new, doc

LEMMA MergedIs ==
  ASSUME NEW documents \in Seq(Seq(PolicyRule))
  PROVE  \E ruleSet : /\ MergePolicyDocuments(documents) = SortedById(ruleSet)
                      /\ LeftBy(documents, Len(documents), ruleSet)
<1> DEFINE N == Len(documents)
           V == SUBSET PolicyRule
           F == [x \in (1..N) \X V |-> SetRules(x[2], documents[x[1]])]
           byId == CHOOSE g : RulesAfter(documents, g)
<1>0. N \in Nat /\ {} \in V /\ DOMAIN documents = 1..N
  OBVIOUS
<1>1. F \in [(1..N) \X V -> V]
  <2> SUFFICES ASSUME NEW n \in 1..N, NEW ruleSet \in V PROVE SetRules(ruleSet, documents[n]) \in V
    OBVIOUS
  <2>1. documents[n] \in Seq(PolicyRule)
    OBVIOUS
  <2>2. LastById(documents[n]) \subseteq PolicyRule
    BY <2>1, LastOfEach
  <2> QED BY <2>2 DEF SetRules
<1>2. PICK g \in [0..N -> V] : Turns(g, N, {}, F)
  <2> HIDE DEF F, V, N
  <2> QED BY <1>0, <1>1, LoopTurns
<1>3. ASSUME NEW n \in 0..N
      PROVE  g[n] = IF n = 0 THEN {} ELSE SetRules(g[n - 1], documents[n])
  <2>1. g[n] = IF n = 0 THEN {} ELSE F[<<n, g[n - 1]>>]
    <3> HIDE DEF F, V
    <3> QED BY <1>2 DEF Turns
  <2>2. n # 0 => <<n, g[n - 1]>> \in (1..N) \X V
    <3>1. SUFFICES ASSUME n # 0 PROVE n \in 1..N /\ g[n - 1] \in V
      OBVIOUS
    <3> HIDE DEF V, N
    <3>2. n \in 1..N /\ n - 1 \in 0..N
      BY <1>0, <3>1
    <3> QED BY <3>2, <1>2
  <2> HIDE DEF V, N
  <2> QED BY <2>1, <2>2
<1>4. RulesAfter(documents, g)
  <2> HIDE DEF V
  <2> QED BY <1>2, <1>3 DEF RulesAfter
<1>5. RulesAfter(documents, byId)
  BY <1>4
<1>6. MergePolicyDocuments(documents) = SortedById(byId[N])
  BY DEF MergePolicyDocuments, RulesAfter
<1> HIDE DEF byId, F, V
<1>7. \A n \in 0..N : byId[n] = IF n = 0 THEN {} ELSE SetRules(byId[n - 1], documents[n])
  BY <1>5 DEF RulesAfter
<1> DEFINE T == {n \in Nat : n <= N => LeftBy(documents, n, byId[n])}
<1>8. 0 \in T
  <2>1. byId[0] = {}
    BY <1>0, <1>7
  <2>2. LeftBy(documents, 0, {})
    BY FS_EmptySet DEF LeftBy, OneOfEach
  <2> QED BY <2>1, <2>2
<1>9. ASSUME NEW n \in T PROVE n + 1 \in T
  <2>1. SUFFICES ASSUME n + 1 <= N PROVE LeftBy(documents, n + 1, byId[n + 1])
    OBVIOUS
  <2>2. n \in Nat /\ LeftBy(documents, n, byId[n]) /\ n + 1 \in 0..N /\ n + 1 # 0 /\ (n + 1) - 1 = n
        /\ n + 1 \in DOMAIN documents
    BY <2>1, <1>0
  <2>3. byId[n + 1] = SetRules(byId[n], documents[n + 1])
    BY <2>2, <1>7
  <2> QED BY <2>2, <2>3, SetRulesLeaves
<1>10. T = Nat
  <2> HIDE DEF T
  <2> QED BY <1>8, <1>9, Induction DEF T
<1>11. LeftBy(documents, N, byId[N])
  BY <1>0, <1>10
<1> QED BY <1>6, <1>11

\* The files that can be read, in path order.
LEMMA InPathOrderIs ==
  ASSUME NEW n \in Nat, NEW files \in SUBSET (1..n)
  PROVE  LET q == InPathOrder(files)
         IN  /\ q \in [1..Cardinality(files) -> files] /\ Cardinality(files) \in Nat
             /\ Range(q) = files
             /\ \A i, j \in DOMAIN q : i < j => q[i] < q[j]
<1> DEFINE q == InPathOrder(files)
           number == [f \in files |-> f]
<1>1. IsFiniteSet(files)
  <2>1. IsFiniteSet(1..n)
    BY FS_Interval
  <2> QED BY <2>1, FS_Subset
<1>2. Cardinality(files) \in Nat
  BY <1>1, FS_CardinalityType
<1>3. /\ number \in [files -> Nat] /\ \A f \in files : number[f] = f
      /\ \A f, g \in files : number[f] = number[g] => f = g
  <2>1. \A f \in files : f \in Nat
    OBVIOUS
  <2> QED BY <2>1
<1> HIDE DEF number
<1>4. \E p \in [1..Cardinality(files) -> files] : \A i, j \in DOMAIN p : i < j => number[p[i]] < number[p[j]]
  BY <1>1, <1>3, InAscendingOrder
<1>5. \E p \in [1..Cardinality(files) -> files] : \A i, j \in DOMAIN p : i < j => p[i] < p[j]
  <2>1. PICK p \in [1..Cardinality(files) -> files] :
          \A i, j \in DOMAIN p : i < j => number[p[i]] < number[p[j]]
    BY <1>4
  <2>2. \A i \in DOMAIN p : number[p[i]] = p[i]
    BY <1>3
  <2> QED BY <2>1, <2>2
<1>6. q \in [1..Cardinality(files) -> files] /\ \A i, j \in DOMAIN q : i < j => q[i] < q[j]
  BY <1>5 DEF InPathOrder
<1> HIDE DEF q
<1>7. \A i, j \in DOMAIN q : i < j => number[q[i]] < number[q[j]]
  BY <1>3, <1>6
<1>8. Range(q) = files
  BY <1>1, <1>3, <1>6, <1>7, AscendingIsAll
<1> QED BY <1>2, <1>6, <1>8 DEF q

LEMMA SequenceOf ==
  ASSUME NEW S, NEW n \in Nat, NEW q \in [1..n -> S]
  PROVE  q \in Seq(S) /\ Len(q) = n
OBVIOUS

LEMMA RepositoryHolds ==
  ASSUME asked.contents \in [1..Files -> Seq(PolicyRule)], UNION asked.paths = 1..Files,
         asked.deployed \in Seq(PolicyRule)
  PROVE  OnlyFailedFilesLoseRules
<1> DEFINE load == LoadPolicyDocumentsFromPaths(asked.paths, asked.contents)
           merged == MergePolicyDocuments(load.documents)
           plan == CreatePolicyDeploymentPlan(asked.deployed, merged, FALSE)
           ofFile(f) == LastById(asked.contents[f])
           holders(id) == {f \in (1..Files) \ load.failed : id \in IdsOf(ofFile(f))}
           valid == {f \in 1..Files : ValidatePolicyDocument(asked.contents[f])}
           good == InPathOrder(valid)
<1> USE ReviewsAssumption
<1>1. SUFFICES ASSUME plan.ok, NEW id \in RuleIds, holders(id) # {}
               PROVE  LET last == CHOOSE f \in holders(id) : \A g \in holders(id) : g <= f
                      IN  /\ id \notin IdsOf(plan.changes.remove)
                          /\ RuleById(ofFile(last), id) \in Range(plan.next)
  BY DEF OnlyFailedFilesLoseRules
<1> DEFINE last == CHOOSE f \in holders(id) : \A g \in holders(id) : g <= f
<1>2. /\ load.failed = (1..Files) \ valid
      /\ load.documents = [i \in DOMAIN good |-> asked.contents[good[i]]]
  BY DEF LoadPolicyDocumentsFromPaths, CollectPolicyFiles
<1>3. holders(id) \subseteq valid
  BY <1>2
<1>4. last \in holders(id) /\ \A g \in holders(id) : g <= last
  <2> DEFINE H == holders(id)
  <2>1. H \in SUBSET (1..Files) /\ H # {} /\ Files \in Nat
    BY <1>1
  <2> HIDE DEF H
  <2>2. \E f \in H : \A g \in H : g <= f
    BY <2>1, GreatestUpTo
  <2> QED BY <2>2 DEF H
<1>5. /\ good \in [1..Cardinality(valid) -> valid] /\ Cardinality(valid) \in Nat
      /\ Range(good) = valid /\ \A i, j \in DOMAIN good : i < j => good[i] < good[j]
  <2>1. valid \in SUBSET (1..Files) /\ Files \in Nat
    OBVIOUS
  <2> HIDE DEF valid
  <2> QED BY <2>1, InPathOrderIs
<1>6. \A g \in (1..Files) \ load.failed : g > last => id \notin IdsOf(Range(asked.contents[g]))
  <2> SUFFICES ASSUME NEW g \in (1..Files) \ load.failed, g > last, id \in IdsOf(Range(asked.contents[g]))
               PROVE  FALSE
    OBVIOUS
  <2>1. asked.contents[g] \in Seq(PolicyRule)
    OBVIOUS
  <2>2. g \in holders(id)
    BY <2>1, LastOfEach
  <2>3. g <= last /\ last \in 1..Files
    BY <2>2, <1>4
  <2> QED BY <2>3
<1>7. /\ RuleById(ofFile(last), id) \in ofFile(last) /\ RuleById(ofFile(last), id).id = id
  BY <1>4, RuleOf
<1>8. valid \subseteq (1..Files) \ load.failed /\ last \in valid
  BY <1>2, <1>3, <1>4
<1> DEFINE documents == load.documents
           rule == RuleById(ofFile(last), id)
<1> HIDE DEF load, valid, good, last
<1>9. documents \in Seq(Seq(PolicyRule)) /\ Len(documents) = Cardinality(valid) /\ DOMAIN documents = DOMAIN good
  <2>1. \A i \in DOMAIN good : asked.contents[good[i]] \in Seq(PolicyRule)
    BY <1>5, <1>8
  <2>2. documents \in [1..Cardinality(valid) -> Seq(PolicyRule)]
    BY <1>2, <1>5, <2>1
  <2> HIDE DEF documents
  <2>3. documents \in Seq(Seq(PolicyRule)) /\ Len(documents) = Cardinality(valid)
    BY <1>5, <2>2, SequenceOf
  <2>4. DOMAIN documents = 1..Cardinality(valid)
    BY <2>2
  <2> QED BY <1>5, <2>3, <2>4
<1>10. PICK ruleSet : merged = SortedById(ruleSet) /\ LeftBy(documents, Len(documents), ruleSet)
  BY <1>9, MergedIs
<1>11. rule \in ruleSet
  <2>1. PICK k \in DOMAIN good : good[k] = last
    BY <1>5, <1>8 DEF Range
  <2>2. k \in 1..Len(documents) /\ documents[k] = asked.contents[last]
    BY <1>2, <1>5, <1>9, <2>1
  <2>3. ASSUME NEW m \in (k + 1)..Len(documents) PROVE rule.id \notin IdsOf(Range(documents[m]))
    <3>1. m \in DOMAIN good /\ k < m
      BY <1>5, <1>9, <2>1
    <3>2. good[m] > last /\ good[m] \in (1..Files) \ load.failed /\ documents[m] = asked.contents[good[m]]
      <4>1. good[k] < good[m] /\ good[m] \in valid
        BY <1>5, <2>1, <3>1
      <4>2. good[m] \in 1..Files /\ last \in 1..Files
        BY <4>1, <1>8
      <4> QED BY <4>1, <4>2, <1>2, <1>8, <2>1, <3>1
    <3> QED BY <3>2, <1>6, <1>7
  <2>4. rule \in LastById(documents[k])
    BY <2>2, <1>7
  <2> HIDE DEF rule, documents
  <2> QED BY <2>2, <2>3, <2>4, <1>10 DEF LeftBy
<1>12. merged \in Seq(PolicyRule) /\ LastById(merged) = ruleSet
  BY <1>10, SortedRules DEF LeftBy
<1> HIDE DEF merged
<1>13. PlanSays(plan, asked.deployed, merged)
  BY <1>1, <1>12, PlanIs
<1> HIDE DEF plan, rule
<1>14. /\ plan.next = SortedById(ruleSet)
       /\ plan.changes.remove = {r \in LastById(asked.deployed) : r.id \notin IdsOf(ruleSet)}
  BY <1>12, <1>13 DEF PlanSays
<1>15. rule \in Range(plan.next)
  BY <1>10, <1>11, <1>14, SortedRules DEF LeftBy
<1>16. id \notin IdsOf(plan.changes.remove)
  BY <1>7, <1>11, <1>14 DEF IdsOf, rule
<1> QED BY <1>15, <1>16 DEF rule, last

-----------------------------------------------------------------------------
(* Anomalies.                                                              *)

LEMMA TimesMore ==
  ASSUME NEW a \in Int, NEW b \in Int, NEW c \in Nat, a <= b
  PROVE  c * a <= c * b /\ a * c <= b * c
<1>1. b - a \in Nat /\ c * (b - a) >= 0
  OBVIOUS
<1>2. c * (b - a) = c * b - c * a
  OBVIOUS
<1>3. c * a \in Int /\ c * b \in Int /\ a * c = c * a /\ b * c = c * b
  OBVIOUS
<1> QED BY <1>1, <1>2, <1>3

\* The places of a range in time, and how many.
LEMMA RangeIs ==
  ASSUME NEW entries \in Seq(Evaluations), NEW w \in Windows
  PROVE  LET now == Current(entries, w, ReportedAt)
             past == Baseline(entries, w, ReportedAt)
         IN  /\ now \subseteq DOMAIN entries /\ past \subseteq DOMAIN entries
             /\ now \cap past = {}
             /\ \A S \in SUBSET (DOMAIN entries) : IsFiniteSet(S) /\ Cardinality(S) \in Nat
             /\ \A S, T \in SUBSET (DOMAIN entries) : S \subseteq T => Cardinality(S) <= Cardinality(T)
<1>1. DOMAIN entries = 1..Len(entries) /\ Len(entries) \in Nat
  OBVIOUS
<1>2. \A i \in DOMAIN entries : entries[i].at \in Int
  <2>1. \A i \in DOMAIN entries : entries[i] \in Evaluations
    OBVIOUS
  <2> QED BY <2>1, ReviewsAssumption DEF Evaluations
<1>3. IsFiniteSet(DOMAIN entries)
  BY <1>1, FS_Interval
<1>4. ASSUME NEW S \in SUBSET (DOMAIN entries) PROVE IsFiniteSet(S) /\ Cardinality(S) \in Nat
  BY <1>3, FS_Subset, FS_CardinalityType
<1>5. ASSUME NEW S \in SUBSET (DOMAIN entries), NEW T \in SUBSET (DOMAIN entries), S \subseteq T
      PROVE  Cardinality(S) <= Cardinality(T)
  BY <1>4, <1>5, FS_Subset
<1>6. ReportedAt - w.duration \in Int
  BY ReviewsAssumption
<1>7. Current(entries, w, ReportedAt) \cap Baseline(entries, w, ReportedAt) = {}
  BY <1>2, <1>6 DEF Current, Baseline, InRange
<1>8. /\ Current(entries, w, ReportedAt) \subseteq DOMAIN entries
      /\ Baseline(entries, w, ReportedAt) \subseteq DOMAIN entries
  BY DEF Current, Baseline, InRange
<1> QED BY <1>4, <1>5, <1>7, <1>8

DeniedOf(entries, S) == {i \in S : entries[i].denied}

\* What makes a spike, of the numbers of evaluations and of denials among them.
Spike(nows, pasts, deniedNow, deniedPast) ==
  LET t == Thresholds.spike
  IN  /\ nows >= t.minCurrent /\ pasts >= t.minBaseline
      /\ t.rateOf * deniedNow >= t.rate * nows
      /\ deniedNow * pasts >= t.multiplier * deniedPast * nows
      /\ t.increaseOf * (deniedNow * pasts - deniedPast * nows) >= t.increase * nows * pasts

LEMMA SpikeStays ==
  ASSUME NEW n \in Nat, NEW p \in Nat, NEW d \in Nat, NEW e \in Nat, NEW dp \in Nat, d <= e,
         Spike(n, p, d, dp)
  PROVE  Spike(n, p, e, dp)
<1> DEFINE t == Thresholds.spike
<1>0. t.rateOf \in Nat /\ t.rate \in Nat /\ t.multiplier \in Nat /\ t.increase \in Nat /\ t.increaseOf \in Nat
  BY ThresholdsAssumption
<1> HIDE DEF t
<1>1. t.rateOf * d <= t.rateOf * e /\ d * p <= e * p
  BY <1>0, TimesMore
<1> DEFINE x == d * p - dp * n
           y == e * p - dp * n
<1>2. d * p \in Int /\ e * p \in Int /\ dp * n \in Int
  OBVIOUS
<1>3. x \in Int /\ y \in Int /\ x <= y
  <2> DEFINE u == d * p   v == e * p   z == dp * n
  <2>1. u \in Int /\ v \in Int /\ z \in Int /\ u <= v
    BY <1>1, <1>2
  <2> HIDE DEF u, v, z
  <2>2. u - z \in Int /\ v - z \in Int /\ u - z <= v - z
    BY <2>1
  <2> QED BY <2>2 DEF u, v, z
<1> HIDE DEF x, y
<1>4. t.increaseOf * x <= t.increaseOf * y /\ t.increaseOf * x \in Int /\ t.increaseOf * y \in Int
  BY <1>0, <1>3, TimesMore
<1>5. /\ n >= t.minCurrent /\ p >= t.minBaseline
      /\ t.rateOf * d >= t.rate * n
      /\ d * p >= t.multiplier * dp * n
      /\ t.increaseOf * x >= t.increase * n * p
  BY DEF Spike, t, x
<1>6. t.rateOf * e >= t.rate * n
  <2> DEFINE a == t.rateOf * d   b == t.rateOf * e   z == t.rate * n
  <2>1. a \in Int /\ b \in Int /\ z \in Int /\ a <= b /\ a >= z
    BY <1>0, <1>1, <1>5
  <2> HIDE DEF a, b, z
  <2>2. b >= z
    BY <2>1
  <2> QED BY <2>2 DEF b, z
<1>7. e * p >= t.multiplier * dp * n
  <2> DEFINE a == d * p   b == e * p   z == t.multiplier * dp * n
  <2>1. a \in Int /\ b \in Int /\ z \in Int /\ a <= b /\ a >= z
    BY <1>0, <1>1, <1>5
  <2> HIDE DEF a, b, z
  <2>2. b >= z
    BY <2>1
  <2> QED BY <2>2 DEF b, z
<1>8. t.increaseOf * y >= t.increase * n * p
  <2> DEFINE a == t.increaseOf * x   b == t.increaseOf * y   z == t.increase * n * p
  <2>1. a \in Int /\ b \in Int /\ z \in Int /\ a <= b /\ a >= z
    BY <1>0, <1>4, <1>5
  <2> HIDE DEF a, b, z
  <2>2. b >= z
    BY <2>1
  <2> QED BY <2>2 DEF b, z
<1> QED BY <1>5, <1>6, <1>7, <1>8 DEF Spike, t, y

LEMMA SpikeHolds ==
  ASSUME NEW entries \in Seq(Evaluations), NEW w \in Windows,
         NEW i \in Current(entries, w, ReportedAt), DenyRateSpike(entries, w, ReportedAt)
  PROVE  DenyRateSpike([entries EXCEPT ![i].denied = TRUE], w, ReportedAt)
<1> DEFINE more == [entries EXCEPT ![i].denied = TRUE]
           now == Current(entries, w, ReportedAt)
           past == Baseline(entries, w, ReportedAt)
<1>1. /\ now \subseteq DOMAIN entries /\ past \subseteq DOMAIN entries /\ now \cap past = {}
      /\ \A S \in SUBSET (DOMAIN entries) : IsFiniteSet(S) /\ Cardinality(S) \in Nat
      /\ \A S, T \in SUBSET (DOMAIN entries) : S \subseteq T => Cardinality(S) <= Cardinality(T)
  BY RangeIs
<1>2. /\ DOMAIN more = DOMAIN entries
      /\ \A j \in DOMAIN entries : /\ more[j].at = entries[j].at
                                   /\ more[j].denied = (entries[j].denied \/ j = i)
  <2>1. DOMAIN more = DOMAIN entries
    OBVIOUS
  <2>2. ASSUME NEW j \in DOMAIN entries
        PROVE  more[j].at = entries[j].at /\ more[j].denied = (entries[j].denied \/ j = i)
    <3>1. entries[j] \in Evaluations
      OBVIOUS
    <3>2. CASE j = i
      <4>1. more[j] = [entries[j] EXCEPT !.denied = TRUE]
        BY <3>2
      <4> QED BY <3>1, <3>2, <4>1 DEF Evaluations
    <3>3. CASE j # i
      <4>1. more[j] = entries[j]
        BY <3>3
      <4> QED BY <3>1, <3>3, <4>1 DEF Evaluations
    <3> QED BY <3>2, <3>3
  <2> QED BY <2>1, <2>2
<1> HIDE DEF more
<1>3. Current(more, w, ReportedAt) = now /\ Baseline(more, w, ReportedAt) = past
  BY <1>2 DEF Current, Baseline, InRange
<1>4. \A e : DenyRateSpike(e, w, ReportedAt) <=>
               Spike(Cardinality(Current(e, w, ReportedAt)), Cardinality(Baseline(e, w, ReportedAt)),
                     Cardinality(DeniedOf(e, Current(e, w, ReportedAt))),
                     Cardinality(DeniedOf(e, Baseline(e, w, ReportedAt))))
  BY DEF DenyRateSpike, Spike, DeniedOf, Count
<1>5. DeniedOf(entries, now) \subseteq DeniedOf(more, now) /\ DeniedOf(more, now) \subseteq DOMAIN entries
  BY <1>1, <1>2 DEF DeniedOf
<1>6. DeniedOf(more, past) = DeniedOf(entries, past) /\ DeniedOf(entries, past) \subseteq DOMAIN entries
  BY <1>1, <1>2 DEF DeniedOf
<1> HIDE DEF now, past
<1>7. /\ Cardinality(now) \in Nat /\ Cardinality(past) \in Nat
      /\ Cardinality(DeniedOf(entries, now)) \in Nat /\ Cardinality(DeniedOf(more, now)) \in Nat
      /\ Cardinality(DeniedOf(entries, past)) \in Nat
      /\ Cardinality(DeniedOf(entries, now)) <= Cardinality(DeniedOf(more, now))
  BY <1>1, <1>5, <1>6
<1>8. Spike(Cardinality(now), Cardinality(past), Cardinality(DeniedOf(entries, now)),
            Cardinality(DeniedOf(entries, past)))
  BY <1>4 DEF now, past
<1>9. Spike(Cardinality(now), Cardinality(past), Cardinality(DeniedOf(more, now)),
            Cardinality(DeniedOf(entries, past)))
  BY <1>7, <1>8, SpikeStays
<1>10. DenyRateSpike(more, w, ReportedAt)
  BY <1>3, <1>4, <1>6, <1>9
<1> QED BY <1>10 DEF more

OfKey(entries, S, k) == {i \in S : CountKey(entries[i]) = k}

\* What makes a burst, of the numbers of evaluations of a key.
Burst(now, past, w) ==
  LET t == Thresholds.burst
      scaled == past * w.duration
  IN  /\ now >= t.minEvents
      /\ now * w.baseline >= Larger(scaled * t.multiplier, scaled + t.increase * w.baseline)

LEMMA BurstStays ==
  ASSUME NEW w \in Windows, NEW m \in Nat, NEW n \in Nat, NEW p \in Nat, m <= n, Burst(m, p, w)
  PROVE  Burst(n, p, w)
<1> DEFINE t == Thresholds.burst
           scaled == p * w.duration
           least == Larger(scaled * t.multiplier, scaled + t.increase * w.baseline)
<1>0. /\ w.duration \in Nat /\ w.baseline \in Nat
      /\ t.minEvents \in Nat /\ t.multiplier \in Nat /\ t.increase \in Nat
  BY ReviewsAssumption, ThresholdsAssumption
<1> HIDE DEF t
<1>1. least \in Int
  <2>1. scaled \in Nat
    BY <1>0
  <2> HIDE DEF scaled
  <2> QED BY <1>0, <2>1 DEF Larger
<1>2. m * w.baseline <= n * w.baseline /\ m * w.baseline \in Int /\ n * w.baseline \in Int
  BY <1>0, TimesMore
<1>3. m >= t.minEvents /\ m * w.baseline >= least
  BY DEF Burst, t
<1> HIDE DEF least
<1>4. n >= t.minEvents /\ n * w.baseline >= least
  <2> DEFINE a == m * w.baseline   b == n * w.baseline
  <2>1. a \in Int /\ b \in Int /\ a <= b /\ a >= least
    BY <1>2, <1>3
  <2> HIDE DEF a, b
  <2>2. b >= least
    BY <1>1, <2>1
  <2>3. n >= t.minEvents
    BY <1>0, <1>3
  <2> QED BY <2>2, <2>3 DEF b
<1> QED BY <1>4 DEF Burst, t, least

\* One more evaluation like one of the window is in the window, and only there.
LEMMA OneMoreEntry ==
  ASSUME NEW entries \in Seq(Evaluations), NEW w \in Windows, NEW i \in Current(entries, w, ReportedAt)
  PROVE  LET more == Append(entries, entries[i])
         IN  /\ more \in Seq(Evaluations)
             /\ Current(entries, w, ReportedAt) \subseteq Current(more, w, ReportedAt)
             /\ Baseline(more, w, ReportedAt) = Baseline(entries, w, ReportedAt)
             /\ \A j \in DOMAIN entries : j \in DOMAIN more /\ more[j] = entries[j]
<1> DEFINE more == Append(entries, entries[i])
<1>1. i \in DOMAIN entries /\ entries[i] \in Evaluations /\ Len(entries) \in Nat
  BY DEF Current, InRange
<1>2. /\ more \in Seq(Evaluations) /\ DOMAIN more = 1..(Len(entries) + 1) /\ DOMAIN entries = 1..Len(entries)
      /\ \A j \in DOMAIN entries : more[j] = entries[j]
      /\ more[Len(entries) + 1] = entries[i]
  BY <1>1
<1> HIDE DEF more
<1>3. \A j \in DOMAIN entries : j \in DOMAIN more
  BY <1>1, <1>2
<1>4. \A j \in DOMAIN more : j \in DOMAIN entries \/ more[j] = entries[i]
  BY <1>1, <1>2
<1>5. Current(entries, w, ReportedAt) \subseteq Current(more, w, ReportedAt)
  BY <1>2, <1>3 DEF Current, InRange
<1>6. i \notin Baseline(entries, w, ReportedAt)
  BY RangeIs
<1>7. Baseline(more, w, ReportedAt) = Baseline(entries, w, ReportedAt)
  <2>1. ~(/\ entries[i].at >= ReportedAt - w.duration - w.baseline
          /\ entries[i].at < ReportedAt - w.duration)
    BY <1>1, <1>6 DEF Baseline, InRange
  <2>2. ASSUME NEW j \in Baseline(more, w, ReportedAt) PROVE j \in Baseline(entries, w, ReportedAt)
    <3>1. /\ j \in DOMAIN more /\ more[j].at >= ReportedAt - w.duration - w.baseline
          /\ more[j].at < ReportedAt - w.duration
      BY DEF Baseline, InRange
    <3>2. j \in DOMAIN entries
      BY <1>4, <2>1, <3>1
    <3> QED BY <1>2, <3>1, <3>2 DEF Baseline, InRange
  <2>3. Baseline(entries, w, ReportedAt) \subseteq Baseline(more, w, ReportedAt)
    BY <1>2, <1>3 DEF Baseline, InRange
  <2> QED BY <2>2, <2>3
<1> QED BY <1>2, <1>3, <1>5, <1>7 DEF more

LEMMA BurstsAre ==
  ASSUME NEW entries, NEW w
  PROVE  Bursts(entries, w, ReportedAt) =
           {k \in {CountKey(entries[i]) : i \in Current(entries, w, ReportedAt)} :
              Burst(Cardinality(OfKey(entries, Current(entries, w, ReportedAt), k)),
                    Cardinality(OfKey(entries, Baseline(entries, w, ReportedAt), k)), w)}
BY DEF Bursts, Burst, OfKey, Count

LEMMA BurstsHold ==
  ASSUME NEW entries \in Seq(Evaluations), NEW w \in Windows, NEW i \in Current(entries, w, ReportedAt)
  PROVE  Bursts(entries, w, ReportedAt) \subseteq Bursts(Append(entries, entries[i]), w, ReportedAt)
<1> DEFINE more == Append(entries, entries[i])
           now == Current(entries, w, ReportedAt)
           past == Baseline(entries, w, ReportedAt)
           later == Current(more, w, ReportedAt)
<1>1. /\ more \in Seq(Evaluations) /\ now \subseteq later /\ Baseline(more, w, ReportedAt) = past
      /\ \A j \in DOMAIN entries : j \in DOMAIN more /\ more[j] = entries[j]
  BY OneMoreEntry
<1>2. /\ now \subseteq DOMAIN entries /\ past \subseteq DOMAIN entries
      /\ \A S \in SUBSET (DOMAIN entries) : IsFiniteSet(S) /\ Cardinality(S) \in Nat
  BY RangeIs
<1> HIDE DEF more
<1>3. /\ later \subseteq DOMAIN more
      /\ \A S \in SUBSET (DOMAIN more) : IsFiniteSet(S) /\ Cardinality(S) \in Nat
      /\ \A S, T \in SUBSET (DOMAIN more) : S \subseteq T => Cardinality(S) <= Cardinality(T)
  BY <1>1, RangeIs
<1> HIDE DEF now, past, later
<1>4. ASSUME NEW k \in Bursts(entries, w, ReportedAt) PROVE k \in Bursts(more, w, ReportedAt)
  <2>1. /\ k \in {CountKey(entries[j]) : j \in now}
        /\ Burst(Cardinality(OfKey(entries, now, k)), Cardinality(OfKey(entries, past, k)), w)
    BY BurstsAre DEF now, past
  <2>2. k \in {CountKey(more[j]) : j \in later}
    BY <1>1, <1>2, <2>1
  <2>3. OfKey(more, past, k) = OfKey(entries, past, k) /\ OfKey(entries, past, k) \subseteq DOMAIN entries
    BY <1>1, <1>2 DEF OfKey
  <2>4. OfKey(entries, now, k) \subseteq OfKey(more, later, k) /\ OfKey(more, later, k) \subseteq DOMAIN more
    BY <1>1, <1>2, <1>3 DEF OfKey
  <2>5. /\ Cardinality(OfKey(entries, now, k)) \in Nat /\ Cardinality(OfKey(more, later, k)) \in Nat
        /\ Cardinality(OfKey(entries, now, k)) <= Cardinality(OfKey(more, later, k))
        /\ Cardinality(OfKey(entries, past, k)) \in Nat
    <3>1. OfKey(entries, now, k) \in SUBSET (DOMAIN more) /\ OfKey(more, later, k) \in SUBSET (DOMAIN more)
      BY <2>4
    <3> QED BY <1>2, <1>3, <2>3, <2>4, <3>1
  <2>6. Burst(Cardinality(OfKey(more, later, k)), Cardinality(OfKey(more, past, k)), w)
    BY <2>1, <2>3, <2>5, BurstStays
  <2> QED BY <1>1, <2>2, <2>6, BurstsAre DEF later
<1> QED BY <1>4 DEF more

\* Two sequences of one element each make a pair.
LEMMA PairOfOnes ==
  ASSUME NEW S, NEW a \in Seq(S), NEW b \in Seq(S), Len(a) = 1, Len(b) = 1
  PROVE  a \o b = <<a[1], b[1]>>
<1>1. /\ a \o b \in Seq(S) /\ Len(a \o b) = Len(a) + Len(b)
      /\ \A i \in 1..(Len(a) + Len(b)) :
           (a \o b)[i] = IF i <= Len(a) THEN a[i] ELSE b[i - Len(a)]
  BY ConcatProperties
<1> DEFINE c == a \o b
           d == <<a[1], b[1]>>
<1>2. d \in Seq(S) /\ Len(d) = 2 /\ d[1] = a[1] /\ d[2] = b[1]
  <2>1. a[1] \in S /\ b[1] \in S
    BY ElementOfSeq
  <2> QED BY <2>1
<1> HIDE DEF c, d
<1>3. /\ c \in Seq(S) /\ Len(c) = 2
      /\ \A i \in 1..2 : c[i] = IF i <= 1 THEN a[i] ELSE b[i - 1]
  BY <1>1 DEF c
<1>4. \A i \in 1..2 : c[i] = d[i]
  <2>1. c[1] = d[1]
    BY <1>2, <1>3
  <2>2. c[2] = d[2]
    BY <1>2, <1>3
  <2>3. \A i \in 1..2 : i = 1 \/ i = 2
    OBVIOUS
  <2> QED BY <2>1, <2>2, <2>3
<1>5. Len(c) = Len(d)
  BY <1>2, <1>3
<1>6. \A i \in 1..Len(c) : c[i] = d[i]
  BY <1>3, <1>4
<1>7. c = d
  BY <1>2, <1>3, <1>5, <1>6, SeqEqual
<1> QED BY <1>7 DEF c, d

\* A name without the separator is one part of the key.
LEMMA KeysApart ==
  ASSUME NEW entries \in Seq(Evaluations),
         \A i \in DOMAIN entries : Len(entries[i].actor) = 1 /\ Len(entries[i].tool) = 1,
         NEW w \in Windows, NEW pair \in ReportedBursts(entries, w, ReportedAt)
  PROVE  Thresholds.burst.minEvents <=
           Count({i \in Current(entries, w, ReportedAt) : /\ entries[i].actor = <<pair[1]>>
                                                          /\ entries[i].tool = <<pair[2]>>})
<1> DEFINE now == Current(entries, w, ReportedAt)
<1>1. PICK k \in Bursts(entries, w, ReportedAt) : pair = <<k[1], k[2]>>
  BY DEF ReportedBursts
<1>2. /\ k \in {CountKey(entries[i]) : i \in now}
      /\ Cardinality(OfKey(entries, now, k)) >= Thresholds.burst.minEvents
  BY BurstsAre DEF Burst
<1>3. now \subseteq DOMAIN entries /\ \A S \in SUBSET (DOMAIN entries) : Cardinality(S) \in Nat
  BY RangeIs
<1>4. ASSUME NEW i \in DOMAIN entries
      PROVE  /\ entries[i].actor = <<entries[i].actor[1]>> /\ entries[i].tool = <<entries[i].tool[1]>>
             /\ CountKey(entries[i]) = <<entries[i].actor[1], entries[i].tool[1]>>
  <2>1. entries[i] \in Evaluations
    OBVIOUS
  <2>2. entries[i].actor \in Seq(STRING) /\ entries[i].tool \in Seq(STRING)
    BY <2>1, ReviewsAssumption DEF Evaluations
  <2>3. Len(entries[i].actor) = 1 /\ Len(entries[i].tool) = 1
    OBVIOUS
  <2> DEFINE a == entries[i].actor
             b == entries[i].tool
  <2> HIDE DEF a, b
  <2>4. a \in Seq(STRING) /\ b \in Seq(STRING) /\ Len(a) = 1 /\ Len(b) = 1
    BY <2>2, <2>3 DEF a, b
  <2>5. a = <<a[1]>> /\ b = <<b[1]>>
    BY <2>4
  <2>6. a \o b = <<a[1], b[1]>>
    BY <2>4, PairOfOnes
  <2> QED BY <2>5, <2>6 DEF a, b, CountKey
<1> HIDE DEF now
<1>5. OfKey(entries, now, k) = {i \in now : entries[i].actor = <<pair[1]>> /\ entries[i].tool = <<pair[2]>>}
  <2>1. PICK j \in now : k = CountKey(entries[j])
    BY <1>2
  <2>2. k = <<entries[j].actor[1], entries[j].tool[1]>> /\ pair = k
    BY <1>1, <1>3, <1>4, <2>1
  <2>3. ASSUME NEW i \in now
        PROVE  CountKey(entries[i]) = k <=> (entries[i].actor = <<pair[1]>> /\ entries[i].tool = <<pair[2]>>)
    <3>1. /\ entries[i].actor = <<entries[i].actor[1]>> /\ entries[i].tool = <<entries[i].tool[1]>>
          /\ CountKey(entries[i]) = <<entries[i].actor[1], entries[i].tool[1]>>
      BY <1>3, <1>4
    <3> QED BY <2>2, <3>1
  <2> QED BY <2>3 DEF OfKey
<1>6. Cardinality(OfKey(entries, now, k)) \in Nat /\ Thresholds.burst.minEvents \in Nat
  BY <1>3, ThresholdsAssumption DEF OfKey
<1> QED BY <1>2, <1>5, <1>6 DEF Count, now

LEMMA DeviationRises ==
  ASSUME NEW entries \in Seq(Evaluations), NEW w \in Windows, BaselineDeviation(entries, w, ReportedAt),
         Thresholds.deviation.ratio >= 1, Thresholds.deviation.minCurrent >= 1
  PROVE  Count(Current(entries, w, ReportedAt)) * w.baseline
           > Count(Baseline(entries, w, ReportedAt)) * w.duration
<1> DEFINE count == Count(Current(entries, w, ReportedAt))
           scaled == Count(Baseline(entries, w, ReportedAt)) * w.duration
           rise == count * w.baseline
           delta == rise - scaled
           size == IF delta < 0 THEN -delta ELSE delta
           t == Thresholds.deviation
           large == Larger(scaled, w.baseline)
<1>1. /\ w.baseline \in Nat /\ w.baseline >= 1 /\ w.duration \in Nat
      /\ t.ratio \in Nat /\ t.minCurrent \in Nat
  <2>1. w.baseline \in Nat \ {0} /\ w.duration \in Nat
    BY ReviewsAssumption
  <2>2. t.ratio \in Nat /\ t.minCurrent \in Nat
    BY ThresholdsAssumption
  <2> HIDE DEF t
  <2> QED BY <2>1, <2>2
<1>2. count \in Nat /\ Count(Baseline(entries, w, ReportedAt)) \in Nat
  BY RangeIs DEF Count
<1>3. /\ count >= t.minCurrent /\ size >= t.ratio * large
  BY DEF BaselineDeviation
<1> HIDE DEF count
<1>4. rise \in Nat /\ scaled \in Nat
  BY <1>1, <1>2
<1>5. rise >= 1
  <2>1. 1 <= count
    BY <1>1, <1>2, <1>3
  <2>2. \A c \in Nat : 1 * c <= count * c
    BY <1>2, <2>1, TimesMore
  <2>3. 1 * w.baseline <= count * w.baseline
    BY <1>1, <2>2
  <2> QED BY <1>1, <1>4, <2>3
<1> HIDE DEF rise, scaled
<1>6. large \in Nat /\ large >= 1 /\ large >= scaled
  BY <1>1, <1>4 DEF Larger
<1> HIDE DEF large
<1>7. large <= t.ratio * large /\ t.ratio * large \in Int
  <2>1. 1 * large <= t.ratio * large
    BY <1>1, <1>6, TimesMore
  <2> QED BY <1>1, <1>6, <2>1
<1>8. size >= large
  BY <1>1, <1>3, <1>4, <1>6, <1>7
<1>9. rise > scaled
  BY <1>4, <1>5, <1>6, <1>8
<1> QED BY <1>9 DEF rise, scaled, count

LEMMA AnomaliesHold ==
  ASSUME asked.entries \in Seq(Evaluations), asked.window \in Windows
  PROVE  AnomaliesSound
BY SpikeHolds, BurstsHold, KeysApart, DeviationRises, RangeIs DEF AnomaliesSound

ReviewsAsked ==
  \/ asked = NoQuestion
  \/ asked \in PlanQuestions \/ asked \in RepositoryQuestions \/ asked \in AnomalyQuestions

LEMMA ReviewsHold == ReviewsAsked => PolicyReviewsSound
<1>0. Documents \subseteq Seq(PolicyRule)
  BY ReviewsAssumption DEF Documents
<1>1. ASSUME asked = NoQuestion PROVE PolicyReviewsSound
  BY <1>1 DEF NoQuestion, PolicyReviewsSound, AskedAbout
<1>2. ASSUME asked \in PlanQuestions PROVE PolicyReviewsSound
  <2>1. asked.about = "plan" /\ asked.current \in Documents /\ asked.candidate \in Documents
    BY <1>2 DEF PlanQuestions
  <2>2. PlanExplainsDeployment
    BY <1>0, <2>1, PlanHolds
  <2> QED BY <2>1, <2>2 DEF PolicyReviewsSound, AskedAbout
<1>3. ASSUME asked \in RepositoryQuestions PROVE PolicyReviewsSound
  <2>1. /\ asked.about = "repository" /\ asked.contents \in [1..Files -> Documents]
        /\ UNION asked.paths = 1..Files /\ asked.deployed \in Documents
    BY <1>3 DEF RepositoryQuestions
  <2>2. asked.contents \in [1..Files -> Seq(PolicyRule)] /\ asked.deployed \in Seq(PolicyRule)
    BY <1>0, <2>1
  <2>3. OnlyFailedFilesLoseRules
    BY <2>1, <2>2, RepositoryHolds
  <2> QED BY <2>1, <2>3 DEF PolicyReviewsSound, AskedAbout
<1>4. ASSUME asked \in AnomalyQuestions PROVE PolicyReviewsSound
  <2>1. asked.about = "anomaly" /\ asked.entries \in SeqOf(Evaluations, Entries) /\ asked.window \in Windows
    BY <1>4 DEF AnomalyQuestions
  <2>2. asked.entries \in Seq(Evaluations)
    BY <2>1, ReviewsAssumption DEF SeqOf
  <2>3. AnomaliesSound
    BY <2>1, <2>2, AnomaliesHold
  <2> QED BY <2>1, <2>3 DEF PolicyReviewsSound, AskedAbout
<1> QED BY <1>1, <1>2, <1>3, <1>4 DEF ReviewsAsked

\* However many rules and files there are, a plan says what it deploys and
\* deploys what it says, no file that can be read loses a rule, and whatever
\* was evaluated and whatever the thresholds, reports of anomalies are about
\* what happened.
THEOREM ReviewsReach == QuestionInit /\ [][ReviewsNext]_asked => []PolicyReviewsSound
<1>1. QuestionInit => ReviewsAsked
  BY DEF QuestionInit, ReviewsAsked
<1>2. ReviewsAsked /\ [ReviewsNext]_asked => ReviewsAsked'
  BY DEF ReviewsAsked, ReviewsNext, Ask
<1> QED BY <1>1, <1>2, ReviewsHold, PTL

-----------------------------------------------------------------------------
(* The credential store *)

LEMMA ProviderType ==
  ASSUME NEW s \in Sessions \cup Sweepers
  PROVE  Provider[s] \in Versions
  BY CredentialAssumption

LEMMA EncryptedType ==
  ASSUME NEW s \in Sessions \cup Sweepers, NEW v \in Values
  PROVE  /\ Encrypted(s, v) \in Ciphertext
         /\ Encrypted(s, v).key = Provider[s]
  BY ProviderType DEF Encrypted, Ciphertext

LEMMA CallType ==
  ASSUME NEW k \in Call
  PROVE  /\ k.op \in Action
         /\ k.cred \in Creds
         /\ k.seen \in Row
         /\ k.stage \in Stage
         /\ k.arg \in Argument(k.op)
         /\ k.stage = "update" => k.op \notin {"read", "delete"}
         /\ k # Idle
  BY CredentialAssumption DEF Call

\* A method's UPDATE leaves a row, whose label is the key of what it holds.
LEMMA UpdatedRow ==
  ASSUME NEW s \in Sessions, call[s] \in Call, call[s].stage = "update",
         NEW r \in Row
  PROVE  /\ Updated(s, r) \in Row
         /\ r.encrypted.key = r.version =>
              Updated(s, r).encrypted.key = Updated(s, r).version
<1>1. /\ call[s].op \in Action
      /\ call[s].arg \in Argument(call[s].op)
      /\ call[s].op \notin {"read", "delete"}
  BY CallType
<1>2. CASE call[s].op \in {"write", "rotate"}
  <2>1. call[s].arg \in Values
    BY <1>1, <1>2 DEF Argument
  <2>2. /\ Encrypted(s, call[s].arg) \in Ciphertext
        /\ Encrypted(s, call[s].arg).key = Provider[s]
        /\ Provider[s] \in Versions
    BY <2>1, EncryptedType, ProviderType
  <2> QED BY <1>2, <2>2 DEF Updated, Row, Status
<1>3. CASE call[s].op = "policy-update"
  <2>1. call[s].arg \in Policies
    BY <1>1, <1>3 DEF Argument
  <2> QED BY <1>3, <2>1 DEF Updated, Row
<1>4. CASE call[s].op = "revoke"
  BY <1>4 DEF Updated, Row, Status
<1> QED BY <1>1, <1>2, <1>3, <1>4 DEF Action

-----------------------------------------------------------------------------
(* Type correctness.                                                       *)

\* Moving a call to a stage after its update keeps it a call.
LEMMA AdvanceType ==
  ASSUME NEW k \in Call, NEW stage \in {"log", "return"}
  PROVE  [k EXCEPT !.stage = stage] \in Call
  BY DEF Call, Stage

LEMMA SelectType ==
  ASSUME TypeOK, NEW s \in Sessions, Select(s)
  PROVE  TypeOK'
<1>1. PICK op \in Action \ {"delete"}, c \in Creds, who \in Accessors :
        \E arg \in Argument(op) :
          /\ begun' = begun + 1
          /\ IF Exists(c) /\ Allowed(row[c], op, who)
             THEN call' = [call EXCEPT ![s] =
                    [op |-> op, cred |-> c, seen |-> row[c],
                     stage |-> IF op = "read" THEN "log" ELSE "update",
                     arg |-> arg]]
             ELSE UNCHANGED call
          /\ UNCHANGED <<row, sweep, log, resolved>>
  BY DEF Select
<1>2. PICK arg \in Argument(op) :
          /\ begun' = begun + 1
          /\ IF Exists(c) /\ Allowed(row[c], op, who)
             THEN call' = [call EXCEPT ![s] =
                    [op |-> op, cred |-> c, seen |-> row[c],
                     stage |-> IF op = "read" THEN "log" ELSE "update",
                     arg |-> arg]]
             ELSE UNCHANGED call
          /\ UNCHANGED <<row, sweep, log, resolved>>
  BY <1>1
<1> DEFINE k == [op |-> op, cred |-> c, seen |-> row[c],
                 stage |-> IF op = "read" THEN "log" ELSE "update",
                 arg |-> arg]
<1>3. arg \in Values \cup Policies \cup {None}
  BY <1>2 DEF Argument
<1>4. Exists(c) => k \in Call
  BY <1>2, <1>3 DEF Exists, Call, Stage
<1>5. call' \in [Sessions -> Call \cup {Idle}]
  BY <1>2, <1>4 DEF TypeOK
<1> QED BY <1>2, <1>5 DEF TypeOK

LEMMA StoreType ==
  ASSUME TypeOK, NEW s \in Sessions, Store(s)
  PROVE  TypeOK'
<1>1. PICK c \in Creds, status \in Status, policy \in Policies, v \in Values :
        row' = [row EXCEPT ![c] =
                  [status |-> status, policy |-> policy,
                   encrypted |-> Encrypted(s, v), version |-> Provider[s]]]
  BY DEF Store
<1>2. Encrypted(s, v) \in Ciphertext /\ Provider[s] \in Versions
  BY EncryptedType, ProviderType
<1>3. row' \in [Creds -> Row \cup {Absent, Deleted}]
  BY <1>1, <1>2 DEF TypeOK, Row
<1> QED BY <1>3 DEF TypeOK, Store

LEMMA DeleteType ==
  ASSUME TypeOK, NEW s \in Sessions, Delete(s)
  PROVE  TypeOK'
<1>1. PICK c \in Creds :
        /\ Exists(c)
        /\ row' = [row EXCEPT ![c] = Deleted]
        /\ call' = [call EXCEPT ![s] =
                      [op |-> "delete", cred |-> c, seen |-> row[c],
                       stage |-> "log", arg |-> None]]
  BY DEF Delete
<1>2. [op |-> "delete", cred |-> c, seen |-> row[c],
       stage |-> "log", arg |-> None] \in Call
  BY <1>1 DEF Exists, Call, Action, Stage, Argument
<1>3. call' \in [Sessions -> Call \cup {Idle}]
  BY <1>1, <1>2 DEF TypeOK
<1> QED BY <1>1, <1>3 DEF TypeOK, Delete

LEMMA UpdateType ==
  ASSUME TypeOK, NEW s \in Sessions, Update(s)
  PROVE  TypeOK'
<1>1. call[s] \in Call /\ call[s].stage = "update"
  BY DEF TypeOK, Update
<1>2. call[s].cred \in Creds
  BY <1>1, CallType
<1>3. ASSUME Exists(call[s].cred)
      PROVE  Updated(s, row[call[s].cred]) \in Row
  BY <1>1, <1>3, UpdatedRow DEF Exists
<1>4. row' \in [Creds -> Row \cup {Absent, Deleted}]
  BY <1>2, <1>3 DEF TypeOK, Update
<1>5. [call[s] EXCEPT !.stage = "log"] \in Call
  BY <1>1, AdvanceType
<1>6. call' \in [Sessions -> Call \cup {Idle}]
  BY <1>5 DEF TypeOK, Update
<1> QED BY <1>4, <1>6 DEF TypeOK, Update

LEMMA LogReturnType ==
  ASSUME TypeOK, NEW s \in Sessions, LogAccess(s) \/ Return(s) \/ Reject(s)
  PROVE  TypeOK'
<1>1. /\ call[s] \in Call
      /\ call[s].cred \in Creds
      /\ call[s].op \in Action
      /\ [call[s] EXCEPT !.stage = "return"] \in Call
  BY CallType, AdvanceType DEF TypeOK, LogAccess, Return, Reject
<1>2. CASE LogAccess(s)
  <2>1. call' \in [Sessions -> Call \cup {Idle}]
    BY <1>1, <1>2 DEF TypeOK, LogAccess
  <2>2. log' \in [Creds -> [Action -> Nat]]
    BY <1>1, <1>2 DEF TypeOK, LogAccess
  <2> QED BY <1>2, <2>1, <2>2 DEF TypeOK, LogAccess
<1>3. CASE Return(s)
  <2>1. resolved' \in [Creds -> [Action -> Nat]]
    BY <1>1, <1>3 DEF TypeOK, Return
  <2> QED BY <1>3, <2>1 DEF TypeOK, Return
<1>4. CASE Reject(s)
  BY <1>4 DEF TypeOK, Reject
<1> QED BY <1>2, <1>3, <1>4

LEMMA SweepType ==
  ASSUME TypeOK, NEW w \in Sweepers,
         \/ SweepSelect(w) \/ SweepLog(w) \/ SweepReject(w)
         \/ \E c \in Creds : SweepUpdate(w, c)
  PROVE  TypeOK'
<1>1. CASE SweepSelect(w)
  <2>1. sweep[w].at \in Creds \cup {None}
    BY DEF TypeOK
  <2>2. [c \in Creds |-> IF Exists(c) /\ NeedsReencryption(w, row[c])
                         THEN row[c] ELSE Absent]
          \in [Creds -> Row \cup {Absent}]
    BY DEF Exists
  <2>3. sweep' \in [Sweepers -> [rest: [Creds -> Row \cup {Absent}],
                                 at: Creds \cup {None}]]
    BY <1>1, <2>1, <2>2 DEF TypeOK, SweepSelect
  <2> QED BY <1>1, <2>3 DEF TypeOK, SweepSelect
<1>2. CASE SweepLog(w)
  <2>1. sweep[w].at \in Creds
    BY <1>2 DEF TypeOK, SweepLog
  <2>2. log' \in [Creds -> [Action -> Nat]]
    BY <1>2, <2>1 DEF TypeOK, SweepLog, Action
  <2>3. sweep' \in [Sweepers -> [rest: [Creds -> Row \cup {Absent}],
                                 at: Creds \cup {None}]]
    BY <1>2 DEF TypeOK, SweepLog
  <2> QED BY <1>2, <2>2, <2>3 DEF TypeOK, SweepLog
<1>3. CASE SweepReject(w)
  BY <1>3 DEF TypeOK, SweepReject, NoneLeft
<1>4. ASSUME NEW c \in Creds, SweepUpdate(w, c)
      PROVE  TypeOK'
  <2> DEFINE e == Encrypted(w, sweep[w].rest[c].encrypted.value)
  <2>1. sweep[w].rest[c] \in Row
    BY <1>4 DEF TypeOK, SweepUpdate
  <2>2. e \in Ciphertext /\ Provider[w] \in Versions
    BY <2>1, EncryptedType, ProviderType DEF Row, Ciphertext
  <2>3. row' = IF Exists(c)
               THEN [row EXCEPT ![c].encrypted = e, ![c].version = Provider[w]]
               ELSE row
    BY <1>4 DEF SweepUpdate
  <2>4. row' \in [Creds -> Row \cup {Absent, Deleted}]
    <3> HIDE DEF e
    <3>1. ASSUME Exists(c)
          PROVE  [row[c] EXCEPT !.encrypted = e, !.version = Provider[w]] \in Row
      BY <3>1, <2>2 DEF Exists, Row
    <3>2. CASE Exists(c)
      <4>1. row' = [row EXCEPT ![c] =
                      [row[c] EXCEPT !.encrypted = e, !.version = Provider[w]]]
        BY <2>3, <3>2 DEF TypeOK
      <4> QED BY <4>1, <3>1, <3>2 DEF TypeOK
    <3>3. CASE ~Exists(c)
      BY <2>3, <3>3 DEF TypeOK
    <3> QED BY <3>2, <3>3
  <2>5. sweep' \in [Sweepers -> [rest: [Creds -> Row \cup {Absent}],
                                 at: Creds \cup {None}]]
    <3>1. sweep[w].rest \in [Creds -> Row \cup {Absent}]
      BY DEF TypeOK
    <3>2. [sweep[w].rest EXCEPT ![c] = Absent] \in [Creds -> Row \cup {Absent}]
      BY <3>1
    <3>3. sweep' = [sweep EXCEPT ![w] =
                      [rest |-> [sweep[w].rest EXCEPT ![c] = Absent], at |-> c]]
      BY <1>4 DEF SweepUpdate, TypeOK
    <3> QED BY <3>2, <3>3 DEF TypeOK
  <2> QED BY <1>4, <2>4, <2>5 DEF TypeOK, SweepUpdate
<1> QED BY <1>1, <1>2, <1>3, <1>4

LEMMA TypeInductive == TypeOK /\ [Next]_vars => TypeOK'
<1> SUFFICES ASSUME TypeOK, [Next]_vars
             PROVE  TypeOK'
  OBVIOUS
<1>1. ASSUME NEW s \in Sessions,
             \/ Store(s) \/ Select(s) \/ Delete(s) \/ Update(s)
             \/ LogAccess(s) \/ Return(s) \/ Reject(s)
      PROVE  TypeOK'
  BY <1>1, StoreType, SelectType, DeleteType, UpdateType, LogReturnType
<1>2. ASSUME NEW w \in Sweepers,
             \/ SweepSelect(w) \/ SweepLog(w) \/ SweepReject(w)
             \/ \E c \in Creds : SweepUpdate(w, c)
      PROVE  TypeOK'
  BY <1>2, SweepType
<1>3. CASE UNCHANGED vars
  BY <1>3 DEF TypeOK, vars
<1> QED BY <1>1, <1>2, <1>3 DEF Next

LEMMA InitType == Init => TypeOK
<1> SUFFICES ASSUME Init PROVE TypeOK
  OBVIOUS
<1>1. sweep \in [Sweepers -> [rest: [Creds -> Row \cup {Absent}],
                              at: Creds \cup {None}]]
  BY DEF Init
<1> QED BY <1>1 DEF Init, TypeOK

\* Every row, call and sweep is one the methods can have made, for any number
\* of sessions and sweepers of any provider versions.
THEOREM TypeCorrect == Spec => []TypeOK
  BY InitType, TypeInductive, PTL DEF Spec
-----------------------------------------------------------------------------
(* The label of a ciphertext.                                              *)

LEMMA InitDecryptable == Init => Decryptable
  BY CredentialAssumption DEF Init, Decryptable, Exists

LEMMA CallsDecryptable ==
  ASSUME TypeOK, Decryptable, NEW s \in Sessions,
         \/ Store(s) \/ Select(s) \/ Delete(s) \/ Update(s)
         \/ LogAccess(s) \/ Return(s) \/ Reject(s)
  PROVE  Decryptable'
<1>1. CASE Store(s)
  <2>1. PICK c \in Creds, status \in Status, policy \in Policies, v \in Values :
          row' = [row EXCEPT ![c] =
                    [status |-> status, policy |-> policy,
                     encrypted |-> Encrypted(s, v), version |-> Provider[s]]]
    BY <1>1 DEF Store
  <2>2. Encrypted(s, v).key = Provider[s]
    BY EncryptedType
  <2> QED BY <1>1, <2>1, <2>2 DEF TypeOK, Decryptable, Exists, Store
<1>2. CASE Select(s)
  <2>1. PICK c \in Creds : /\ call'[s] # Idle /\ call'[s] # call[s]
                             => Exists(c) /\ call'[s].seen = row[c]
                           /\ \A r \in Sessions \ {s} : call'[r] = call[r]
    <3>1. PICK op \in Action \ {"delete"}, c \in Creds, who \in Accessors :
            \E arg \in Argument(op) :
              IF Exists(c) /\ Allowed(row[c], op, who)
              THEN call' = [call EXCEPT ![s] =
                     [op |-> op, cred |-> c, seen |-> row[c],
                      stage |-> IF op = "read" THEN "log" ELSE "update",
                      arg |-> arg]]
              ELSE UNCHANGED call
      BY <1>2 DEF Select
    <3> QED BY <3>1 DEF TypeOK
  <2> QED BY <1>2, <2>1 DEF TypeOK, Decryptable, Exists, Select
<1>3. CASE Delete(s)
  <2>1. PICK c \in Creds :
          /\ Exists(c)
          /\ row' = [row EXCEPT ![c] = Deleted]
          /\ call' = [call EXCEPT ![s] =
                        [op |-> "delete", cred |-> c, seen |-> row[c],
                         stage |-> "log", arg |-> None]]
    BY <1>3 DEF Delete
  <2> QED BY <1>3, <2>1, CredentialAssumption
          DEF TypeOK, Decryptable, Exists, Delete
<1>4. CASE Update(s)
  <2> DEFINE c == call[s].cred
  <2>1. call[s] \in Call /\ call[s].stage = "update" /\ c \in Creds
    BY <1>4, CallType DEF TypeOK, Update
  <2>2. ASSUME Exists(c)
        PROVE  Updated(s, row[c]).encrypted.key = Updated(s, row[c]).version
    BY <2>1, <2>2, UpdatedRow DEF Decryptable, Exists
  <2>3. ASSUME NEW d \in Creds, Exists(d)'
        PROVE  row'[d].encrypted.key = row'[d].version
    BY <1>4, <2>1, <2>2, <2>3 DEF TypeOK, Decryptable, Exists, Update
  <2>4. ASSUME NEW r \in Sessions, call'[r] # Idle
        PROVE  call'[r].seen.encrypted.key = call'[r].seen.version
    <3>1. call[r] # Idle /\ call'[r].seen = call[r].seen
      BY <1>4, <2>1, <2>4 DEF TypeOK, Update, Call
    <3> QED BY <3>1 DEF Decryptable
  <2> QED BY <1>4, <2>3, <2>4 DEF Decryptable, Update
<1>5. CASE LogAccess(s) \/ Return(s) \/ Reject(s)
  <2>1. ASSUME NEW r \in Sessions, call'[r] # Idle
        PROVE  call[r] # Idle /\ call'[r].seen = call[r].seen
    <3>1. CASE r = s /\ ~LogAccess(s)
      BY <1>5, <2>1, <3>1 DEF TypeOK, Return, Reject
    <3>2. CASE r = s /\ LogAccess(s)
      BY <3>2 DEF TypeOK, LogAccess, Call
    <3>3. CASE r # s
      <4>1. call \in [Sessions -> Call \cup {Idle}]
        BY DEF TypeOK
      <4>2. \E k : call' = [call EXCEPT ![s] = k]
        BY <1>5 DEF LogAccess, Return, Reject
      <4>3. call'[r] = call[r]
        BY <3>3, <4>1, <4>2
      <4> QED BY <2>1, <4>3
    <3> QED BY <3>1, <3>2, <3>3
  <2> QED BY <1>5, <2>1 DEF Decryptable, Exists, LogAccess, Return, Reject
<1> QED BY <1>1, <1>2, <1>3, <1>4, <1>5

LEMMA SweepsDecryptable ==
  ASSUME TypeOK, Decryptable, NEW w \in Sweepers,
         \/ SweepSelect(w) \/ SweepLog(w) \/ SweepReject(w)
         \/ \E c \in Creds : SweepUpdate(w, c)
  PROVE  Decryptable'
<1>1. CASE SweepSelect(w)
  <2>1. ASSUME NEW v \in Sweepers, NEW c \in Creds, sweep'[v].rest[c] # Absent
        PROVE  \/ sweep'[v].rest[c] = sweep[v].rest[c]
               \/ Exists(c) /\ sweep'[v].rest[c] = row[c]
    BY <1>1, <2>1 DEF TypeOK, SweepSelect
  <2> QED BY <1>1, <2>1 DEF Decryptable, Exists, SweepSelect
<1>2. CASE SweepLog(w)
  <2>1. \A v \in Sweepers : sweep'[v].rest = sweep[v].rest
    BY <1>2 DEF TypeOK, SweepLog
  <2> QED BY <1>2, <2>1 DEF Decryptable, Exists, SweepLog
<1>3. CASE SweepReject(w)
  <2>1. ASSUME NEW v \in Sweepers, NEW c \in Creds, sweep'[v].rest[c] # Absent
        PROVE  sweep'[v].rest[c] = sweep[v].rest[c]
    BY <1>3, <2>1 DEF TypeOK, SweepReject, NoneLeft
  <2> QED BY <1>3, <2>1 DEF Decryptable, Exists, SweepReject
<1>4. ASSUME NEW c \in Creds, SweepUpdate(w, c)
      PROVE  Decryptable'
  <2> DEFINE e == Encrypted(w, sweep[w].rest[c].encrypted.value)
  <2>1. sweep[w].rest[c] \in Row
    BY <1>4 DEF TypeOK, SweepUpdate
  <2>2. e.key = Provider[w]
    BY <2>1, EncryptedType DEF Row, Ciphertext
  <2>3. row' = IF Exists(c)
               THEN [row EXCEPT ![c].encrypted = e, ![c].version = Provider[w]]
               ELSE row
    BY <1>4 DEF SweepUpdate
  <2>4. ASSUME NEW d \in Creds, Exists(d)'
        PROVE  row'[d].encrypted.key = row'[d].version
    <3> HIDE DEF e
    <3>1. CASE Exists(c) /\ d = c
      <4>1. row[c] \in Row /\ row'[c] = [row[c] EXCEPT !.encrypted = e,
                                                      !.version = Provider[w]]
        BY <2>3, <3>1 DEF TypeOK, Exists
      <4>2. row'[c].encrypted = e /\ row'[c].version = Provider[w]
        BY <4>1 DEF Row
      <4> QED BY <4>2, <2>2, <3>1
    <3>2. CASE ~Exists(c) \/ d # c
      <4>1. row'[d] = row[d]
        BY <2>3, <3>2 DEF TypeOK
      <4> QED BY <4>1, <2>4 DEF Decryptable, Exists
    <3> QED BY <3>1, <3>2
  <2>5. ASSUME NEW v \in Sweepers, NEW d \in Creds, sweep'[v].rest[d] # Absent
        PROVE  sweep'[v].rest[d] = sweep[v].rest[d]
    BY <1>4, <2>5 DEF TypeOK, SweepUpdate
  <2>6. UNCHANGED call
    BY <1>4 DEF SweepUpdate
  <2> QED BY <2>4, <2>5, <2>6 DEF Decryptable
<1> QED BY <1>1, <1>2, <1>3, <1>4

\* Every get and every sweep decrypts with the key it was encrypted with,
\* however updates, rotations and sweeps of old and new providers interleave.
THEOREM AlwaysDecryptable == Spec => []Decryptable
<1>1. TypeOK /\ Decryptable /\ [Next]_vars => Decryptable'
  <2> SUFFICES ASSUME TypeOK, Decryptable, [Next]_vars
               PROVE  Decryptable'
    OBVIOUS
  <2>1. CASE UNCHANGED vars
    BY <2>1 DEF Decryptable, Exists, vars
  <2>2. CASE Next
    BY <2>2, CallsDecryptable, SweepsDecryptable DEF Next
  <2> QED BY <2>1, <2>2
<1> QED BY <1>1, InitDecryptable, TypeCorrect, PTL DEF Spec

-----------------------------------------------------------------------------
(* The access log.                                                         *)

LEMMA ReturningFinite ==
  ASSUME NEW c \in Creds, NEW a \in Action
  PROVE  /\ IsFiniteSet(Returning(c, a))
         /\ Cardinality(Returning(c, a)) \in Nat
<1>1. Returning(c, a) \subseteq Sessions /\ IsFiniteSet(Sessions)
  BY CredentialAssumption DEF Returning
<1>2. IsFiniteSet(Returning(c, a))
  BY <1>1, FS_Subset
<1> QED BY <1>2, FS_CardinalityType

LEMMA InitLoggedFirst == Init => LoggedFirst
<1> SUFFICES ASSUME Init, NEW c \in Creds, NEW a \in Action
             PROVE  resolved[c][a] + Cardinality(Returning(c, a)) <= log[c][a]
  BY DEF LoggedFirst
<1>1. Returning(c, a) = {}
  BY DEF Init, Returning
<1>2. Cardinality(Returning(c, a)) = 0
  BY <1>1, FS_EmptySet
<1> QED BY <1>2 DEF Init

\* A step that only takes calls out of the return stage, and logs and resolves
\* nothing, keeps the log ahead.
LEMMA OnlyLeaving ==
  ASSUME TypeOK, LoggedFirst,
         \A c \in Creds, a \in Action :
           /\ Returning(c, a)' \subseteq Returning(c, a)
           /\ resolved'[c][a] = resolved[c][a]
           /\ log'[c][a] \in Nat
           /\ log[c][a] <= log'[c][a]
  PROVE  LoggedFirst'
<1> SUFFICES ASSUME NEW c \in Creds, NEW a \in Action
             PROVE  resolved'[c][a] + Cardinality(Returning(c, a)') <= log'[c][a]
  BY DEF LoggedFirst
<1>1. /\ IsFiniteSet(Returning(c, a))
      /\ Cardinality(Returning(c, a)) \in Nat
  BY ReturningFinite
<1>2. /\ Cardinality(Returning(c, a)') <= Cardinality(Returning(c, a))
      /\ Cardinality(Returning(c, a)') \in Nat
  BY <1>1, FS_Subset, FS_CardinalityType
<1>3. /\ resolved[c][a] \in Nat
      /\ log[c][a] \in Nat
  BY DEF TypeOK
<1> QED BY <1>1, <1>2, <1>3 DEF LoggedFirst

LEMMA LogAccessFirst ==
  ASSUME TypeOK, LoggedFirst, NEW s \in Sessions, LogAccess(s)
  PROVE  LoggedFirst'
<1> SUFFICES ASSUME NEW c \in Creds, NEW a \in Action
             PROVE  resolved'[c][a] + Cardinality(Returning(c, a)') <= log'[c][a]
  BY DEF LoggedFirst
<1>1. /\ call[s] \in Call
      /\ call[s].cred \in Creds
      /\ call[s].op \in Action
      /\ [call[s] EXCEPT !.stage = "return"] \in Call
      /\ [call[s] EXCEPT !.stage = "return"] # Idle
  BY CallType, AdvanceType DEF TypeOK, LogAccess
<1>2. /\ IsFiniteSet(Returning(c, a))
      /\ Cardinality(Returning(c, a)) \in Nat
  BY ReturningFinite
<1>3. /\ resolved[c][a] \in Nat
      /\ log[c][a] \in Nat
      /\ resolved'[c][a] = resolved[c][a]
  BY DEF TypeOK, LogAccess
<1>4. CASE call[s].cred = c /\ call[s].op = a
  <2>1. Returning(c, a)' \subseteq Returning(c, a) \cup {s}
    BY DEF TypeOK, LogAccess, Returning
  <2>2. s \notin Returning(c, a)
    BY DEF LogAccess, Returning
  <2>3. /\ IsFiniteSet(Returning(c, a) \cup {s})
        /\ Cardinality(Returning(c, a) \cup {s}) = Cardinality(Returning(c, a)) + 1
    BY <1>2, <2>2, FS_AddElement
  <2>4. /\ Cardinality(Returning(c, a)') <= Cardinality(Returning(c, a)) + 1
        /\ Cardinality(Returning(c, a)') \in Nat
    BY <2>1, <2>3, FS_Subset, FS_CardinalityType
  <2>5. log'[c][a] = log[c][a] + 1
    BY <1>4 DEF TypeOK, LogAccess
  <2> QED BY <1>2, <1>3, <2>4, <2>5 DEF LoggedFirst
<1>5. CASE ~(call[s].cred = c /\ call[s].op = a)
  <2>1. call'[s] = [call[s] EXCEPT !.stage = "return"]
    BY DEF TypeOK, LogAccess
  <2>2. call'[s].cred = call[s].cred /\ call'[s].op = call[s].op
    BY <1>1, <2>1 DEF Call
  <2>3. \A r \in Sessions \ {s} : call'[r] = call[r]
    BY DEF TypeOK, LogAccess
  <2>4. Returning(c, a)' = Returning(c, a)
    BY <1>5, <2>2, <2>3 DEF Returning
  <2>5. log'[c][a] = log[c][a]
    BY <1>5 DEF TypeOK, LogAccess
  <2> QED BY <1>3, <2>4, <2>5 DEF LoggedFirst
<1> QED BY <1>4, <1>5

LEMMA ReturnLast ==
  ASSUME TypeOK, LoggedFirst, NEW s \in Sessions, Return(s)
  PROVE  LoggedFirst'
<1> SUFFICES ASSUME NEW c \in Creds, NEW a \in Action
             PROVE  resolved'[c][a] + Cardinality(Returning(c, a)') <= log'[c][a]
  BY DEF LoggedFirst
<1>1. /\ IsFiniteSet(Returning(c, a))
      /\ Cardinality(Returning(c, a)) \in Nat
  BY ReturningFinite
<1>2. /\ resolved[c][a] \in Nat
      /\ log[c][a] \in Nat
      /\ log'[c][a] = log[c][a]
  BY DEF TypeOK, Return
<1>3. Returning(c, a)' = Returning(c, a) \ {s}
  BY DEF TypeOK, Return, Returning
<1>4. CASE call[s].cred = c /\ call[s].op = a
  <2>1. s \in Returning(c, a)
    BY <1>4 DEF Return, Returning
  <2>2. Cardinality(Returning(c, a)') = Cardinality(Returning(c, a)) - 1
    BY <1>1, <1>3, <2>1, FS_RemoveElement
  <2>3. resolved'[c][a] = resolved[c][a] + 1
    BY <1>4 DEF TypeOK, Return
  <2> QED BY <1>1, <1>2, <2>2, <2>3 DEF LoggedFirst
<1>5. CASE ~(call[s].cred = c /\ call[s].op = a)
  <2>1. Returning(c, a)' = Returning(c, a)
    BY <1>3, <1>5 DEF Returning
  <2>2. resolved'[c][a] = resolved[c][a]
    BY <1>5 DEF TypeOK, Return
  <2> QED BY <1>2, <2>1, <2>2 DEF LoggedFirst
<1> QED BY <1>4, <1>5

LEMMA OthersLeave ==
  ASSUME TypeOK, LoggedFirst, NEW s \in Sessions,
         Store(s) \/ Select(s) \/ Delete(s) \/ Update(s) \/ Reject(s)
  PROVE  LoggedFirst'
<1>1. resolved' = resolved /\ log' = log
  BY DEF Store, Select, Delete, Update, Reject
<1>2. \A r \in Sessions \ {s} : call'[r] = call[r]
  BY DEF TypeOK, Store, Select, Delete, Update, Reject
<1>3. \/ call'[s] = call[s]
      \/ call'[s] = Idle
      \/ call'[s].stage # "return"
  <2>1. CASE Store(s)
    BY <2>1 DEF Store
  <2>2. CASE Select(s)
    BY <2>2 DEF TypeOK, Select
  <2>3. CASE Delete(s)
    BY <2>3 DEF TypeOK, Delete
  <2>4. CASE Update(s)
    <3>1. call[s] \in Call /\ call'[s] = [call[s] EXCEPT !.stage = "log"]
      BY <2>4 DEF TypeOK, Update
    <3>2. call'[s].stage = "log"
      BY <3>1 DEF Call
    <3> QED BY <3>2
  <2>5. CASE Reject(s)
    BY <2>5 DEF TypeOK, Reject
  <2> QED BY <2>1, <2>2, <2>3, <2>4, <2>5
<1>4. \A c \in Creds, a \in Action : Returning(c, a)' \subseteq Returning(c, a)
  BY <1>2, <1>3 DEF Returning
<1>5. \A c \in Creds, a \in Action : log[c][a] \in Nat
  BY DEF TypeOK
<1> QED BY <1>1, <1>4, <1>5, OnlyLeaving

LEMMA SweepsLog ==
  ASSUME TypeOK, LoggedFirst, NEW w \in Sweepers,
         \/ SweepSelect(w) \/ SweepLog(w) \/ SweepReject(w)
         \/ \E c \in Creds : SweepUpdate(w, c)
  PROVE  LoggedFirst'
<1>1. resolved' = resolved /\ call' = call
  BY DEF SweepSelect, SweepLog, SweepReject, SweepUpdate
<1>2. \A c \in Creds, a \in Action : Returning(c, a)' = Returning(c, a)
  BY <1>1 DEF Returning
<1>3. \A c \in Creds, a \in Action : log'[c][a] \in Nat /\ log[c][a] <= log'[c][a]
  <2>1. CASE SweepLog(w)
    BY <2>1 DEF TypeOK, SweepLog
  <2>2. CASE log' = log
    BY <2>2 DEF TypeOK
  <2> QED BY <2>1, <2>2 DEF SweepSelect, SweepReject, SweepUpdate
<1> QED BY <1>1, <1>2, <1>3, OnlyLeaving

\* No caller is handed a secret, or told that a change was made, that the
\* access log does not show, whatever statement or process fails in between.
THEOREM Unlogged == Spec => []NothingUnlogged
<1>1. TypeOK /\ LoggedFirst /\ [Next]_vars => LoggedFirst'
  <2> SUFFICES ASSUME TypeOK, LoggedFirst, [Next]_vars
               PROVE  LoggedFirst'
    OBVIOUS
  <2>1. CASE UNCHANGED vars
    BY <2>1 DEF LoggedFirst, Returning, vars
  <2>2. CASE Next
    BY <2>2, LogAccessFirst, ReturnLast, OthersLeave, SweepsLog DEF Next
  <2> QED BY <2>1, <2>2
<1>2. TypeOK /\ LoggedFirst => NothingUnlogged
  BY ReturningFinite DEF TypeOK, LoggedFirst, NothingUnlogged
<1> QED BY <1>1, <1>2, InitLoggedFirst, TypeCorrect, PTL DEF Spec


-----------------------------------------------------------------------------
(* Revocation.                                                             *)

\* A rotation under way was allowed on a row that was active when it was read.
RotatesActive ==
  \A s \in Sessions : call[s] # Idle /\ call[s].op = "rotate" => call[s].seen.status = "active"

LEMMA RotatesActiveInductive ==
  ASSUME TypeOK, RotatesActive, [Next]_vars
  PROVE  RotatesActive'
<1> USE CredentialAssumption
<1>1. ASSUME NEW s \in Sessions, Select(s) PROVE RotatesActive'
  <2>1. CASE call' = call
    BY <2>1 DEF RotatesActive
  <2>2. CASE call' # call
    <3>1. PICK op \in Action \ {"delete"}, c \in Creds, who \in Accessors : \E arg \in Argument(op) :
            /\ Exists(c) /\ Allowed(row[c], op, who)
            /\ call' = [call EXCEPT ![s] =
                [op |-> op, cred |-> c, seen |-> row[c],
                 stage |-> IF op = "read" THEN "log" ELSE "update", arg |-> arg]]
      BY <1>1, <2>2 DEF Select
    <3>2. op = "rotate" => row[c].status = "active"
      BY <3>1 DEF Allowed, CanAccess, Exists, Row, Status
    <3> QED BY <3>1, <3>2 DEF TypeOK, RotatesActive
  <2> QED BY <2>1, <2>2
<1>2. ASSUME NEW s \in Sessions, Delete(s) PROVE RotatesActive'
  BY <1>2 DEF TypeOK, RotatesActive, Delete
<1>3. ASSUME NEW s \in Sessions, Update(s) \/ LogAccess(s) PROVE RotatesActive'
  <2>1. PICK stage \in Stage : call' = [call EXCEPT ![s].stage = stage]
    BY <1>3 DEF Update, LogAccess, Stage
  <2>2. call[s] # Idle /\ call[s] \in Call
    BY <1>3 DEF TypeOK, Update, LogAccess
  <2>3. call'[s].op = call[s].op /\ call'[s].seen = call[s].seen
    BY <2>1, <2>2 DEF TypeOK, Call
  <2>4. \A t \in Sessions : t # s => call'[t] = call[t]
    BY <2>1 DEF TypeOK
  <2> QED BY <2>2, <2>3, <2>4 DEF RotatesActive
<1>4. ASSUME NEW s \in Sessions, Return(s) \/ Reject(s) PROVE RotatesActive'
  BY <1>4 DEF TypeOK, RotatesActive, Return, Reject
<1>5. CASE UNCHANGED call
  BY <1>5 DEF RotatesActive
<1> QED BY <1>1, <1>2, <1>3, <1>4, <1>5
        DEF Next, vars, Store, SweepSelect, SweepLog, SweepReject, SweepUpdate

\* What revives a revoked row in one step is the UPDATE of a rotation.
LEMMA RevivedByRotation ==
  ASSUME TypeOK, RotatesActive, [Next]_vars,
         NEW c \in Creds, Exists(c), row[c].status = "revoked",
         row'[c] \in Row, row'[c].status = "active"
  PROVE  \E s \in Sessions : /\ call[s] # Idle
                             /\ call[s].cred = c
                             /\ call[s].op = "rotate"
                             /\ call[s].seen.status = "active"
<1> USE CredentialAssumption
<1>1. row'[c] # row[c] /\ row[c] # Absent /\ row[c] # Deleted /\ row'[c] # Deleted
  BY DEF Exists
<1>2. ASSUME NEW s \in Sessions, Update(s)
      PROVE  call[s] # Idle /\ call[s].cred = c /\ call[s].op = "rotate"
  <2>1. call[s] # Idle /\ call[s] \in Call
    BY <1>2 DEF TypeOK, Update
  <2>2. call[s].cred = c /\ row'[c] = Updated(s, row[c])
    BY <1>1, <1>2, <2>1 DEF TypeOK, Update
  <2>3. row[c] \in Row
    BY DEF Exists
  <2>4. call[s].op = "rotate"
    BY <2>2, <2>3 DEF Updated, Row
  <2> QED BY <2>1, <2>2, <2>4
<1>3. ASSUME NEW s \in Sessions, Store(s) \/ Delete(s) PROVE FALSE
  BY <1>1, <1>3 DEF TypeOK, Store, Delete
<1>4. ASSUME NEW w \in Sweepers, NEW d \in Creds, SweepUpdate(w, d) PROVE FALSE
  <2>1. row'[c].status = row[c].status
    BY <1>4 DEF TypeOK, SweepUpdate, Exists, Row
  <2> QED BY <2>1
<1> QED BY <1>1, <1>2, <1>3, <1>4
        DEF RotatesActive, Next, vars, Select, LogAccess, Return, Reject,
            SweepSelect, SweepLog, SweepReject

\* A revoked credential becomes active only by a rotation that was allowed
\* before the revocation was written, whatever else is under way.
THEOREM RevivedOnlyByRacing == Spec => OnlyRacingRotationRevives
<1> DEFINE Revives(c) ==
             Exists(c) /\ row[c].status = "revoked" /\ Exists(c)' /\ row'[c].status = "active"
             => \E s \in Sessions : /\ call[s] # Idle
                                    /\ call[s].cred = c
                                    /\ call[s].op = "rotate"
                                    /\ call[s].seen.status = "active"
<1>1. Init => RotatesActive
  BY DEF Init, RotatesActive
<1>2. TypeOK /\ RotatesActive /\ [Next]_vars => RotatesActive'
  BY RotatesActiveInductive
<1>3. TypeOK /\ RotatesActive /\ [Next]_vars => [\A c \in Creds : Revives(c)]_vars
  BY RevivedByRotation DEF Exists
<1> QED BY <1>1, <1>2, <1>3, TypeCorrect, PTL DEF Spec, OnlyRacingRotationRevives

-----------------------------------------------------------------------------
(* The configuration documents: first the files on disk *)

USE ConfigAssumption

ClientStates ==
  {IdleClient} \cup [state : {"answered"}, status : Nat, content : Int]
  \cup [state : {"waiting"}, method : {"POST", "PUT"}, route : Routes]

ApiInv == /\ cdWrites \in Nat
          /\ cdFiles \in [Paths -> Nat \cup {NoDocument}] /\ cdBirths \in [Paths -> Int]
          /\ cdClient \in [Clients -> ClientStates]
          /\ OneBirthPerLife

LEMMA PathKnown ==
  ASSUME NEW r \in Routes, HasPath(r)
  PROVE  ResolvePath(r) \in Paths
BY DEF Paths

\* An answer, with the files as they were or one path written.
LEMMA AnswerTyped ==
  ASSUME ApiInv, NEW c, NEW status \in Nat, NEW content \in Int, Respond(c, status, content)
  PROVE  cdClient' \in [Clients -> ClientStates]
BY DEF ApiInv, Respond, Answer, ClientStates

LEMMA OnePathWritten ==
  ASSUME ApiInv, NEW p \in Paths, NEW content \in Nat \cup {NoDocument}, cdWrites' \in Nat,
         cdClient' \in [Clients -> ClientStates],
         cdFiles' = [cdFiles EXCEPT ![p] = content],
         cdBirths' = [cdBirths EXCEPT ![p] = @ + Lives(content) - Lives(cdFiles[p])]
  PROVE  ApiInv'
BY DEF ApiInv, OneBirthPerLife, Lives

LEMMA ApiKeeps ==
  ASSUME ApiInv, [ApiNext]_cdVars
  PROVE  ApiInv'
<1>1. ASSUME NEW c \in Clients, Unauthorized(c) PROVE ApiInv'
  <2>1. cdClient' \in [Clients -> ClientStates]
    BY <1>1, AnswerTyped DEF Unauthorized, NoDocument
  <2> QED BY <1>1, <2>1 DEF Unauthorized, ApiInv, OneBirthPerLife
<1>2. ASSUME NEW c \in Clients, BodyFails(c) PROVE ApiInv'
  <2>1. cdClient' \in [Clients -> ClientStates]
    BY <1>2, AnswerTyped DEF BodyFails, NoDocument
  <2> QED BY <1>2, <2>1 DEF BodyFails, ApiInv, OneBirthPerLife
<1>3. ASSUME NEW c \in Clients, NEW r \in Routes, Read(c, r) PROVE ApiInv'
  <2>1. cdClient' \in [Clients -> ClientStates]
    <3>1. CASE ~HasPath(r)
      BY <1>3, <3>1, AnswerTyped DEF Read, NoDocument
    <3>2. CASE HasPath(r)
      <4> DEFINE file == cdFiles[ResolvePath(r)]
      <4>1. file \in Nat \cup {NoDocument}
        BY <3>2, PathKnown DEF ApiInv
      <4>2. file = NoDocument \/ file = 0 \/ file > 0
        BY <4>1
      <4>3. \/ Respond(c, 404, NoDocument) \/ Respond(c, 400, NoDocument)
            \/ file \in Nat /\ Respond(c, 200, file)
        <5>1. CASE file = NoDocument
          BY <1>3, <3>2, <5>1 DEF Read, NoDocument
        <5>2. CASE file = 0
          BY <1>3, <3>2, <5>2 DEF Read, NoDocument
        <5>3. CASE file > 0
          <6>1. file # NoDocument /\ file # 0 /\ file \in Nat
            BY <4>1, <5>3 DEF NoDocument
          <6> QED BY <1>3, <3>2, <5>3, <6>1 DEF Read
        <5> QED BY <4>2, <5>1, <5>2, <5>3
      <4> HIDE DEF file
      <4> QED BY <4>3, AnswerTyped DEF NoDocument
    <3> QED BY <3>1, <3>2
  <2> QED BY <1>3, <2>1 DEF Read, ApiInv, OneBirthPerLife
<1>4. ASSUME NEW c \in Clients, NEW r \in Routes, DeleteConfig(c, r) PROVE ApiInv'
  <2>1. CASE HasPath(r) /\ cdFiles[ResolvePath(r)] # NoDocument
    <3>1. ResolvePath(r) \in Paths
      BY <2>1, PathKnown
    <3>2. cdClient' \in [Clients -> ClientStates]
      BY <1>4, <2>1, AnswerTyped DEF DeleteConfig, NoDocument
    <3>3. /\ cdFiles' = [cdFiles EXCEPT ![ResolvePath(r)] = NoDocument]
          /\ cdBirths' = [cdBirths EXCEPT ![ResolvePath(r)] = @ - 1]
          /\ cdWrites' = cdWrites
      BY <1>4, <2>1 DEF DeleteConfig
    <3> QED BY <2>1, <3>1, <3>2, <3>3 DEF ApiInv, OneBirthPerLife, Lives, NoDocument
  <2>2. CASE ~(HasPath(r) /\ cdFiles[ResolvePath(r)] # NoDocument)
    <3>1. cdClient' \in [Clients -> ClientStates]
      BY <1>4, <2>2, AnswerTyped DEF DeleteConfig, NoDocument
    <3>2. UNCHANGED <<cdFiles, cdBirths, cdWrites>>
      BY <1>4, <2>2 DEF DeleteConfig
    <3> QED BY <3>1, <3>2 DEF ApiInv, OneBirthPerLife
  <2> QED BY <2>1, <2>2
<1>5. ASSUME NEW c \in Clients, NEW r \in Routes, NEW m \in {"POST", "PUT"}, StartWrite(c, m, r)
      PROVE  ApiInv'
  <2>1. cdClient' \in [Clients -> ClientStates]
    BY <1>5 DEF StartWrite, ApiInv, ClientStates
  <2> QED BY <1>5, <2>1 DEF StartWrite, ApiInv, OneBirthPerLife
<1>6. ASSUME NEW c \in Clients, NEW valid \in BOOLEAN, BodyArrives(c, valid) PROVE ApiInv'
  <2> DEFINE r == cdClient[c].route
             m == cdClient[c].method
             path == ResolvePath(r)
             status == WriteStatus(m, cdFiles[path], valid)
  <2>1. r \in Routes /\ m \in {"POST", "PUT"} /\ cdWrites' \in Nat /\ cdWrites' # NoDocument
    BY <1>6 DEF BodyArrives, ApiInv, ClientStates, IdleClient, NoDocument
  <2>2. CASE ~HasPath(r)
    <3>1. cdClient' \in [Clients -> ClientStates]
      BY <1>6, <2>2, AnswerTyped DEF BodyArrives, NoDocument
    <3> QED BY <1>6, <2>1, <2>2, <3>1 DEF BodyArrives, ApiInv, OneBirthPerLife
  <2>3. CASE HasPath(r)
    <3>1. path \in Paths
      BY <2>1, <2>3, PathKnown
    <3>2. /\ Respond(c, status, IF status < 300 THEN cdWrites' ELSE NoDocument)
          /\ cdFiles' = IF status < 300 THEN [cdFiles EXCEPT ![path] = cdWrites'] ELSE cdFiles
          /\ cdBirths' = IF status = 201 THEN [cdBirths EXCEPT ![path] = @ + 1] ELSE cdBirths
      BY <1>6, <2>3 DEF BodyArrives
    <3>3. /\ status \in {200, 201, 400, 404, 409}
          /\ status = 201 => cdFiles[path] = NoDocument
          /\ status = 200 => cdFiles[path] # NoDocument
      <4>1. CASE m = "POST" /\ cdFiles[path] # NoDocument
        BY <4>1 DEF WriteStatus
      <4>2. CASE m = "PUT" /\ cdFiles[path] = NoDocument
        BY <4>2 DEF WriteStatus
      <4>3. CASE m = "POST" /\ cdFiles[path] = NoDocument
        BY <4>3 DEF WriteStatus
      <4>4. CASE m = "PUT" /\ cdFiles[path] # NoDocument
        BY <4>4 DEF WriteStatus
      <4> QED BY <2>1, <4>1, <4>2, <4>3, <4>4
    <3> HIDE DEF status
    <3>4. cdClient' \in [Clients -> ClientStates]
      BY <2>1, <3>2, <3>3, AnswerTyped DEF NoDocument
    <3>5. CASE status = 201
      BY <2>1, <3>1, <3>2, <3>3, <3>4, <3>5 DEF ApiInv, OneBirthPerLife, Lives
    <3>6. CASE status = 200
      BY <2>1, <3>1, <3>2, <3>3, <3>4, <3>6 DEF ApiInv, OneBirthPerLife, Lives
    <3>7. CASE status \in {400, 404, 409}
      BY <2>1, <3>1, <3>2, <3>4, <3>7 DEF ApiInv, OneBirthPerLife
    <3> QED BY <3>3, <3>5, <3>6, <3>7
  <2> QED BY <2>2, <2>3
<1>7. ASSUME NEW p \in Paths, EditByHand(p) PROVE ApiInv'
  <2>1. cdWrites' \in Nat /\ cdClient' \in [Clients -> ClientStates]
    BY <1>7 DEF EditByHand, ApiInv
  <2>2. PICK content \in {0, NoDocument, cdWrites'} :
          /\ cdFiles' = [cdFiles EXCEPT ![p] = content]
          /\ cdBirths' = [cdBirths EXCEPT ![p] = @ + Lives(content) - Lives(cdFiles[p])]
    BY <1>7 DEF EditByHand
  <2>3. content \in Nat \cup {NoDocument}
    BY <2>1, <2>2 DEF NoDocument
  <2> QED BY <2>1, <2>2, <2>3 DEF ApiInv, OneBirthPerLife, Lives
<1>8. CASE UNCHANGED cdVars
  BY <1>8 DEF cdVars, cdApiVars, ApiInv, OneBirthPerLife
<1> QED BY <1>1, <1>2, <1>3, <1>4, <1>5, <1>6, <1>7, <1>8 DEF ApiNext

-----------------------------------------------------------------------------
(* The versioned store. *)

Doc == [version : Nat, content : Nat, creation : Nat]
Record == [id : Nat, action : {"create", "update"}]

\* The creations in the records s.
Creations(s) == {i \in DOMAIN s : s[i].action = "create"}

\* What an editor read is no newer than the document d, and of two reads of one
\* version of one creation both are the same.
NoNewer(read, d) ==
  /\ read.creation <= d.creation
  /\ read.creation = d.creation =>
       /\ read.version <= d.version
       /\ read.version = d.version => read.content = d.content

\* As many updates follow the last creation as the version says.
StoryTold(s, version) ==
  \/ Creations(s) = {} /\ version = 0
  \/ \E n \in Creations(s) : /\ \A j \in Creations(s) : j <= n
                             /\ version = Len(s) - n + 1

LockInv ==
  /\ cdWrites \in Nat
  /\ cdDocument \in Doc /\ cdEditor \in [Editors -> Doc]
  /\ cdUpdate \in [done : {FALSE}] \cup [done : {TRUE}, by : Editors, over : Doc]
  /\ cdRecords \in Seq(Record)
  /\ \A e \in Editors : NoNewer(cdEditor[e], cdDocument)
  /\ OnlyRecreationLosesUpdates
  /\ StoryTold(cdRecords, cdDocument.version)

LEMMA RecordAppended ==
  ASSUME NEW s \in Seq(Record), NEW r \in Record
  PROVE  /\ Append(s, r) \in Seq(Record) /\ Len(Append(s, r)) = Len(s) + 1
         /\ Len(s) \in Nat
         /\ Creations(Append(s, r)) = IF r.action = "create" THEN Creations(s) \cup {Len(s) + 1}
                                      ELSE Creations(s)
         /\ \A n \in Creations(s) : n \in Nat /\ n <= Len(s)
BY DEF Creations

LEMMA LockKeeps ==
  ASSUME LockInv, [LockNext]_cdVars
  PROVE  LockInv'
<1>1. CASE CreateVersioned
  <2> DEFINE r == [id |-> Len(cdRecords) + 1, action |-> "create"]
  <2>1. cdRecords \in Seq(Record) /\ r \in Record /\ cdRecords' = Append(cdRecords, r)
    BY <1>1 DEF CreateVersioned, Recorded, LockInv, Record
  <2>2. /\ cdWrites' \in Nat /\ cdDocument' \in Doc /\ cdEditor' = cdEditor
        /\ cdUpdate' = [done |-> FALSE]
        /\ cdDocument'.version = 1 /\ cdDocument'.creation = cdDocument.creation + 1
    BY <1>1 DEF CreateVersioned, LockInv, Doc
  <2>3. \A e \in Editors : NoNewer(cdEditor'[e], cdDocument')
    BY <2>2 DEF LockInv, NoNewer, Doc
  <2>4. StoryTold(cdRecords', 1)
    <3>1. /\ Len(cdRecords) \in Nat /\ Len(cdRecords') = Len(cdRecords) + 1
          /\ Creations(cdRecords') = Creations(cdRecords) \cup {Len(cdRecords) + 1}
          /\ \A n \in Creations(cdRecords) : n \in Nat /\ n <= Len(cdRecords)
      BY <2>1, RecordAppended
    <3> QED BY <3>1 DEF StoryTold
  <2>5. cdRecords' \in Seq(Record)
    BY <2>1
  <2> QED BY <2>2, <2>3, <2>4, <2>5 DEF LockInv, OnlyRecreationLosesUpdates
<1>2. ASSUME NEW e \in Editors, GetVersioned(e) PROVE LockInv'
  <2>1. /\ cdEditor' = [cdEditor EXCEPT ![e] = cdDocument] /\ cdUpdate' = [done |-> FALSE]
        /\ UNCHANGED <<cdDocument, cdRecords, cdWrites>>
    BY <1>2 DEF GetVersioned
  <2>2. \A f \in Editors : NoNewer(cdEditor'[f], cdDocument')
    BY <2>1 DEF LockInv, NoNewer, Doc
  <2> QED BY <2>1, <2>2 DEF LockInv, OnlyRecreationLosesUpdates
<1>3. ASSUME NEW e \in Editors, UpdateVersioned(e) PROVE LockInv'
  <2>0. cdWrites' \in Nat /\ cdEditor' = cdEditor /\ cdEditor[e].version > 0
    BY <1>3 DEF UpdateVersioned, LockInv
  <2>1. CASE Accepts(cdDocument, cdEditor[e].version)
    <3> DEFINE r == [id |-> Len(cdRecords) + 1, action |-> "update"]
    <3>1. cdRecords \in Seq(Record) /\ r \in Record /\ cdRecords' = Append(cdRecords, r)
      BY <1>3, <2>1 DEF UpdateVersioned, Recorded, LockInv, Record
    <3>2. /\ cdDocument' = [cdDocument EXCEPT !.version = @ + 1, !.content = cdWrites']
          /\ cdUpdate' = [done |-> TRUE, by |-> e, over |-> cdDocument]
      BY <1>3, <2>1 DEF UpdateVersioned
    <3>3. /\ cdDocument \in Doc /\ cdDocument' \in Doc
          /\ cdDocument'.version = cdDocument.version + 1
          /\ cdDocument'.creation = cdDocument.creation
      <4>1. cdDocument \in Doc
        BY DEF LockInv
      <4>2. cdDocument.version \in Nat /\ cdDocument.creation \in Nat
        BY <4>1 DEF Doc
      <4>3. cdDocument' = [version |-> cdDocument.version + 1, content |-> cdWrites',
                           creation |-> cdDocument.creation]
        BY <3>2, <4>1 DEF Doc
      <4> QED BY <2>0, <4>1, <4>2, <4>3 DEF Doc
    <3>4. \A f \in Editors : NoNewer(cdEditor'[f], cdDocument')
      <4>1. ASSUME NEW f \in Editors PROVE NoNewer(cdEditor[f], cdDocument')
        <5>1. cdEditor[f] \in Doc /\ NoNewer(cdEditor[f], cdDocument)
          BY DEF LockInv
        <5> QED BY <3>3, <5>1 DEF NoNewer, Doc
      <4> QED BY <2>0, <4>1
    <3>5. OnlyRecreationLosesUpdates'
      <4>1. cdDocument.version = cdEditor[e].version
        BY <2>1 DEF Accepts
      <4>2. \/ cdEditor[e].content = cdDocument.content
            \/ cdEditor[e].creation # cdDocument.creation
        BY <4>1 DEF LockInv, NoNewer
      <4> QED BY <2>0, <3>2, <4>2 DEF OnlyRecreationLosesUpdates
    <3>6. StoryTold(cdRecords', cdDocument'.version)
      <4>1. /\ Len(cdRecords) \in Nat /\ Len(cdRecords') = Len(cdRecords) + 1
            /\ Creations(cdRecords') = Creations(cdRecords)
            /\ \A n \in Creations(cdRecords) : n \in Nat /\ n <= Len(cdRecords)
        BY <3>1, RecordAppended
      <4>2. cdDocument.version # 0
        BY <2>0, <2>1 DEF Accepts
      <4> QED BY <3>3, <4>1, <4>2 DEF LockInv, StoryTold
    <3>7. cdRecords' \in Seq(Record)
      BY <3>1
    <3>8. cdUpdate' \in [done : {TRUE}, by : Editors, over : Doc]
      BY <3>2, <3>3
    <3> QED BY <2>0, <3>3, <3>4, <3>5, <3>6, <3>7, <3>8 DEF LockInv
  <2>2. CASE ~Accepts(cdDocument, cdEditor[e].version)
    <3>1. cdUpdate' = [done |-> FALSE] /\ UNCHANGED <<cdDocument, cdRecords>>
      BY <1>3, <2>2 DEF UpdateVersioned
    <3> QED BY <2>0, <3>1 DEF LockInv, OnlyRecreationLosesUpdates
  <2> QED BY <2>1, <2>2
<1>4. CASE UNCHANGED cdVars
  BY <1>4 DEF cdVars, cdLockVars, LockInv, OnlyRecreationLosesUpdates
<1> QED BY <1>1, <1>2, <1>3, <1>4 DEF LockNext

LEMMA StoryIsCounted == LockInv => VersionCountsUpdates
<1> SUFFICES ASSUME LockInv, Creations(cdRecords) # {}
             PROVE  cdDocument.version
                    = Len(cdRecords) - (CHOOSE i \in Creations(cdRecords) :
                                          \A j \in Creations(cdRecords) : j <= i) + 1
  BY DEF VersionCountsUpdates, Creations
<1>1. PICK n \in Creations(cdRecords) : /\ \A j \in Creations(cdRecords) : j <= n
                                        /\ cdDocument.version = Len(cdRecords) - n + 1
  BY DEF LockInv, StoryTold
<1>2. \A j \in Creations(cdRecords) : j \in Nat
  BY DEF Creations, LockInv
<1>3. \A i \in Creations(cdRecords) : (\A j \in Creations(cdRecords) : j <= i) => i = n
  BY <1>1, <1>2
<1>4. (CHOOSE i \in Creations(cdRecords) : \A j \in Creations(cdRecords) : j <= i) = n
  BY <1>1, <1>3
<1> QED BY <1>1, <1>4

-----------------------------------------------------------------------------
(* The webhooks. *)

NewDispatch == [state |-> "new"]
Result == [hook : 1..MaxHooks, success : BOOLEAN, attempts : 1..(MaxRetries + 1)]
Dispatch == [state : {"sending", "done"}, hooks : SUBSET (1..MaxHooks), attempts : 0..MaxRetries,
             results : Seq(Result), overlapped : SUBSET Events]

CopiesOf(s, e) == {j \in DOMAIN s : s[j] = e}
Copies(s, e) == Cardinality(CopiesOf(s, e))

\* What is reported of the dispatch d of the event e, and what is still to be told,
\* given what each hook received.
Told(d, e, received, registered) ==
  /\ \A n \in d.hooks : /\ n \in DOMAIN registered /\ registered[n].scope = e.scope
                        /\ Copies(received[n], e) <= d.attempts
                        /\ (\E m \in d.hooks : m < n) => CopiesOf(received[n], e) = {}
  /\ \A i \in DOMAIN d.results :
       LET r == d.results[i]
       IN  /\ r.success => Copies(received[r.hook], e) \in 1..r.attempts
           /\ ~r.success => r.attempts = MaxRetries + 1
           /\ r.hook \in DOMAIN registered /\ registered[r.hook].scope = e.scope
           /\ r.hook \notin d.hooks

HooksInv ==
  /\ cdRegistered \in Seq(Hooks) /\ Len(cdRegistered) <= MaxHooks
  /\ cdReceived \in [1..MaxHooks -> Seq(Events)]
  /\ cdDispatch \in [Events -> {NewDispatch} \cup Dispatch]
  /\ \A e \in Events : \A n \in 1..MaxHooks :
       cdDispatch[e] = NewDispatch => CopiesOf(cdReceived[n], e) = {}
  /\ \A e \in Events : cdDispatch[e] # NewDispatch =>
       Told(cdDispatch[e], e, cdReceived, cdRegistered)
  /\ \A a, b \in Events :
       a # b /\ cdDispatch[a].state = "sending" /\ cdDispatch[b].state = "sending"
       => b \in cdDispatch[a].overlapped
  \* What is received of an event being sent comes after what ended before it.
  /\ \A a, b \in Events : \A n \in 1..MaxHooks :
       /\ a # b /\ cdDispatch[a].state = "sending"
       /\ cdDispatch[b] # NewDispatch /\ b \notin cdDispatch[a].overlapped
       => \A i \in CopiesOf(cdReceived[n], a), j \in CopiesOf(cdReceived[n], b) : j < i
  /\ OrderKeptUnlessOverlapping

LEMMA SameTold ==
  ASSUME NEW c, NEW d, NEW e, NEW received, NEW registered, Told(c, e, received, registered),
         d.hooks = c.hooks, d.attempts = c.attempts, d.results = c.results
  PROVE  Told(d, e, received, registered)
BY DEF Told

LEMMA CopiesTyped ==
  ASSUME NEW s \in Seq(Events), NEW e
  PROVE  /\ IsFiniteSet(CopiesOf(s, e)) /\ Copies(s, e) \in Nat
         /\ Copies(s, e) = 0 <=> CopiesOf(s, e) = {}
<1>1. CopiesOf(s, e) \subseteq 1..Len(s)
  BY DEF CopiesOf
<1>2. IsFiniteSet(1..Len(s))
  BY FS_Interval
<1>3. IsFiniteSet(CopiesOf(s, e))
  BY <1>1, <1>2, FS_Subset
<1> QED BY <1>3, FS_CardinalityType, FS_EmptySet DEF Copies

\* One more event received.
LEMMA OneMoreCopy ==
  ASSUME NEW s \in Seq(Events), NEW e \in Events
  PROVE  /\ Append(s, e) \in Seq(Events)
         /\ CopiesOf(Append(s, e), e) = CopiesOf(s, e) \cup {Len(s) + 1}
         /\ Copies(Append(s, e), e) = Copies(s, e) + 1
         /\ \A b : b # e => CopiesOf(Append(s, e), b) = CopiesOf(s, b)
         /\ \A b : \A j \in CopiesOf(s, b) : j \in Nat /\ j <= Len(s)
         /\ Len(s) \in Nat
<1> DEFINE t == Append(s, e)
<1>1. /\ t \in Seq(Events) /\ Len(t) = Len(s) + 1 /\ Len(s) \in Nat
      /\ DOMAIN t = DOMAIN s \cup {Len(s) + 1} /\ DOMAIN s = 1..Len(s)
      /\ t[Len(s) + 1] = e /\ \A i \in DOMAIN s : t[i] = s[i]
  OBVIOUS
<1> HIDE DEF t
<1>2. CopiesOf(t, e) = CopiesOf(s, e) \cup {Len(s) + 1}
  BY <1>1 DEF CopiesOf
<1>3. \A b : b # e => CopiesOf(t, b) = CopiesOf(s, b)
  BY <1>1 DEF CopiesOf
<1>4. Len(s) + 1 \notin CopiesOf(s, e) /\ IsFiniteSet(CopiesOf(s, e))
  <2>1. Len(s) + 1 \notin DOMAIN s
    BY <1>1
  <2>2. Len(s) + 1 \notin CopiesOf(s, e)
    BY <2>1 DEF CopiesOf
  <2>3. IsFiniteSet(CopiesOf(s, e))
    BY CopiesTyped
  <2> QED BY <2>2, <2>3
<1>5. Copies(t, e) = Copies(s, e) + 1
  BY <1>2, <1>4, FS_AddElement DEF Copies
<1>6. \A b : \A j \in CopiesOf(s, b) : j \in Nat /\ j <= Len(s)
  BY <1>1 DEF CopiesOf
<1> QED BY <1>1, <1>2, <1>3, <1>5, <1>6 DEF t

\* A hook is told while it is received in order: what arrives at n of the event
\* e, which is being sent.
LEMMA ReceivedInOrder ==
  ASSUME HooksInv, NEW e \in Events, NEW n \in 1..MaxHooks,
         cdDispatch[e].state = "sending",
         cdReceived' = [cdReceived EXCEPT ![n] = Append(@, e)],
         cdDispatch' \in [Events -> {NewDispatch} \cup Dispatch],
         \A d \in Events : d # e => cdDispatch'[d] = cdDispatch[d],
         cdDispatch'[e].state = "sending",
         cdDispatch'[e].overlapped = cdDispatch[e].overlapped
  PROVE  /\ \A a, b \in Events : \A m \in 1..MaxHooks :
              /\ a # b /\ cdDispatch'[a].state = "sending"
              /\ cdDispatch'[b] # NewDispatch /\ b \notin cdDispatch'[a].overlapped
              => \A i \in CopiesOf(cdReceived'[m], a), j \in CopiesOf(cdReceived'[m], b) : j < i
         /\ OrderKeptUnlessOverlapping'
<1>1. /\ cdReceived[n] \in Seq(Events) /\ cdReceived'[n] = Append(cdReceived[n], e)
      /\ \A m \in 1..MaxHooks : m # n => cdReceived'[m] = cdReceived[m]
  BY DEF HooksInv
<1> DEFINE N == Len(cdReceived[n]) + 1
<1>2. /\ CopiesOf(cdReceived'[n], e) = CopiesOf(cdReceived[n], e) \cup {N}
      /\ \A b : b # e => CopiesOf(cdReceived'[n], b) = CopiesOf(cdReceived[n], b)
      /\ \A b : \A j \in CopiesOf(cdReceived[n], b) : j \in Nat /\ j < N
      /\ N \in Nat
  BY <1>1, OneMoreCopy
<1>3. NewDispatch.state # "sending" /\ cdDispatch[e] # NewDispatch
  BY DEF NewDispatch
<1>4. /\ \A d \in Events : cdDispatch'[d].state = "sending" <=> cdDispatch[d].state = "sending"
      /\ \A d \in Events : cdDispatch'[d] # NewDispatch => cdDispatch[d] # NewDispatch
      /\ \A d \in Events : cdDispatch'[d].overlapped = cdDispatch[d].overlapped
  BY <1>3
<1> HIDE DEF N
<1>5. ASSUME NEW a \in Events, NEW b \in Events, NEW m \in 1..MaxHooks, a # b,
             cdDispatch[a].state = "sending", cdDispatch[b] # NewDispatch,
             b \notin cdDispatch[a].overlapped,
             NEW i \in CopiesOf(cdReceived'[m], a), NEW j \in CopiesOf(cdReceived'[m], b)
      PROVE  j < i
  <2>0. b # e
    BY <1>5 DEF HooksInv
  <2>1. CASE m # n
    BY <1>1, <1>5, <2>1 DEF HooksInv
  <2>2. CASE m = n /\ a = e
    <3>1. j \in CopiesOf(cdReceived[n], b)
      BY <1>2, <2>0, <2>2
    <3>2. CASE i = N
      BY <1>2, <3>1, <3>2
    <3>3. CASE i \in CopiesOf(cdReceived[n], a)
      BY <1>5, <2>2, <3>1, <3>3 DEF HooksInv
    <3> QED BY <1>2, <2>2, <3>2, <3>3
  <2>3. CASE m = n /\ a # e
    <3>1. i \in CopiesOf(cdReceived[n], a) /\ j \in CopiesOf(cdReceived[n], b)
      BY <1>2, <2>0, <2>3
    <3> QED BY <1>5, <3>1 DEF HooksInv
  <2> QED BY <2>1, <2>2, <2>3
<1>6. OrderKeptUnlessOverlapping'
  <2> SUFFICES ASSUME NEW h \in 1..MaxHooks,
                      NEW i \in DOMAIN cdReceived'[h], NEW j \in DOMAIN cdReceived'[h],
                      i < j, cdReceived'[h][i] # cdReceived'[h][j],
                      cdReceived'[h][j] \notin cdDispatch'[cdReceived'[h][i]].overlapped,
                      NEW k \in DOMAIN cdReceived'[h], cdReceived'[h][k] = cdReceived'[h][i]
               PROVE  k < j
    BY DEF OrderKeptUnlessOverlapping
  <2>1. CASE h # n
    <3>1. cdReceived[h] \in Seq(Events) /\ cdReceived'[h] = cdReceived[h]
      BY <1>1, <2>1 DEF HooksInv
    <3>2. cdReceived[h][i] \in Events
      BY <3>1
    <3>3. \A x, y \in DOMAIN cdReceived[h] :
            /\ x < y /\ cdReceived[h][x] # cdReceived[h][y]
            /\ cdReceived[h][y] \notin cdDispatch[cdReceived[h][x]].overlapped
            => \A z \in DOMAIN cdReceived[h] : cdReceived[h][z] = cdReceived[h][x] => z < y
      BY DEF HooksInv, OrderKeptUnlessOverlapping
    <3>4. cdReceived[h][j] \notin cdDispatch[cdReceived[h][i]].overlapped
      BY <1>4, <3>1, <3>2
    <3>5. i \in DOMAIN cdReceived[h] /\ j \in DOMAIN cdReceived[h] /\ k \in DOMAIN cdReceived[h]
      BY <3>1
    <3>6. cdReceived[h][i] # cdReceived[h][j] /\ cdReceived[h][k] = cdReceived[h][i]
      BY <3>1
    <3> QED BY <3>3, <3>4, <3>5, <3>6
  <2>2. CASE h = n
    <3> DEFINE s == cdReceived[n]
               t == cdReceived'[n]
    <3>1. /\ s \in Seq(Events) /\ t = Append(s, e) /\ DOMAIN t = DOMAIN s \cup {N}
          /\ DOMAIN s = 1..Len(s) /\ N = Len(s) + 1 /\ N \in Nat /\ Len(s) \in Nat
          /\ t[N] = e /\ \A x \in DOMAIN s : t[x] = s[x]
      BY <1>1 DEF N
    <3> HIDE DEF s, t
    <3>2. /\ i \in DOMAIN t /\ j \in DOMAIN t /\ k \in DOMAIN t /\ i < j
          /\ t[i] # t[j] /\ t[k] = t[i] /\ t[j] \notin cdDispatch'[t[i]].overlapped
      BY <2>2 DEF t
    <3>3. i \in DOMAIN s
      BY <3>1, <3>2
    <3>4. s[i] \in Events /\ t[i] = s[i]
      BY <3>1, <3>3
    <3>5. CASE j = N
      <4>1. k # N
        BY <3>1, <3>2, <3>5
      <4> QED BY <3>1, <3>2, <3>5, <4>1
    <3>6. CASE j \in DOMAIN s /\ k \in DOMAIN s
      <4>1. s[j] \notin cdDispatch[s[i]].overlapped
        BY <1>4, <3>1, <3>2, <3>4, <3>6
      <4>2. s[i] # s[j] /\ s[k] = s[i]
        BY <3>1, <3>2, <3>3, <3>6
      <4>3. \A x, y \in DOMAIN s :
              x < y /\ s[x] # s[y] /\ s[y] \notin cdDispatch[s[x]].overlapped
              => \A z \in DOMAIN s : s[z] = s[x] => z < y
        BY DEF HooksInv, OrderKeptUnlessOverlapping, s
      <4> QED BY <3>2, <3>3, <3>6, <4>1, <4>2, <4>3
    <3>7. CASE j \in DOMAIN s /\ k = N
      <4>1. s[i] = e /\ s[j] # e /\ s[j] \in Events /\ s[j] \notin cdDispatch[e].overlapped
        BY <1>4, <3>1, <3>2, <3>3, <3>4, <3>7
      <4>2. i \in CopiesOf(s, e) /\ j \in CopiesOf(s, s[j])
        BY <3>3, <3>7, <4>1 DEF CopiesOf
      <4>3. cdDispatch[s[j]] # NewDispatch
        BY <4>1, <4>2 DEF HooksInv, s
      <4>4. j < i
        BY <4>1, <4>2, <4>3 DEF HooksInv, s
      <4> QED BY <3>1, <3>2, <3>3, <3>7, <4>4
    <3> QED BY <3>1, <3>2, <3>5, <3>6, <3>7
  <2> QED BY <2>1, <2>2
<1> QED BY <1>4, <1>5, <1>6

LEMMA HookTold ==
  ASSUME HooksInv, NEW e \in Events, NEW n \in 1..MaxHooks, Target(e, n)
  PROVE  /\ cdDispatch[e] # NewDispatch /\ cdDispatch[e] \in Dispatch
         /\ cdDispatch[e].state = "sending" /\ n \in cdDispatch[e].hooks
         /\ \A m \in cdDispatch[e].hooks : m # n => CopiesOf(cdReceived[m], e) = {}
         /\ n \in DOMAIN cdRegistered /\ cdRegistered[n].scope = e.scope
         /\ Copies(cdReceived[n], e) \in Nat /\ Copies(cdReceived[n], e) <= cdDispatch[e].attempts
<1>1. /\ cdDispatch[e].state = "sending" /\ n \in cdDispatch[e].hooks
      /\ \A m \in cdDispatch[e].hooks : n <= m
  BY DEF Target
<1>2. cdDispatch[e] # NewDispatch /\ cdDispatch[e] \in Dispatch
  BY <1>1 DEF HooksInv, NewDispatch
<1>3. Told(cdDispatch[e], e, cdReceived, cdRegistered)
  BY <1>2 DEF HooksInv
<1>4. ASSUME NEW m \in cdDispatch[e].hooks, m # n PROVE CopiesOf(cdReceived[m], e) = {}
  <2>1. m \in 1..MaxHooks
    BY <1>2 DEF Dispatch
  <2>2. n < m
    BY <1>1, <1>4, <2>1
  <2> QED BY <1>1, <1>3, <2>2 DEF Told
<1>5. Copies(cdReceived[n], e) \in Nat
  BY CopiesTyped DEF HooksInv
<1> QED BY <1>1, <1>2, <1>3, <1>4, <1>5 DEF Told

\* What a hook that another dispatch told received of the event b is as it was.
LEMMA OthersTold ==
  ASSUME HooksInv, NEW e \in Events, NEW n \in 1..MaxHooks,
         cdReceived' = [cdReceived EXCEPT ![n] = Append(@, e)] \/ cdReceived' = cdReceived
  PROVE  /\ cdReceived' \in [1..MaxHooks -> Seq(Events)]
         /\ \A m \in 1..MaxHooks : \A b \in Events :
              b # e \/ m # n => CopiesOf(cdReceived'[m], b) = CopiesOf(cdReceived[m], b)
         /\ \A b \in Events : b # e /\ cdDispatch[b] # NewDispatch =>
              Told(cdDispatch[b], b, cdReceived', cdRegistered)
<1>1. cdReceived[n] \in Seq(Events)
  BY DEF HooksInv
<1>2. Append(cdReceived[n], e) \in Seq(Events)
  BY <1>1
<1>3. cdReceived' \in [1..MaxHooks -> Seq(Events)]
  BY <1>2 DEF HooksInv
<1>4. ASSUME NEW m \in 1..MaxHooks, NEW b \in Events, b # e \/ m # n
      PROVE  CopiesOf(cdReceived'[m], b) = CopiesOf(cdReceived[m], b)
  <2>1. CASE cdReceived'[m] = cdReceived[m]
    BY <2>1
  <2>2. CASE m = n /\ cdReceived'[n] = Append(cdReceived[n], e)
    BY <1>1, <1>4, <2>2, OneMoreCopy
  <2> QED BY <2>1, <2>2 DEF HooksInv
<1>5. ASSUME NEW b \in Events, b # e, cdDispatch[b] # NewDispatch
      PROVE  Told(cdDispatch[b], b, cdReceived', cdRegistered)
  <2>1. cdDispatch[b] \in Dispatch /\ Told(cdDispatch[b], b, cdReceived, cdRegistered)
    BY <1>5 DEF HooksInv
  <2>2. \A m \in 1..MaxHooks : /\ CopiesOf(cdReceived'[m], b) = CopiesOf(cdReceived[m], b)
                               /\ Copies(cdReceived'[m], b) = Copies(cdReceived[m], b)
    BY <1>4, <1>5 DEF Copies
  <2>3. \A m \in cdDispatch[b].hooks : m \in 1..MaxHooks
    BY <2>1 DEF Dispatch
  <2>4. \A i \in DOMAIN cdDispatch[b].results : cdDispatch[b].results[i].hook \in 1..MaxHooks
    <3>1. cdDispatch[b].results \in Seq(Result)
      BY <2>1 DEF Dispatch
    <3>2. \A i \in DOMAIN cdDispatch[b].results : cdDispatch[b].results[i] \in Result
      BY <3>1
    <3> QED BY <3>2 DEF Result
  <2> QED BY <2>1, <2>2, <2>3, <2>4 DEF Told
<1> QED BY <1>3, <1>4, <1>5

\* One step of a dispatch under way, which leaves the others as they are.
LEMMA SendingStep ==
  ASSUME HooksInv, NEW e \in Events, NEW n \in 1..MaxHooks,
         cdDispatch[e].state = "sending",
         cdReceived' = [cdReceived EXCEPT ![n] = Append(@, e)] \/ cdReceived' = cdReceived,
         NEW d \in Dispatch, d.state = "sending", d.overlapped = cdDispatch[e].overlapped,
         cdDispatch' = [cdDispatch EXCEPT ![e] = d],
         Told(d, e, cdReceived', cdRegistered), cdRegistered' = cdRegistered
  PROVE  HooksInv'
<1>1. /\ cdDispatch' \in [Events -> {NewDispatch} \cup Dispatch] /\ cdDispatch'[e] = d
      /\ \A b \in Events : b # e => cdDispatch'[b] = cdDispatch[b]
  BY DEF HooksInv
<1>2. d # NewDispatch /\ cdDispatch[e] # NewDispatch
  BY DEF NewDispatch
<1>3. /\ cdReceived' \in [1..MaxHooks -> Seq(Events)]
      /\ \A m \in 1..MaxHooks : \A b \in Events :
           b # e \/ m # n => CopiesOf(cdReceived'[m], b) = CopiesOf(cdReceived[m], b)
      /\ \A b \in Events : b # e /\ cdDispatch[b] # NewDispatch =>
           Told(cdDispatch[b], b, cdReceived', cdRegistered)
  BY OthersTold
<1>4. \A a \in Events : \A m \in 1..MaxHooks :
        cdDispatch'[a] = NewDispatch => CopiesOf(cdReceived'[m], a) = {}
  BY <1>1, <1>2, <1>3 DEF HooksInv
<1>5. \A a \in Events : cdDispatch'[a] # NewDispatch =>
        Told(cdDispatch'[a], a, cdReceived', cdRegistered')
  BY <1>1, <1>3
<1>6. \A a, b \in Events :
        a # b /\ cdDispatch'[a].state = "sending" /\ cdDispatch'[b].state = "sending"
        => b \in cdDispatch'[a].overlapped
  <2>1. \A a \in Events : /\ cdDispatch'[a].state = "sending" <=> cdDispatch[a].state = "sending"
                          /\ cdDispatch'[a].overlapped = cdDispatch[a].overlapped
    BY <1>1
  <2> QED BY <2>1 DEF HooksInv
<1>7. /\ \A a, b \in Events : \A m \in 1..MaxHooks :
            /\ a # b /\ cdDispatch'[a].state = "sending"
            /\ cdDispatch'[b] # NewDispatch /\ b \notin cdDispatch'[a].overlapped
            => \A i \in CopiesOf(cdReceived'[m], a), j \in CopiesOf(cdReceived'[m], b) : j < i
      /\ OrderKeptUnlessOverlapping'
  <2>1. CASE cdReceived' = [cdReceived EXCEPT ![n] = Append(@, e)]
    BY <1>1, <2>1, ReceivedInOrder
  <2>2. CASE cdReceived' = cdReceived
    <3>1. \A a \in Events : /\ cdDispatch'[a].state = "sending" <=> cdDispatch[a].state = "sending"
                            /\ cdDispatch'[a].overlapped = cdDispatch[a].overlapped
                            /\ cdDispatch'[a] # NewDispatch => cdDispatch[a] # NewDispatch
      BY <1>1, <1>2
    <3>2. \A a, b \in Events : \A m \in 1..MaxHooks :
            /\ a # b /\ cdDispatch'[a].state = "sending"
            /\ cdDispatch'[b] # NewDispatch /\ b \notin cdDispatch'[a].overlapped
            => \A i \in CopiesOf(cdReceived'[m], a), j \in CopiesOf(cdReceived'[m], b) : j < i
      BY <2>2, <3>1 DEF HooksInv
    <3>3. \A m \in 1..MaxHooks : \A i \in DOMAIN cdReceived[m] : cdReceived[m][i] \in Events
      BY DEF HooksInv
    <3>4. OrderKeptUnlessOverlapping'
      BY <2>2, <3>1, <3>3 DEF HooksInv, OrderKeptUnlessOverlapping
    <3> QED BY <3>2, <3>4
  <2> QED BY <2>1, <2>2
<1> QED BY <1>1, <1>3, <1>4, <1>5, <1>6, <1>7 DEF HooksInv

LEMMA ProceedIs ==
  ASSUME NEW c \in Dispatch, NEW n, NEW success,
         NEW results, results = Append(c.results, [hook |-> n, success |-> success,
                                                   attempts |-> c.attempts + 1])
  PROVE  Proceed(c, n, success) = [state |-> c.state, hooks |-> c.hooks \ {n}, attempts |-> 0,
                                   results |-> results, overlapped |-> c.overlapped]
<1>1. Proceed(c, n, success) = [c EXCEPT !.hooks = @ \ {n}, !.attempts = 0, !.results = results]
  BY DEF Proceed
<1> QED BY <1>1 DEF Dispatch

\* The dispatch of e goes on to its next hook.
LEMMA ProceedTold ==
  ASSUME HooksInv, NEW e \in Events, NEW n \in 1..MaxHooks, Target(e, n), NEW success \in BOOLEAN,
         cdReceived' = [cdReceived EXCEPT ![n] = Append(@, e)] \/ cdReceived' = cdReceived,
         success => Copies(cdReceived'[n], e) \in 1..(cdDispatch[e].attempts + 1),
         ~success => cdDispatch[e].attempts + 1 = MaxRetries + 1
  PROVE  /\ Proceed(cdDispatch[e], n, success) \in Dispatch
         /\ Proceed(cdDispatch[e], n, success).state = "sending"
         /\ Proceed(cdDispatch[e], n, success).overlapped = cdDispatch[e].overlapped
         /\ Told(Proceed(cdDispatch[e], n, success), e, cdReceived', cdRegistered)
<1> DEFINE c == cdDispatch[e]
           r == [hook |-> n, success |-> success, attempts |-> c.attempts + 1]
           d == Proceed(c, n, success)
<1>1. /\ c # NewDispatch /\ c \in Dispatch /\ c.state = "sending" /\ n \in c.hooks
      /\ \A m \in c.hooks : m # n => CopiesOf(cdReceived[m], e) = {}
      /\ n \in DOMAIN cdRegistered /\ cdRegistered[n].scope = e.scope
  BY HookTold
<1>2. Told(c, e, cdReceived, cdRegistered)
  BY <1>1 DEF HooksInv
<1>3. \A m \in 1..MaxHooks : m # n => CopiesOf(cdReceived'[m], e) = CopiesOf(cdReceived[m], e)
  BY OthersTold
<1>4. /\ c.hooks \subseteq 1..MaxHooks /\ c.attempts \in 0..MaxRetries
      /\ c.results \in Seq(Result) /\ c.overlapped \subseteq Events
  BY <1>1 DEF Dispatch
<1>5. r \in Result
  BY <1>4 DEF Result
<1>6. d = [state |-> "sending", hooks |-> c.hooks \ {n}, attempts |-> 0,
           results |-> Append(c.results, r), overlapped |-> c.overlapped]
  <2>1. c \in Dispatch /\ c.state = "sending"
    BY <1>1
  <2> HIDE DEF c
  <2>2. d = [state |-> c.state, hooks |-> c.hooks \ {n}, attempts |-> 0,
             results |-> Append(c.results, r), overlapped |-> c.overlapped]
    BY <2>1, ProceedIs
  <2> QED BY <2>1, <2>2
<1>7. /\ d.state = "sending" /\ d.hooks = c.hooks \ {n} /\ d.attempts = 0
      /\ d.results = Append(c.results, r) /\ d.overlapped = c.overlapped
  BY <1>6
<1>8. Append(c.results, r) \in Seq(Result)
  BY <1>4, <1>5
<1>9. d \in Dispatch
  BY <1>4, <1>6, <1>8 DEF Dispatch
<1> HIDE DEF c, d
<1>10. ASSUME NEW m \in d.hooks
       PROVE  /\ m \in DOMAIN cdRegistered /\ cdRegistered[m].scope = e.scope
              /\ CopiesOf(cdReceived'[m], e) = {}
              /\ Copies(cdReceived'[m], e) <= d.attempts
  <2>1. m \in c.hooks /\ m # n /\ m \in 1..MaxHooks
    BY <1>4, <1>7, <1>10
  <2>2. CopiesOf(cdReceived'[m], e) = {}
    BY <1>1, <1>3, <2>1
  <2>3. Copies(cdReceived'[m], e) = 0
    BY <2>2, FS_EmptySet DEF Copies
  <2> QED BY <1>2, <1>7, <2>1, <2>2, <2>3 DEF Told
<1>11. ASSUME NEW i \in DOMAIN d.results
       PROVE  LET q == d.results[i]
              IN  /\ q.success => Copies(cdReceived'[q.hook], e) \in 1..q.attempts
                  /\ ~q.success => q.attempts = MaxRetries + 1
                  /\ q.hook \in DOMAIN cdRegistered /\ cdRegistered[q.hook].scope = e.scope
                  /\ q.hook \notin d.hooks
  <2>1. CASE i \in DOMAIN c.results
    <3>1. d.results[i] = c.results[i] /\ c.results[i] \in Result
      BY <1>4, <1>5, <1>7, <2>1
    <3>2. c.results[i].hook \in 1..MaxHooks /\ c.results[i].hook \notin c.hooks
      BY <1>2, <2>1, <3>1 DEF Told, Result
    <3>3. Copies(cdReceived'[c.results[i].hook], e) = Copies(cdReceived[c.results[i].hook], e)
      BY <1>1, <1>3, <3>2 DEF Copies
    <3> QED BY <1>2, <1>7, <2>1, <3>1, <3>2, <3>3 DEF Told
  <2>2. CASE i = Len(c.results) + 1
    <3>1. d.results[i] = r
      BY <1>4, <1>5, <1>7, <2>2
    <3>2. n \notin d.hooks
      BY <1>7
    <3> QED BY <1>1, <3>1, <3>2 DEF c
  <2>3. i \in DOMAIN c.results \/ i = Len(c.results) + 1
    BY <1>4, <1>5, <1>7
  <2> QED BY <2>1, <2>2, <2>3
<1>12. Told(d, e, cdReceived', cdRegistered)
  BY <1>10, <1>11 DEF Told
<1> QED BY <1>7, <1>9, <1>12 DEF c, d

LEMMA RegisterKeeps ==
  ASSUME HooksInv, NEW h \in Hooks, Register(h)
  PROVE  HooksInv'
<1>1. /\ cdRegistered \in Seq(Hooks) /\ cdRegistered' = Append(cdRegistered, h)
      /\ Len(cdRegistered) < MaxHooks /\ UNCHANGED <<cdDispatch, cdReceived>>
  BY DEF HooksInv, Register
<1>2. /\ cdRegistered' \in Seq(Hooks) /\ Len(cdRegistered') <= MaxHooks
      /\ \A n \in DOMAIN cdRegistered : n \in DOMAIN cdRegistered' /\ cdRegistered'[n] = cdRegistered[n]
  BY <1>1
<1>3. ASSUME NEW e \in Events, cdDispatch[e] # NewDispatch
      PROVE  Told(cdDispatch[e], e, cdReceived, cdRegistered')
  <2>1. Told(cdDispatch[e], e, cdReceived, cdRegistered)
    BY <1>3 DEF HooksInv
  <2> DEFINE d == cdDispatch[e]
  <2>2. Told(d, e, cdReceived, cdRegistered)
    BY <2>1
  <2> HIDE DEF d
  <2>3. Told(d, e, cdReceived, cdRegistered')
    <3>1. ASSUME NEW n \in d.hooks
          PROVE  /\ n \in DOMAIN cdRegistered' /\ cdRegistered'[n].scope = e.scope
                 /\ Copies(cdReceived[n], e) <= d.attempts
                 /\ (\E m \in d.hooks : m < n) => CopiesOf(cdReceived[n], e) = {}
      <4>1. /\ n \in DOMAIN cdRegistered /\ cdRegistered[n].scope = e.scope
            /\ Copies(cdReceived[n], e) <= d.attempts
        BY <2>2 DEF Told
      <4>2. (\E m \in d.hooks : m < n) => CopiesOf(cdReceived[n], e) = {}
        BY <2>2 DEF Told
      <4> QED BY <1>2, <4>1, <4>2
    <3>2. ASSUME NEW i \in DOMAIN d.results
          PROVE  LET r == d.results[i]
                 IN  /\ r.success => Copies(cdReceived[r.hook], e) \in 1..r.attempts
                     /\ ~r.success => r.attempts = MaxRetries + 1
                     /\ r.hook \in DOMAIN cdRegistered' /\ cdRegistered'[r.hook].scope = e.scope
                     /\ r.hook \notin d.hooks
      BY <1>2, <2>2 DEF Told
    <3> QED BY <3>1, <3>2 DEF Told
  <2> QED BY <2>3 DEF d
<1>4. \A e \in Events : cdDispatch'[e] # NewDispatch =>
                             Told(cdDispatch'[e], e, cdReceived', cdRegistered')
  BY <1>1, <1>3
<1>5. OrderKeptUnlessOverlapping'
  BY <1>1 DEF HooksInv, OrderKeptUnlessOverlapping
<1> QED BY <1>1, <1>2, <1>4, <1>5 DEF HooksInv

LEMMA StartKeeps ==
  ASSUME HooksInv, NEW e \in Events, StartDispatch(e)
  PROVE  HooksInv'
<1> DEFINE Busy == {f \in Events : cdDispatch[f].state = "sending"}
           d0 == [state |-> "sending", hooks |-> Listed(e.scope), attempts |-> 0,
                  results |-> <<>>, overlapped |-> Busy]
<1>1. /\ cdDispatch[e].state = "new" /\ UNCHANGED <<cdRegistered, cdReceived>>
      /\ cdDispatch' = [d \in Events |->
           IF d = e THEN d0
           ELSE IF cdDispatch[d].state = "sending"
           THEN [cdDispatch[d] EXCEPT !.overlapped = @ \cup {e}] ELSE cdDispatch[d]]
  BY DEF StartDispatch
<1>2. cdDispatch[e] = NewDispatch
  BY <1>1 DEF HooksInv, Dispatch
<1>3. d0 \in Dispatch /\ d0 # NewDispatch
  BY DEF Dispatch, Listed, HooksInv, NewDispatch
<1>4. \A n \in 1..MaxHooks : CopiesOf(cdReceived[n], e) = {}
  BY <1>2 DEF HooksInv
\* What became of the others.
<1>5. ASSUME NEW b \in Events, b # e
      PROVE  /\ cdDispatch'[b] \in {NewDispatch} \cup Dispatch
             /\ cdDispatch'[b] = NewDispatch <=> cdDispatch[b] = NewDispatch
             /\ cdDispatch'[b] # NewDispatch =>
                  /\ cdDispatch'[b].state = cdDispatch[b].state
                  /\ cdDispatch'[b].hooks = cdDispatch[b].hooks
                  /\ cdDispatch'[b].attempts = cdDispatch[b].attempts
                  /\ cdDispatch'[b].results = cdDispatch[b].results
                  /\ cdDispatch'[b].overlapped = IF cdDispatch[b].state = "sending"
                                                 THEN cdDispatch[b].overlapped \cup {e}
                                                 ELSE cdDispatch[b].overlapped
  <2>1. CASE cdDispatch[b].state = "sending"
    <3>1. cdDispatch'[b] = [cdDispatch[b] EXCEPT !.overlapped = @ \cup {e}]
      BY <1>1, <1>5, <2>1
    <3>2. cdDispatch[b] # NewDispatch /\ cdDispatch[b] \in Dispatch
      BY <2>1 DEF HooksInv, NewDispatch
    <3> DEFINE c == cdDispatch[b]
    <3>3. cdDispatch'[b] = [state |-> c.state, hooks |-> c.hooks, attempts |-> c.attempts,
                            results |-> c.results, overlapped |-> c.overlapped \cup {e}]
      BY <3>1, <3>2 DEF Dispatch
    <3>4. cdDispatch'[b] \in Dispatch
      BY <3>2, <3>3 DEF Dispatch
    <3>5. cdDispatch'[b] # NewDispatch
      BY <2>1, <3>3 DEF NewDispatch
    <3> QED BY <2>1, <3>2, <3>3, <3>4, <3>5
  <2>2. CASE cdDispatch[b].state # "sending"
    <3>1. cdDispatch'[b] = cdDispatch[b]
      BY <1>1, <1>5, <2>2
    <3> QED BY <2>2, <3>1 DEF HooksInv
  <2> QED BY <2>1, <2>2
<1>6. cdDispatch'[e] = d0
  BY <1>1
<1>7. cdDispatch' \in [Events -> {NewDispatch} \cup Dispatch]
  <2>1. \A b \in Events : cdDispatch'[b] \in {NewDispatch} \cup Dispatch
    BY <1>3, <1>5, <1>6
  <2>2. cdDispatch' = [b \in Events |-> cdDispatch'[b]]
    BY <1>1
  <2> HIDE DEF d0
  <2> QED BY <2>1, <2>2
<1> HIDE DEF d0
<1>8. \A b \in Events : \A n \in 1..MaxHooks :
        cdDispatch'[b] = NewDispatch => CopiesOf(cdReceived'[n], b) = {}
  BY <1>1, <1>3, <1>5, <1>6 DEF HooksInv
<1>9. ASSUME NEW b \in Events, cdDispatch'[b] # NewDispatch
      PROVE  Told(cdDispatch'[b], b, cdReceived', cdRegistered')
  <2>1. CASE b = e
    <3>1. /\ d0.hooks = Listed(e.scope) /\ d0.attempts = 0 /\ d0.results = <<>>
      BY DEF d0
    <3>2. \A n \in d0.hooks : /\ n \in DOMAIN cdRegistered /\ cdRegistered[n].scope = e.scope
                              /\ n \in 1..MaxHooks
      BY <3>1 DEF Listed, HooksInv
    <3>3. \A n \in d0.hooks : CopiesOf(cdReceived[n], e) = {} /\ Copies(cdReceived[n], e) = 0
      BY <1>4, <3>2, FS_EmptySet DEF Copies
    <3>4. Told(d0, e, cdReceived, cdRegistered)
      BY <3>1, <3>2, <3>3 DEF Told
    <3> QED BY <1>1, <1>6, <2>1, <3>4
  <2>2. CASE b # e
    <3>1. Told(cdDispatch[b], b, cdReceived, cdRegistered)
      BY <1>5, <1>9, <2>2 DEF HooksInv
    <3>2. /\ cdDispatch'[b].hooks = cdDispatch[b].hooks
          /\ cdDispatch'[b].attempts = cdDispatch[b].attempts
          /\ cdDispatch'[b].results = cdDispatch[b].results
      BY <1>5, <1>9, <2>2
    <3>3. Told(cdDispatch'[b], b, cdReceived, cdRegistered)
      BY <3>1, <3>2, SameTold
    <3> QED BY <1>1, <3>3
  <2> QED BY <2>1, <2>2
<1>10. ASSUME NEW a \in Events, NEW b \in Events, a # b,
              cdDispatch'[a].state = "sending", cdDispatch'[b].state = "sending"
       PROVE  b \in cdDispatch'[a].overlapped
  <2>1. cdDispatch'[a] # NewDispatch /\ cdDispatch'[b] # NewDispatch
    BY <1>10 DEF NewDispatch
  <2>2. CASE a = e
    <3>1. cdDispatch[b].state = "sending"
      BY <1>5, <1>10, <2>1, <2>2
    <3> QED BY <1>6, <2>2, <3>1 DEF d0
  <2>3. CASE b = e
    BY <1>5, <1>10, <2>1, <2>3
  <2>4. CASE a # e /\ b # e
    BY <1>5, <1>10, <2>1, <2>4 DEF HooksInv
  <2> QED BY <2>2, <2>3, <2>4
<1>11. ASSUME NEW a \in Events, NEW b \in Events, NEW n \in 1..MaxHooks, a # b,
              cdDispatch'[a].state = "sending", cdDispatch'[b] # NewDispatch,
              b \notin cdDispatch'[a].overlapped,
              NEW i \in CopiesOf(cdReceived'[n], a), NEW j \in CopiesOf(cdReceived'[n], b)
       PROVE  j < i
  <2>1. a # e /\ b # e
    BY <1>1, <1>4
  <2>2. cdDispatch'[a] # NewDispatch
    BY <1>11 DEF NewDispatch
  <2>3. /\ cdDispatch[a].state = "sending" /\ cdDispatch[b] # NewDispatch
        /\ b \notin cdDispatch[a].overlapped
    BY <1>5, <1>11, <2>1, <2>2
  <2> QED BY <1>1, <1>11, <2>3 DEF HooksInv
<1>12. OrderKeptUnlessOverlapping'
  <2> SUFFICES ASSUME NEW h \in 1..MaxHooks,
                      NEW i \in DOMAIN cdReceived[h], NEW j \in DOMAIN cdReceived[h],
                      i < j, cdReceived[h][i] # cdReceived[h][j],
                      cdReceived[h][j] \notin cdDispatch'[cdReceived[h][i]].overlapped,
                      NEW k \in DOMAIN cdReceived[h], cdReceived[h][k] = cdReceived[h][i]
               PROVE  k < j
    BY <1>1 DEF OrderKeptUnlessOverlapping
  <2> DEFINE a == cdReceived[h][i]
             b == cdReceived[h][j]
  <2>1. a \in Events /\ b \in Events
    BY DEF HooksInv
  <2>2. i \in CopiesOf(cdReceived[h], a)
    BY DEF CopiesOf
  <2>3. a # e /\ cdDispatch[a] # NewDispatch
    BY <1>4, <2>1, <2>2 DEF HooksInv
  <2>4. b \notin cdDispatch[a].overlapped
    BY <1>5, <2>1, <2>3
  <2>5. \A x, y \in DOMAIN cdReceived[h] :
          /\ x < y /\ cdReceived[h][x] # cdReceived[h][y]
          /\ cdReceived[h][y] \notin cdDispatch[cdReceived[h][x]].overlapped
          => \A z \in DOMAIN cdReceived[h] : cdReceived[h][z] = cdReceived[h][x] => z < y
    BY DEF HooksInv, OrderKeptUnlessOverlapping
  <2> QED BY <2>4, <2>5
<1>13. cdRegistered' \in Seq(Hooks) /\ Len(cdRegistered') <= MaxHooks
       /\ cdReceived' \in [1..MaxHooks -> Seq(Events)]
  BY <1>1 DEF HooksInv
<1> QED BY <1>7, <1>8, <1>9, <1>10, <1>11, <1>12, <1>13 DEF HooksInv

LEMMA SentKeeps ==
  ASSUME HooksInv, NEW e \in Events, NEW n \in 1..MaxHooks, Sent(e, n)
  PROVE  HooksInv'
<1>1. /\ Target(e, n) /\ cdReceived' = [cdReceived EXCEPT ![n] = Append(@, e)]
      /\ cdDispatch' = [cdDispatch EXCEPT ![e] = Proceed(cdDispatch[e], n, TRUE)]
      /\ cdRegistered' = cdRegistered
  BY DEF Sent
<1>2. /\ cdDispatch[e].state = "sending" /\ cdDispatch[e] \in Dispatch
      /\ Copies(cdReceived[n], e) \in Nat /\ Copies(cdReceived[n], e) <= cdDispatch[e].attempts
  BY <1>1, HookTold
<1>3. cdReceived[n] \in Seq(Events) /\ cdReceived'[n] = Append(cdReceived[n], e)
  BY <1>1 DEF HooksInv
<1>4. Copies(cdReceived'[n], e) = Copies(cdReceived[n], e) + 1
  BY <1>3, OneMoreCopy
<1>5. Copies(cdReceived'[n], e) \in 1..(cdDispatch[e].attempts + 1)
  <2>1. cdDispatch[e].attempts \in Nat
    BY <1>2 DEF Dispatch
  <2> QED BY <1>2, <1>4, <2>1
<1> DEFINE d == Proceed(cdDispatch[e], n, TRUE)
<1>6. /\ d \in Dispatch /\ d.state = "sending" /\ d.overlapped = cdDispatch[e].overlapped
      /\ Told(d, e, cdReceived', cdRegistered)
  BY <1>1, <1>5, ProceedTold
<1> HIDE DEF d
<1>7. cdDispatch' = [cdDispatch EXCEPT ![e] = d]
  BY <1>1 DEF d
<1> QED BY <1>1, <1>2, <1>6, <1>7, SendingStep

LEMMA SendFailsKeeps ==
  ASSUME HooksInv, NEW e \in Events, NEW n \in 1..MaxHooks, NEW reached \in BOOLEAN,
         SendFails(e, n, reached)
  PROVE  HooksInv'
<1>1. /\ Target(e, n) /\ cdRegistered' = cdRegistered
      /\ cdReceived' = [cdReceived EXCEPT ![n] = Append(@, e)] \/ cdReceived' = cdReceived
  BY DEF SendFails
<1>2. /\ cdDispatch[e].state = "sending" /\ cdDispatch[e] \in Dispatch /\ cdDispatch[e] # NewDispatch
      /\ n \in cdDispatch[e].hooks
      /\ Copies(cdReceived[n], e) \in Nat /\ Copies(cdReceived[n], e) <= cdDispatch[e].attempts
  BY <1>1, HookTold
<1>3. cdDispatch[e].attempts \in 0..MaxRetries
  BY <1>2 DEF Dispatch
<1>4. CASE GivesUp(cdDispatch[e].attempts)
  <2> DEFINE d == Proceed(cdDispatch[e], n, FALSE)
  <2>1. cdDispatch' = [cdDispatch EXCEPT ![e] = Proceed(cdDispatch[e], n, FALSE)]
    BY <1>4 DEF SendFails
  <2>2. cdDispatch[e].attempts + 1 = MaxRetries + 1
    BY <1>3, <1>4 DEF GivesUp
  <2>3. /\ d \in Dispatch /\ d.state = "sending" /\ d.overlapped = cdDispatch[e].overlapped
        /\ Told(d, e, cdReceived', cdRegistered)
    BY <1>1, <2>2, ProceedTold
  <2> HIDE DEF d
  <2>4. cdDispatch' = [cdDispatch EXCEPT ![e] = d]
    BY <2>1 DEF d
  <2> QED BY <1>1, <1>2, <2>3, <2>4, SendingStep
<1>5. CASE ~GivesUp(cdDispatch[e].attempts)
  <2> DEFINE c == cdDispatch[e]
             d == [state |-> c.state, hooks |-> c.hooks, attempts |-> c.attempts + 1,
                   results |-> c.results, overlapped |-> c.overlapped]
  <2>1. cdDispatch' = [cdDispatch EXCEPT ![e] = Retried(cdDispatch[e])]
    BY <1>5 DEF SendFails
  <2>2. Retried(cdDispatch[e]) = d
    BY <1>2 DEF Dispatch, Retried
  <2>3. c.attempts + 1 \in 0..MaxRetries
    BY <1>3, <1>5 DEF GivesUp
  <2>4. d \in Dispatch
    BY <1>2, <2>3 DEF Dispatch
  <2>5. Told(c, e, cdReceived, cdRegistered)
    BY <1>2 DEF HooksInv
  <2>6. /\ d.state = "sending" /\ d.overlapped = c.overlapped /\ d.hooks = c.hooks
        /\ d.results = c.results /\ d.attempts = c.attempts + 1
    BY <1>2
  <2>7. \A m \in 1..MaxHooks : m # n => CopiesOf(cdReceived'[m], e) = CopiesOf(cdReceived[m], e)
    BY <1>1, OthersTold
  <2>8. Copies(cdReceived'[n], e) <= d.attempts
    <3>1. CASE cdReceived' = cdReceived
      BY <1>2, <1>3, <2>6, <3>1
    <3>2. CASE cdReceived' = [cdReceived EXCEPT ![n] = Append(@, e)]
      <4>1. cdReceived[n] \in Seq(Events) /\ cdReceived'[n] = Append(cdReceived[n], e)
        BY <3>2 DEF HooksInv
      <4>2. Copies(cdReceived'[n], e) = Copies(cdReceived[n], e) + 1
        BY <4>1, OneMoreCopy
      <4> QED BY <1>2, <1>3, <2>6, <4>2
    <3> QED BY <1>1, <3>1, <3>2
  <2>9. c.hooks \subseteq 1..MaxHooks /\ c.results \in Seq(Result)
    BY <1>2 DEF Dispatch
  <2> HIDE DEF c, d
  <2>10. ASSUME NEW m \in d.hooks
         PROVE  /\ m \in DOMAIN cdRegistered /\ cdRegistered[m].scope = e.scope
                /\ Copies(cdReceived'[m], e) <= d.attempts
                /\ (\E l \in d.hooks : l < m) => CopiesOf(cdReceived'[m], e) = {}
    <3>0. m \in c.hooks /\ m \in 1..MaxHooks /\ n \in 1..MaxHooks
      BY <2>6, <2>9
    <3>1. CASE m = n
      <4>1. \A l \in d.hooks : l \in 1..MaxHooks /\ ~(l < n)
        BY <1>1, <2>6, <2>9 DEF Target, c
      <4> QED BY <2>5, <2>8, <3>0, <3>1, <4>1 DEF Told
    <3>2. CASE m # n
      <4>1. CopiesOf(cdReceived'[m], e) = CopiesOf(cdReceived[m], e)
        BY <2>7, <3>0, <3>2
      <4>2. CopiesOf(cdReceived[m], e) = {}
        BY <1>1, <3>0, <3>2, HookTold DEF c
      <4>3. Copies(cdReceived'[m], e) = 0
        BY <4>1, <4>2, FS_EmptySet DEF Copies
      <4>4. 0 <= d.attempts
        BY <1>3, <2>6 DEF c
      <4> QED BY <2>5, <3>0, <4>1, <4>2, <4>3, <4>4 DEF Told
    <3> QED BY <3>1, <3>2
  <2>11. ASSUME NEW i \in DOMAIN d.results
         PROVE  LET q == d.results[i]
                IN  /\ q.success => Copies(cdReceived'[q.hook], e) \in 1..q.attempts
                    /\ ~q.success => q.attempts = MaxRetries + 1
                    /\ q.hook \in DOMAIN cdRegistered /\ cdRegistered[q.hook].scope = e.scope
                    /\ q.hook \notin d.hooks
    <3>1. i \in DOMAIN c.results /\ d.results[i] = c.results[i] /\ c.results[i] \in Result
      BY <2>6, <2>9
    <3>2. c.results[i].hook \in 1..MaxHooks /\ c.results[i].hook \notin c.hooks
      BY <2>5, <3>1 DEF Told, Result
    <3>3. c.results[i].hook # n
      BY <1>2, <3>2 DEF c
    <3>4. Copies(cdReceived'[c.results[i].hook], e) = Copies(cdReceived[c.results[i].hook], e)
      BY <2>7, <3>2, <3>3 DEF Copies
    <3> QED BY <2>5, <2>6, <3>1, <3>2, <3>4 DEF Told
  <2>12. Told(d, e, cdReceived', cdRegistered)
    BY <2>10, <2>11 DEF Told
  <2>13. cdDispatch' = [cdDispatch EXCEPT ![e] = d] /\ d.overlapped = cdDispatch[e].overlapped
    BY <2>1, <2>2, <2>6 DEF c
  <2> QED BY <1>1, <1>2, <2>4, <2>6, <2>12, <2>13, SendingStep
<1> QED BY <1>4, <1>5

LEMMA DispatchedKeeps ==
  ASSUME HooksInv, NEW e \in Events, Dispatched(e)
  PROVE  HooksInv'
<1> DEFINE c == cdDispatch[e]
           d == [state |-> "done", hooks |-> c.hooks, attempts |-> c.attempts,
                 results |-> c.results, overlapped |-> c.overlapped]
<1>1. /\ c.state = "sending" /\ UNCHANGED <<cdReceived, cdRegistered>>
      /\ cdDispatch' = [cdDispatch EXCEPT ![e].state = "done"]
  BY DEF Dispatched
<1>2. c \in Dispatch /\ c # NewDispatch
  BY <1>1 DEF HooksInv, NewDispatch
<1>3. cdDispatch' = [cdDispatch EXCEPT ![e] = d]
  <2>1. d = [c EXCEPT !.state = "done"]
    BY <1>2 DEF Dispatch
  <2> HIDE DEF d
  <2> QED BY <1>1, <2>1
<1>4. d \in Dispatch /\ d # NewDispatch
  BY <1>2 DEF Dispatch, NewDispatch
<1>5. /\ d.state = "done" /\ d.hooks = c.hooks /\ d.attempts = c.attempts
      /\ d.results = c.results /\ d.overlapped = c.overlapped
  OBVIOUS
<1> HIDE DEF d
<1>6. cdDispatch'[e] = d /\ \A f \in Events : f # e => cdDispatch'[f] = cdDispatch[f]
  BY <1>3 DEF HooksInv
<1>7. cdDispatch' \in [Events -> {NewDispatch} \cup Dispatch]
  BY <1>3, <1>4 DEF HooksInv
<1>8. \A f \in Events : /\ cdDispatch'[f] = NewDispatch <=> cdDispatch[f] = NewDispatch
                        /\ cdDispatch'[f].state = "sending" => cdDispatch[f].state = "sending"
                        /\ cdDispatch'[f] # NewDispatch =>
                             cdDispatch'[f].overlapped = cdDispatch[f].overlapped
  BY <1>2, <1>4, <1>5, <1>6
<1>9. Told(c, e, cdReceived, cdRegistered)
  BY <1>2 DEF HooksInv
<1> HIDE DEF c
<1>10. Told(d, e, cdReceived, cdRegistered)
  BY <1>5, <1>9, SameTold
<1>11. \A f \in Events : cdDispatch'[f] # NewDispatch =>
                          Told(cdDispatch'[f], f, cdReceived', cdRegistered')
  BY <1>1, <1>6, <1>8, <1>10 DEF HooksInv
<1>12. \A a, b \in Events :
         a # b /\ cdDispatch'[a].state = "sending" /\ cdDispatch'[b].state = "sending"
         => b \in cdDispatch'[a].overlapped
  <2> SUFFICES ASSUME NEW a \in Events, NEW b \in Events, a # b,
                      cdDispatch'[a].state = "sending", cdDispatch'[b].state = "sending"
               PROVE  b \in cdDispatch'[a].overlapped
    OBVIOUS
  <2>1. cdDispatch'[a] # NewDispatch
    BY DEF NewDispatch
  <2> QED BY <1>8, <2>1 DEF HooksInv
<1>13. \A a, b \in Events : \A n \in 1..MaxHooks :
         /\ a # b /\ cdDispatch'[a].state = "sending"
         /\ cdDispatch'[b] # NewDispatch /\ b \notin cdDispatch'[a].overlapped
         => \A i \in CopiesOf(cdReceived'[n], a), j \in CopiesOf(cdReceived'[n], b) : j < i
  <2> SUFFICES ASSUME NEW a \in Events, NEW b \in Events, NEW n \in 1..MaxHooks, a # b,
                      cdDispatch'[a].state = "sending", cdDispatch'[b] # NewDispatch,
                      b \notin cdDispatch'[a].overlapped
               PROVE  \A i \in CopiesOf(cdReceived[n], a), j \in CopiesOf(cdReceived[n], b) : j < i
    BY <1>1
  <2>1. cdDispatch'[a] # NewDispatch
    BY DEF NewDispatch
  <2>2. cdDispatch[a].state = "sending" /\ cdDispatch[b] # NewDispatch
        /\ b \notin cdDispatch[a].overlapped
    BY <1>8, <2>1
  <2> QED BY <2>2 DEF HooksInv
<1>14. OrderKeptUnlessOverlapping'
  <2> SUFFICES ASSUME NEW h \in 1..MaxHooks,
                      NEW i \in DOMAIN cdReceived[h], NEW j \in DOMAIN cdReceived[h],
                      i < j, cdReceived[h][i] # cdReceived[h][j],
                      cdReceived[h][j] \notin cdDispatch'[cdReceived[h][i]].overlapped,
                      NEW k \in DOMAIN cdReceived[h], cdReceived[h][k] = cdReceived[h][i]
               PROVE  k < j
    BY <1>1 DEF OrderKeptUnlessOverlapping
  <2> DEFINE a == cdReceived[h][i]
             b == cdReceived[h][j]
  <2>1. a \in Events /\ b \in Events
    BY DEF HooksInv
  <2>2. i \in CopiesOf(cdReceived[h], a)
    BY DEF CopiesOf
  <2>3. cdDispatch[a] # NewDispatch
    BY <2>1, <2>2 DEF HooksInv
  <2>4. b \notin cdDispatch[a].overlapped
    BY <1>8, <2>1, <2>3
  <2>5. \A x, y \in DOMAIN cdReceived[h] :
          /\ x < y /\ cdReceived[h][x] # cdReceived[h][y]
          /\ cdReceived[h][y] \notin cdDispatch[cdReceived[h][x]].overlapped
          => \A z \in DOMAIN cdReceived[h] : cdReceived[h][z] = cdReceived[h][x] => z < y
    BY DEF HooksInv, OrderKeptUnlessOverlapping
  <2> QED BY <2>4, <2>5
<1>15. \A f \in Events : \A n \in 1..MaxHooks :
         cdDispatch'[f] = NewDispatch => CopiesOf(cdReceived'[n], f) = {}
  BY <1>1, <1>8 DEF HooksInv
<1>16. cdRegistered' \in Seq(Hooks) /\ Len(cdRegistered') <= MaxHooks
       /\ cdReceived' \in [1..MaxHooks -> Seq(Events)]
  BY <1>1 DEF HooksInv
<1> QED BY <1>7, <1>11, <1>12, <1>13, <1>14, <1>15, <1>16 DEF HooksInv

LEMMA HooksKeeps ==
  ASSUME HooksInv, [HooksNext]_cdHookVars
  PROVE  HooksInv'
<1>1. CASE UNCHANGED cdHookVars
  <2>1. UNCHANGED <<cdRegistered, cdDispatch, cdReceived>>
    BY <1>1 DEF cdHookVars
  <2>2. OrderKeptUnlessOverlapping'
    BY <2>1 DEF HooksInv, OrderKeptUnlessOverlapping
  <2> QED BY <2>1, <2>2 DEF HooksInv
<1>2. CASE HooksNext
  BY <1>2, RegisterKeeps, StartKeeps, SentKeeps, SendFailsKeeps, DispatchedKeeps DEF HooksNext
<1> QED BY <1>1, <1>2

LEMMA ReportsMatch == HooksInv => ReportsAreTrue
<1> SUFFICES ASSUME HooksInv, NEW e \in Events, cdDispatch[e].state \in {"sending", "done"},
                    NEW i \in DOMAIN cdDispatch[e].results
             PROVE  LET r == cdDispatch[e].results[i]
                        copies == Cardinality({j \in DOMAIN cdReceived[r.hook] : cdReceived[r.hook][j] = e})
                    IN  /\ r.success => copies \in 1..r.attempts
                        /\ ~r.success => r.attempts = MaxRetries + 1
                        /\ cdRegistered[r.hook].scope = e.scope
  BY DEF ReportsAreTrue
<1>1. cdDispatch[e] # NewDispatch
  BY DEF NewDispatch
<1>2. Told(cdDispatch[e], e, cdReceived, cdRegistered)
  BY <1>1 DEF HooksInv
<1> QED BY <1>2 DEF Told, Copies, CopiesOf

(* All three. *)

CdInv == ApiInv /\ LockInv /\ HooksInv

LEMMA CdInitInv == CdInit => CdInv
<1> SUFFICES ASSUME CdInit PROVE CdInv
  OBVIOUS
<1>1. ApiInv
  BY DEF CdInit, ApiInv, ClientStates, OneBirthPerLife, Lives, NoDocument
<1>2. LockInv
  <2>1. cdRecords \in Seq(Record) /\ Creations(cdRecords) = {}
    BY DEF CdInit, Creations
  <2> QED BY <2>1 DEF CdInit, LockInv, Doc, NoNewer, OnlyRecreationLosesUpdates, StoryTold
<1>3. HooksInv
  <2>1. \A n \in 1..MaxHooks : cdReceived[n] = <<>> /\ \A e \in Events : CopiesOf(cdReceived[n], e) = {}
    BY DEF CdInit, CopiesOf
  <2>2. OrderKeptUnlessOverlapping
    BY <2>1 DEF OrderKeptUnlessOverlapping
  <2>3. /\ \A e \in Events : cdDispatch[e] = NewDispatch
        /\ cdDispatch \in [Events -> {NewDispatch} \cup Dispatch]
        /\ cdRegistered = <<>> /\ cdReceived \in [1..MaxHooks -> Seq(Events)]
    BY DEF CdInit, NewDispatch
  <2>4. \A e \in Events : cdDispatch[e].state # "sending"
    BY <2>3 DEF NewDispatch
  <2> QED BY <2>1, <2>2, <2>3, <2>4 DEF HooksInv
<1> QED BY <1>1, <1>2, <1>3 DEF CdInv

LEMMA CdNextInv == CdInv /\ [CdNext]_cdVars => CdInv'
<1> SUFFICES ASSUME CdInv, [CdNext]_cdVars PROVE CdInv'
  OBVIOUS
<1>1. CASE ApiNext
  <2>1. UNCHANGED <<cdLockVars, cdHookVars>> /\ cdWrites' \in Nat
    <3>1. UNCHANGED <<cdLockVars, cdHookVars>>
      <4>1. ASSUME NEW c \in Clients, Unauthorized(c) \/ BodyFails(c)
            PROVE  UNCHANGED <<cdLockVars, cdHookVars>>
        BY <4>1 DEF Unauthorized, BodyFails
      <4>2. ASSUME NEW c \in Clients, NEW valid \in BOOLEAN, BodyArrives(c, valid)
            PROVE  UNCHANGED <<cdLockVars, cdHookVars>>
        BY <4>2 DEF BodyArrives
      <4>3. ASSUME NEW c \in Clients, NEW r \in Routes, NEW m,
                   Read(c, r) \/ DeleteConfig(c, r) \/ StartWrite(c, m, r)
            PROVE  UNCHANGED <<cdLockVars, cdHookVars>>
        BY <4>3 DEF Read, DeleteConfig, StartWrite
      <4>4. ASSUME NEW p \in Paths, EditByHand(p)
            PROVE  UNCHANGED <<cdLockVars, cdHookVars>>
        BY <4>4 DEF EditByHand
      <4> QED BY <1>1, <4>1, <4>2, <4>3, <4>4 DEF ApiNext
    <3>2. ApiInv'
      BY <1>1, ApiKeeps DEF CdInv
    <3> QED BY <3>1, <3>2 DEF ApiInv
  <2>2. LockInv'
    <3>1. UNCHANGED <<cdDocument, cdEditor, cdUpdate, cdRecords>>
      BY <2>1 DEF cdLockVars
    <3>2. OnlyRecreationLosesUpdates'
      BY <3>1 DEF CdInv, LockInv, OnlyRecreationLosesUpdates
    <3> QED BY <2>1, <3>1, <3>2 DEF CdInv, LockInv
  <2> QED BY <1>1, <2>1, <2>2, ApiKeeps, HooksKeeps DEF CdInv
<1>2. CASE LockNext
  <2>1. UNCHANGED <<cdApiVars, cdHookVars>>
    BY <1>2 DEF LockNext, CreateVersioned, GetVersioned, UpdateVersioned
  <2>2. LockInv'
    BY <1>2, LockKeeps DEF CdInv
  <2>3. ApiInv'
    <3>1. UNCHANGED <<cdFiles, cdBirths, cdClient>> /\ cdWrites' \in Nat
      BY <2>1, <2>2 DEF cdApiVars, LockInv
    <3>2. OneBirthPerLife'
      BY <3>1 DEF CdInv, ApiInv, OneBirthPerLife
    <3> QED BY <3>1, <3>2 DEF CdInv, ApiInv
  <2> QED BY <2>1, <2>2, <2>3, HooksKeeps DEF CdInv
<1>3. CASE HooksNext \/ UNCHANGED cdVars
  <2>1. UNCHANGED <<cdApiVars, cdLockVars, cdWrites>> /\ [HooksNext]_cdHookVars
    BY <1>3 DEF HooksNext, Register, StartDispatch, Sent, SendFails, Dispatched, cdVars
  <2>2. ApiInv'
    <3>1. UNCHANGED <<cdFiles, cdBirths, cdClient, cdWrites>>
      BY <2>1 DEF cdApiVars
    <3>2. OneBirthPerLife'
      BY <3>1 DEF CdInv, ApiInv, OneBirthPerLife
    <3> QED BY <3>1, <3>2 DEF CdInv, ApiInv
  <2>3. LockInv'
    <3>1. UNCHANGED <<cdDocument, cdEditor, cdUpdate, cdRecords, cdWrites>>
      BY <2>1 DEF cdLockVars
    <3>2. OnlyRecreationLosesUpdates'
      BY <3>1 DEF CdInv, LockInv, OnlyRecreationLosesUpdates
    <3> QED BY <3>1, <3>2 DEF CdInv, LockInv
  <2> QED BY <2>1, <2>2, <2>3, HooksKeeps DEF CdInv
<1> QED BY <1>1, <1>2, <1>3 DEF CdNext

(* For any clients, editors, hooks and events: a document's births answer its
   file, an update replaces what its author read unless the document was
   created anew, the change records tell the version, and a dispatch reports
   what its hooks received, in order. *)
THEOREM DocumentsKept == CdSpec => []ConfigDocumentsSound
<1>1. CdInv => ConfigDocumentsSound
  BY StoryIsCounted, ReportsMatch DEF CdInv, ApiInv, LockInv, HooksInv, ConfigDocumentsSound
<1> QED BY <1>1, CdInitInv, CdNextInv, PTL DEF CdSpec


(* What is written is a number given to a write. *)
Numbered == /\ cdWrites \in Contents
            /\ \A p \in Paths : cdFiles[p] <= cdWrites
            /\ cdDocument.version <= cdWrites /\ cdDocument.content <= cdWrites

LEMMA NumberedKeeps == CdInv /\ Numbered /\ [CdNext]_cdVars => Numbered'
<1> SUFFICES ASSUME CdInv, Numbered, [CdNext]_cdVars PROVE Numbered'
  OBVIOUS
<1>1. /\ cdWrites \in Nat /\ cdWrites <= MaxWrites /\ cdFiles \in [Paths -> Nat \cup {NoDocument}]
      /\ cdDocument.version \in Nat /\ cdDocument.content \in Nat /\ cdDocument.creation \in Nat
  BY DEF CdInv, ApiInv, LockInv, Numbered, Contents, Doc
<1>2. ASSUME cdWrites' = cdWrites, cdFiles' = cdFiles, cdDocument' = cdDocument PROVE Numbered'
  BY <1>2 DEF Numbered
<1>3. ASSUME cdWrites < MaxWrites, cdWrites' = cdWrites + 1, cdDocument' = cdDocument,
             NEW p \in Paths, NEW content \in {0, NoDocument, cdWrites'},
             cdFiles' = cdFiles \/ cdFiles' = [cdFiles EXCEPT ![p] = content]
      PROVE  Numbered'
  BY <1>1, <1>3 DEF Numbered, Contents, NoDocument
<1>4. ASSUME NEW c \in Clients, Unauthorized(c) \/ BodyFails(c) PROVE Numbered'
  BY <1>2, <1>4 DEF Unauthorized, BodyFails, cdLockVars
<1>5. ASSUME NEW c \in Clients, NEW r \in Routes, Read(c, r) PROVE Numbered'
  BY <1>2, <1>5 DEF Read, cdLockVars
<1>6. ASSUME NEW c \in Clients, NEW r \in Routes, NEW m, StartWrite(c, m, r) PROVE Numbered'
  BY <1>2, <1>6 DEF StartWrite, cdLockVars
<1>7. ASSUME NEW c \in Clients, NEW r \in Routes, DeleteConfig(c, r) PROVE Numbered'
  <2>1. cdWrites' = cdWrites /\ cdDocument' = cdDocument
    BY <1>7 DEF DeleteConfig, cdLockVars
  <2>2. \/ cdFiles' = cdFiles
        \/ HasPath(r) /\ cdFiles' = [cdFiles EXCEPT ![ResolvePath(r)] = NoDocument]
    BY <1>7 DEF DeleteConfig
  <2>3. CASE HasPath(r) /\ cdFiles' = [cdFiles EXCEPT ![ResolvePath(r)] = NoDocument]
    <3>1. ResolvePath(r) \in Paths
      BY <2>3, PathKnown
    <3> QED BY <1>1, <2>1, <2>3, <3>1 DEF Numbered, NoDocument
  <2> QED BY <1>2, <2>1, <2>2, <2>3
<1>8. ASSUME NEW c \in Clients, NEW valid \in BOOLEAN, BodyArrives(c, valid) PROVE Numbered'
  <2> DEFINE p == ResolvePath(cdClient[c].route)
  <2>1. cdWrites < MaxWrites /\ cdWrites' = cdWrites + 1 /\ cdDocument' = cdDocument
    BY <1>8 DEF BodyArrives, cdLockVars
  <2>2. \/ cdFiles' = cdFiles
        \/ HasPath(cdClient[c].route) /\ cdFiles' = [cdFiles EXCEPT ![p] = cdWrites']
    BY <1>8 DEF BodyArrives
  <2>3. CASE cdFiles' = cdFiles
    BY <1>1, <2>1, <2>3 DEF Numbered, Contents, NoDocument
  <2>4. CASE HasPath(cdClient[c].route) /\ cdFiles' = [cdFiles EXCEPT ![p] = cdWrites']
    <3>1. cdClient[c].state = "waiting" /\ cdClient[c] \in ClientStates
      BY <1>8 DEF BodyArrives, CdInv, ApiInv
    <3>2. cdClient[c].route \in Routes
      BY <3>1 DEF ClientStates, IdleClient
    <3>3. p \in Paths
      BY <2>4, <3>2, PathKnown
    <3> QED BY <1>3, <2>1, <2>4, <3>3
  <2> QED BY <2>2, <2>3, <2>4
<1>9. ASSUME NEW p \in Paths, EditByHand(p) PROVE Numbered'
  BY <1>3, <1>9 DEF EditByHand, cdLockVars
<1>10. CASE LockNext
  <2>1. cdFiles' = cdFiles
    BY <1>10 DEF LockNext, CreateVersioned, GetVersioned, UpdateVersioned, cdApiVars
  <2>2. CASE CreateVersioned
    BY <1>1, <2>1, <2>2 DEF CreateVersioned, Numbered, Contents, NoDocument
  <2>3. ASSUME NEW e \in Editors, GetVersioned(e) PROVE Numbered'
    BY <1>2, <2>1, <2>3 DEF GetVersioned
  <2>4. ASSUME NEW e \in Editors, UpdateVersioned(e) PROVE Numbered'
    <3>1. /\ cdWrites < MaxWrites /\ cdWrites' = cdWrites + 1
          /\ \/ cdDocument' = cdDocument
             \/ cdDocument' = [cdDocument EXCEPT !.version = @ + 1, !.content = cdWrites']
      BY <2>4 DEF UpdateVersioned
    <3>2. cdDocument \in Doc
      BY DEF CdInv, LockInv
    <3>3. cdDocument'.version <= cdWrites' /\ cdDocument'.content <= cdWrites'
      <4>1. CASE cdDocument' = cdDocument
        BY <1>1, <3>1, <4>1 DEF Numbered
      <4>2. CASE cdDocument' = [cdDocument EXCEPT !.version = @ + 1, !.content = cdWrites']
        <5>1. cdDocument' = [version |-> cdDocument.version + 1, content |-> cdWrites',
                             creation |-> cdDocument.creation]
          BY <3>2, <4>2 DEF Doc
        <5>2. cdDocument'.version = cdDocument.version + 1 /\ cdDocument'.content = cdWrites'
          BY <5>1
        <5>3. cdDocument.version <= cdWrites
          BY DEF Numbered
        <5> QED BY <1>1, <3>1, <5>2, <5>3
      <4> QED BY <3>1, <4>1, <4>2
    <3> QED BY <1>1, <2>1, <3>1, <3>3 DEF Numbered, Contents, NoDocument
  <2> QED BY <1>10, <2>2, <2>3, <2>4 DEF LockNext
<1>11. CASE HooksNext \/ UNCHANGED cdVars
  <2>1. UNCHANGED <<cdApiVars, cdLockVars, cdWrites>>
    BY <1>11 DEF HooksNext, Register, StartDispatch, Sent, SendFails, Dispatched, cdVars
  <2> QED BY <1>2, <2>1 DEF cdApiVars, cdLockVars
<1>12. CASE ApiNext
  BY <1>12, <1>4, <1>5, <1>6, <1>7, <1>8, <1>9 DEF ApiNext
<1> QED BY <1>10, <1>11, <1>12 DEF CdNext

(* No document holds what nobody wrote. *)
THEOREM DocumentsTypeCorrect == CdSpec => []CdTypeOK
<1>1. CdInit => Numbered
  BY DEF CdInit, Numbered, Contents, NoDocument
<1>2. CdInv /\ Numbered => CdTypeOK
  BY DEF CdInv, ApiInv, LockInv, HooksInv, Numbered, CdTypeOK, Contents, NoDocument, Doc
<1> QED BY <1>1, <1>2, CdInitInv, CdNextInv, NumberedKeeps, PTL DEF CdSpec

=============================================================================
