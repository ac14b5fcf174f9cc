----------------------------- MODULE DocumentTools -----------------------------
(***************************************************************************)
(* The comparison of rendered documents (config-hub/src/diff.ts) and the   *)
(* merge of concurrent edits (auto-merge.ts), as functions of their input. *)
(***************************************************************************)
EXTENDS Questions, Integers, FiniteSets, SequencesExt

CONSTANTS Lines,        \* the lines a content is made of
          DiffLength,   \* bound on the lines of a content
          MergeValues,  \* values of a metadata or an override field
          MostChanges   \* bound on the changes merged at once

ASSUME DocumentAssumption == /\ {DiffLength, MostChanges} \subseteq Nat
                             /\ None \notin MergeValues

-----------------------------------------------------------------------------
(* computeDiff and formatDiff *)

Later(m, n) == IF m > n THEN m ELSE n

(* dp[i][j]: the length of a longest common subsequence of the first i lines
   of a and the first j of b. *)
LcsRow(a, b, i, prevRow) ==
  LET row[j \in 0..Len(b)] == IF j = 0 THEN 0
                              ELSE IF a[i] = b[j] THEN prevRow[j - 1] + 1
                              ELSE Later(prevRow[j], row[j - 1])
  IN  row

LcsTable(a, b) ==
  LET dp[i \in 0..Len(a)] == IF i = 0 THEN [j \in 0..Len(b) |-> 0]
                             ELSE LcsRow(a, b, i, dp[i - 1])
  IN  dp

(* One turn of the loop that finds the subsequence from its end. *)
StepBack(a, b, dp, at) ==
  CASE at.i = 0 \/ at.j = 0 -> at
    [] at.i > 0 /\ at.j > 0 /\ a[at.i] = b[at.j] ->
         [i |-> at.i - 1, j |-> at.j - 1, lcs |-> <<a[at.i]>> \o at.lcs]
    [] OTHER -> IF dp[at.i - 1][at.j] > dp[at.i][at.j - 1] THEN [at EXCEPT !.i = @ - 1]
                ELSE [at EXCEPT !.j = @ - 1]

LongestCommonSubsequence(a, b) ==
  LET dp == LcsTable(a, b)
      back[n \in 0..(Len(a) + Len(b))] ==
        IF n = 0 THEN [i |-> Len(a), j |-> Len(b), lcs |-> <<>>]
        ELSE StepBack(a, b, dp, back[n - 1])
  IN  back[Len(a) + Len(b)].lcs

DiffLine(type, content) == [type |-> type, content |-> content]

(* The next common line is at hand in the old content: it waits for the new. *)
AtHand(a, lcs, at) == at.k < Len(lcs) /\ at.i < Len(a) /\ a[at.i + 1] = lcs[at.k + 1]

InBoth(a, b, lcs, at) == AtHand(a, lcs, at) /\ at.j < Len(b) /\ b[at.j + 1] = lcs[at.k + 1]

(* One turn of the loop over both contents: at lines i and j, k lines common. *)
StepOn(a, b, lcs, at) ==
  CASE at.i = Len(a) /\ at.j = Len(b) -> at
    [] InBoth(a, b, lcs, at) ->
         [i |-> at.i + 1, j |-> at.j + 1, k |-> at.k + 1,
          lines |-> Append(at.lines, DiffLine("context", a[at.i + 1]))]
    [] ~InBoth(a, b, lcs, at) /\ at.j < Len(b) /\ (at.i = Len(a) \/ AtHand(a, lcs, at)) ->
         [at EXCEPT !.j = @ + 1, !.lines = Append(@, DiffLine("add", b[at.j + 1]))]
    [] OTHER -> [at EXCEPT !.i = @ + 1, !.lines = Append(@, DiffLine("remove", a[at.i + 1]))]

ComputeDiff(a, b) ==
  LET lcs == LongestCommonSubsequence(a, b)
      walk[n \in 0..(Len(a) + Len(b))] ==
        IF n = 0 THEN [i |-> 0, j |-> 0, k |-> 0, lines |-> <<>>]
        ELSE StepOn(a, b, lcs, walk[n - 1])
  IN  walk[Len(a) + Len(b)].lines

HasChanges(diff) == \E i \in DOMAIN diff : diff[i].type # "context"

Ellipsis == [type |-> "..."]

(* Before a change up to n lines of context that are not in the excerpt yet,
   wherever they stood; after the last one, n lines. *)
FormatDiff(diff, n) ==
  LET start(last, i) == Later(last + n + 1, i - n)
      isNew(excerpt, line) == \A k \in DOMAIN excerpt : excerpt[k] # line
      withContext(excerpt, from, to) ==
        FoldLeft(LAMBDA acc, line : IF isNew(acc, line) THEN Append(acc, line) ELSE acc,
                 excerpt, SubSeq(diff, from, to))
      visit(acc, i) ==
        IF diff[i].type = "context" THEN acc
        ELSE LET from == start(acc.last, i)
                 dots == IF from > acc.last + n + 1 /\ acc.excerpt # <<>>
                         THEN <<Ellipsis>> ELSE <<>>
             IN  [last |-> i,
                  excerpt |-> Append(withContext(acc.excerpt \o dots, from, i - 1), diff[i])]
      visited == FoldLeft(visit, [last |-> -n, excerpt |-> <<>>], [i \in DOMAIN diff |-> i])
      end == visited.last + n
  IN  IF ~HasChanges(diff) THEN <<>>
      ELSE visited.excerpt \o SubSeq(diff, visited.last + 1, IF end < Len(diff) THEN end ELSE Len(diff))

-----------------------------------------------------------------------------
(* autoMergeAdditive.  A document has a body, one metadata field and one
   tool, whose overrides are absent or have one field. *)
MergeDocument == [body : {1, 2}, meta : MergeValues \cup {None},
                  tool : {<<>>} \cup {<<v>> : v \in MergeValues \cup {None}}]

(* A mistake in Conflicting. *)
NeverConflicting(existing, v) == FALSE

Conflicting(existing, v) == existing # None /\ v # None /\ existing # v

Merged(existing, v) == IF existing = None THEN v ELSE existing

(* Overrides that are not there yet are taken as a whole. *)
MergedTool(current, override) ==
  CASE override = <<>> -> current
    [] override # <<>> /\ current = <<>> -> override
    [] OTHER -> <<Merged(current[1], override[1])>>

(* A body that differs from the base's also differs from the merged one,
   which is never changed. *)
ConflictsOf(base, merged, document) ==
  (IF document.body # base.body THEN {"body"} ELSE {})
  \cup (IF Conflicting(merged.meta, document.meta) THEN {"metadata"} ELSE {})
  \cup (IF merged.tool # <<>> /\ document.tool # <<>> /\ Conflicting(merged.tool[1], document.tool[1])
        THEN {"tools"} ELSE {})

MergeChange(base, before, change) ==
  [merged |-> [before.merged EXCEPT !.meta = Merged(@, change.meta),
                                    !.tool = MergedTool(@, change.tool)],
   conflicts |-> before.conflicts \cup ConflictsOf(base, before.merged, change)]

AutoMergeAdditive(base, changes) ==
  LET merge[n \in 0..Len(changes)] ==
        IF n = 0 THEN [merged |-> base, conflicts |-> {}]
        ELSE MergeChange(base, merge[n - 1], changes[n])
  IN  merge[Len(changes)]

-----------------------------------------------------------------------------
DiffContents == UNION {[1..n -> Lines] : n \in 1..DiffLength}

DiffQuestions == [about : {"diff"}, old : DiffContents, new : DiffContents, context : {0, 1}]

MergeQuestions ==
  [about : {"merge"}, base : MergeDocument,
   changes : UNION {[1..n -> MergeDocument] : n \in 0..MostChanges}]

IsSubsequence(s, t) ==
  \E f \in [DOMAIN s -> DOMAIN t] : /\ \A i, j \in DOMAIN s : i < j => f[i] < f[j]
                                    /\ \A i \in DOMAIN s : s[i] = t[f[i]]

Side(diff, types) ==
  LET side[n \in 0..Len(diff)] == IF n = 0 THEN <<>>
                                  ELSE IF diff[n].type \in types
                                  THEN Append(side[n - 1], diff[n].content) ELSE side[n - 1]
  IN  side[Len(diff)]

(* A difference gives back both contents and keeps as much of the old one as
   any could. *)
DiffSound ==
    LET diff == ComputeDiff(asked.old, asked.new)
    IN  /\ Side(diff, {"context", "remove"}) = asked.old
        /\ Side(diff, {"context", "add"}) = asked.new
        /\ \A s \in DiffContents : IsSubsequence(s, asked.old) /\ IsSubsequence(s, asked.new) =>
                                 Len(s) <= Len(Side(diff, {"context"}))

(* What is shown of a difference is in its order and lacks no change. *)
ExcerptSound ==
  AskedAbout("diff") =>
    LET diff == ComputeDiff(asked.old, asked.new)
        shown == SelectSeq(FormatDiff(diff, asked.context), LAMBDA d : d # Ellipsis)
        changed(lines) == SelectSeq(lines, LAMBDA d : d.type # "context")
    IN  changed(shown) = changed(diff) /\ IsSubsequence(shown, diff)

Keeps(merged, document) ==
  /\ document.meta # None => merged.meta = document.meta
  /\ document.tool # <<>> => /\ merged.tool # <<>>
                             /\ document.tool[1] # None => merged.tool[1] = document.tool[1]
  /\ merged.body = document.body

(* A merge without conflicts keeps what the base and every change say, and a
   merge finds conflicts and makes of the rest the same document whichever
   change came first. *)
MergeSound ==
    LET one == AutoMergeAdditive(asked.base, asked.changes)
        other == AutoMergeAdditive(asked.base, Reverse(asked.changes))
    IN  /\ one.conflicts = {} => \A d \in Range(asked.changes) \cup {asked.base} : Keeps(one.merged, d)
        /\ (one.conflicts = {}) = (other.conflicts = {})
        /\ one.conflicts = {} => one.merged = other.merged

(* The difference of two documents and what is made of several. *)
DocumentsSound == /\ AskedAbout("diff") => DiffSound
                  /\ AskedAbout("merge") => MergeSound

DocumentsNext == Ask(DiffQuestions) \/ Ask(MergeQuestions)
=============================================================================
