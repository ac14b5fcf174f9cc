----------------------------- MODULE SkillVersions -----------------------------
(***************************************************************************)
(* Semantic versions and their constraints (packages/core/src/             *)
(* skill-version.ts) and what mcp-versioning.ts says of the version of an  *)
(* MCP server by them.                                                     *)
(*                                                                         *)
(* A version is <<major, minor, patch, prerelease>>; prereleases are       *)
(* numbered in the order of localeCompare, and Release is none.  NotSemver *)
(* stands for the strings that do not parse.                               *)
(***************************************************************************)
EXTENDS Questions, Integers, FiniteSetsExt, SequencesExt

CONSTANTS Semvers,         \* versions looked at
          PinSemvers,      \* and those of which pins and lists of a server are made
          VersionListSize  \* bound on the length of the lists of available versions

Release == 0
NotSemver == <<>>
Parses(v) == v # NotSemver

-----------------------------------------------------------------------------
(* A prerelease comes before its release. *)
PrereleaseRank(p) == IF p = Release THEN 9 ELSE p

Rank(v) == ((v[1] * 10 + v[2]) * 10 + v[3]) * 10 + PrereleaseRank(v[4])

(* A mistake in CompareVersions: a prerelease comes after its release. *)
CompareVersionsByName(a, b) ==
  IF a[1] # b[1] THEN a[1] - b[1]
  ELSE IF a[2] # b[2] THEN a[2] - b[2]
  ELSE IF a[3] # b[3] THEN a[3] - b[3]
  ELSE a[4] - b[4]

(* The sign of compareVersions, which throws when a version does not parse. *)
CompareVersions(a, b) ==
  IF a[1] # b[1] THEN a[1] - b[1]
  ELSE IF a[2] # b[2] THEN a[2] - b[2]
  ELSE IF a[3] # b[3] THEN a[3] - b[3]
  ELSE IF a[4] # Release /\ b[4] = Release THEN -1
  ELSE IF a[4] = Release /\ b[4] # Release THEN 1
  ELSE a[4] - b[4]

(* Constraints as parseConstraint returns them; a bound is a version or None,
   with whether it is included. *)
Exact(v) == [type |-> "exact", version |-> v]
Caret(v) == [type |-> "caret", version |-> v]
Tilde(v) == [type |-> "tilde", version |-> v]
RangeOf(min, minIncluded, max, maxIncluded) ==
  [type |-> "range", min |-> min, minIncluded |-> minIncluded, max |-> max, maxIncluded |-> maxIncluded]
AnyVersion == [type |-> "any"]

(* A mistake in SatisfiesConstraint: a caret lets the minor version of 0.x
   change. *)
SatisfiesLoosely(v, c) ==
  Parses(v) /\
  CASE c.type = "any" -> TRUE
    [] c.type = "exact" -> CompareVersions(v, c.version) = 0
    [] c.type = "caret" -> /\ Parses(c.version) /\ CompareVersions(v, c.version) >= 0
                           /\ v[1] = c.version[1]
    [] c.type = "tilde" -> /\ Parses(c.version) /\ CompareVersions(v, c.version) >= 0
                           /\ <<v[1], v[2]>> = <<c.version[1], c.version[2]>>
    [] c.type = "range" ->
         /\ c.min # None => CompareVersions(v, c.min) >= IF c.minIncluded THEN 0 ELSE 1
         /\ c.max # None => CompareVersions(v, c.max) <= IF c.maxIncluded THEN 0 ELSE -1

SatisfiesConstraint(v, c) ==
  Parses(v) /\
  CASE c.type = "any" -> TRUE
    [] c.type = "exact" -> CompareVersions(v, c.version) = 0
    [] c.type = "caret" -> /\ Parses(c.version) /\ CompareVersions(v, c.version) >= 0
                           /\ v[1] = c.version[1]
                           /\ c.version[1] = 0 => v[2] = c.version[2]
    [] c.type = "tilde" -> /\ Parses(c.version) /\ CompareVersions(v, c.version) >= 0
                           /\ <<v[1], v[2]>> = <<c.version[1], c.version[2]>>
    [] c.type = "range" ->
         /\ c.min # None => CompareVersions(v, c.min) >= IF c.minIncluded THEN 0 ELSE 1
         /\ c.max # None => CompareVersions(v, c.max) <= IF c.maxIncluded THEN 0 ELSE -1

SortVersionsDesc(versions) == SortSeq(versions, LAMBDA a, b : CompareVersions(a, b) > 0)

FindLatestSatisfying(versions, c) ==
  LET fit == SortVersionsDesc(SelectSeq(versions, LAMBDA v : SatisfiesConstraint(v, c)))
  IN  IF fit = <<>> THEN None ELSE fit[1]

-----------------------------------------------------------------------------
(* The version of an MCP server.  A pin has a version, a lower and an upper
   bound, and a constraint, each of them None where it is not given. *)

BuildMcpVersionConstraint(pin) ==
  IF pin.constraint # None THEN pin.constraint
  ELSE IF pin.min # None \/ pin.max # None THEN RangeOf(pin.min, TRUE, pin.max, TRUE)
  ELSE IF pin.pinned # None THEN Exact(pin.pinned) ELSE None

(* safeSatisfies: a bound that throws is not satisfied. *)
Satisfied(v, c) ==
  /\ c.type = "exact" => Parses(c.version)
  /\ c.type = "range" => c.min # NotSemver /\ c.max # NotSemver
  /\ SatisfiesConstraint(v, c)

Thrown == [thrown |-> TRUE]

EvaluateMcpVersion(pin, reported, listed) ==
  LET observed == IF reported = NotSemver THEN None ELSE reported
      c == BuildMcpVersionConstraint(pin)
      available == SortVersionsDesc(SetToSeq({v \in Range(listed) : Parses(v)}))
      allowed == IF c = None THEN available ELSE SelectSeq(available, LAMBDA v : Satisfied(v, c))
      baseline == IF pin.pinned = None THEN observed ELSE pin.pinned
      compared == pin.pinned = NotSemver /\ (observed # None \/ allowed # <<>>)
  IN  IF compared THEN Thrown
      ELSE [thrown |-> FALSE,
            latestAvailable |-> IF available = <<>> THEN None ELSE available[1],
            latestAllowed |-> IF allowed = <<>> THEN None ELSE allowed[1],
            pinDrift |-> pin.pinned # None /\ observed # None /\ CompareVersions(observed, pin.pinned) # 0,
            updateAvailable |-> baseline # None /\ allowed # <<>> /\ CompareVersions(allowed[1], baseline) > 0,
            withinConstraint |-> c = None \/ observed = None \/ Satisfied(observed, c)]

McpVersionNotifications(evaluation) ==
  (IF evaluation.pinDrift THEN {"mcp.pin-drift"} ELSE {})
    \cup (IF evaluation.updateAvailable THEN {"mcp.update-available"} ELSE {})

-----------------------------------------------------------------------------
(* checkUpdates of InMemorySkillRegistry *)
UpdateOf(installed, versions) ==
  LET latest == SortVersionsDesc(versions)[1]
  IN  IF versions = <<>> \/ CompareVersions(latest, installed) <= 0 THEN None
      ELSE [latest |-> latest, breaking |-> latest[1] > installed[1]]

-----------------------------------------------------------------------------
(* Questions *)

Bounds == Semvers \cup {None}
Constraints == {Exact(v) : v \in Semvers} \cup {Caret(v) : v \in Semvers} \cup {Tilde(v) : v \in Semvers}
                 \cup {RangeOf(v, i, w, j) : v \in Bounds, w \in Bounds, i \in BOOLEAN, j \in BOOLEAN}
                 \cup {AnyVersion}
VersionLists == SeqOf(Semvers, VersionListSize)

VersionQuestions ==
  {[about |-> "constraint", constraint |-> c] : c \in Constraints}
  \cup {[about |-> "updates", installed |-> v, versions |-> l] : v \in Semvers, l \in VersionLists}

Pins == {[pinned |-> p, min |-> m, max |-> None, constraint |-> c] :
           p \in PinSemvers \cup {None, NotSemver}, m \in PinSemvers \cup {None},
           c \in {None, AnyVersion} \cup {Caret(v) : v \in PinSemvers}}

PinQuestions ==
  {[about |-> "pin", pin |-> p, reported |-> v, listed |-> l] :
     p \in Pins, v \in PinSemvers \cup {None, NotSemver},
     l \in {<<>>} \cup {<<v, NotSemver, w>> : v \in PinSemvers, w \in PinSemvers}}

-----------------------------------------------------------------------------
BelowVersion(v) == Rank(v) - 9     \* below each prerelease of v
Between(v, low, high) == Rank(v) >= low /\ Rank(v) < high

(* Versions that satisfy a constraint are those of an interval in the order
   of semantic versions, in which a prerelease comes before its release: a
   caret allows what does not change the leftmost part that is not zero, of
   major and minor, and a tilde what does not change the minor version.  A
   prerelease of the excluded end is below that end, and so satisfies a range
   where it does not satisfy the caret. *)
ConstraintsAreIntervals ==
  AskedAbout("constraint") =>
    \A v \in Semvers :
      LET c == asked.constraint
          ok == SatisfiesConstraint(v, c)
      IN  CASE c.type = "caret" ->
                 ok <=> Between(v, Rank(c.version),
                                BelowVersion(IF c.version[1] = 0 THEN <<0, c.version[2] + 1, 0, Release>>
                                      ELSE <<c.version[1] + 1, 0, 0, Release>>))
            [] c.type = "tilde" -> ok <=> Between(v, Rank(c.version), BelowVersion(<<c.version[1], c.version[2] + 1, 0, Release>>))
            [] c.type = "exact" -> ok <=> v = c.version
            [] c.type = "any" -> ok
            [] OTHER -> ok <=> /\ c.min # None => Rank(v) > Rank(c.min) \/ (c.minIncluded /\ v = c.min)
                               /\ c.max # None => Rank(v) < Rank(c.max) \/ (c.maxIncluded /\ v = c.max)

(* The update of an installed skill is the highest version there is, however
   the versions are listed, and breaking when the major version changes. *)
UpdatesAreLatest ==
  AskedAbout("updates") =>
    LET update == UpdateOf(asked.installed, asked.versions)
        newer == {v \in Range(asked.versions) : Rank(v) > Rank(asked.installed)}
    IN  /\ update = None <=> newer = {}
        /\ update # None => /\ update.latest \in newer
                            /\ \A v \in newer : Rank(v) <= Rank(update.latest)
                            /\ update.breaking <=> update.latest[1] # asked.installed[1]
        /\ \A c \in {AnyVersion} \cup {Caret(v) : v \in Semvers} :
             LET latest == FindLatestSatisfying(asked.versions, c)
             IN  latest # None => \A v \in Range(asked.versions) :
                                    SatisfiesConstraint(v, c) => Rank(v) <= Rank(latest)

(* A server is told of an update only within its constraint and above its
   pin; one that is pinned to a version and nothing else is never told of any.
   Drift is told of whether or not the constraint allows the version that
   runs.  A pin that is no version is an error as soon as it is compared. *)
PinsAreKept ==
  AskedAbout("pin") =>
    LET pin == asked.pin
        e == EvaluateMcpVersion(pin, asked.reported, asked.listed)
        told == McpVersionNotifications(e)
    IN  IF e.thrown THEN pin.pinned = NotSemver
        ELSE /\ "mcp.update-available" \in told =>
                  /\ pin.pinned # None => Rank(e.latestAllowed) > Rank(pin.pinned)
                  /\ ~(pin.constraint = None /\ pin.min = None /\ pin.max = None /\ pin.pinned # None)
                  /\ \A v \in Range(asked.listed) :
                       Parses(v) /\ Rank(v) > Rank(e.latestAllowed) =>
                         ~Satisfied(v, BuildMcpVersionConstraint(pin))
             /\ pin.pinned # None /\ "mcp.pin-drift" \notin told =>
                  asked.reported \in {None, NotSemver, pin.pinned}

(* Versions are ordered and constrained as semantic versions are. *)
VersionsSound == ConstraintsAreIntervals /\ UpdatesAreLatest /\ PinsAreKept
=============================================================================
