------------------------------ MODULE Instructions ------------------------------
(***************************************************************************)
(* The instruction files of packages/core/src: their @include directives   *)
(* (include.ts), the files of the directories above one (hierarchy.ts),    *)
(* those of organization, team and project (scope-loader.ts), and how they *)
(* are merged (scope.ts).                                                  *)
(*                                                                         *)
(* A parsed document has a version, a scope, a body (a sequence of         *)
(* paragraphs) and sections: a section is None or a function from its keys *)
(* to their values, which a merge replaces whole.                          *)
(***************************************************************************)
EXTENDS Questions, Integers, FiniteSetsExt, SequencesExt, TLC

CONSTANTS InstructionDocs,  \* documents that are merged
          IncludeFiles,     \* real files with content
          IncludeTexts,     \* the contents they may have
          IncludeLinks,     \* what an @include may name: a function to a real file or None
          TreeDepth         \* bound on the depth of a directory; 0 is the root

SectionNames == {"metadata", "permissions", "templates"}
InstructionScopes == <<"org", "team", "project">>

-----------------------------------------------------------------------------
(* Merging *)

ScopePrecedence(scope) == CHOOSE i \in DOMAIN InstructionScopes : InstructionScopes[i] = scope

(* A section is merged key by key; the left function of @@ wins. *)
MergeSection(base, override) ==
  IF override = None THEN base ELSE IF base = None THEN override ELSE override @@ base

(* Of a tool both have, each setting. *)
MergeToolOverrides(base, override) ==
  IF base = None THEN override ELSE IF override = None THEN base
  ELSE [t \in DOMAIN override |-> IF t \in DOMAIN base THEN override[t] @@ base[t] ELSE override[t]] @@ base

(* Every parsed document has a version and a scope: the schema defaults them. *)
MergeTwoDocuments(base, override) ==
  [version |-> override.version, scope |-> override.scope,
   sections |-> [s \in SectionNames |-> MergeSection(base.sections[s], override.sections[s])],
   tools |-> MergeToolOverrides(base.tools, override.tools),
   body |-> base.body \o override.body]

(* Of one scope, the documents keep their order. *)
InPrecedence(documents) ==
  LET of(scope) == SelectSeq(documents, LAMBDA d : d.scope = scope)
  IN  of("org") \o of("team") \o of("project")

MergeScopes(documents) ==
  LET sorted == InPrecedence(documents)
      merged == FoldLeft(LAMBDA base, d : MergeTwoDocuments(base, d.document), Head(sorted).document, Tail(sorted))
  IN  [merged EXCEPT !.scope = Last(sorted).scope]

ScopedDocuments == [scope : Range(InstructionScopes), document : InstructionDocs]
ScopeMergeQuestions == [about : {"scopes"}, documents : UNION {TupleOf(ScopedDocuments, n) : n \in 1..2}]
ThreeScopesQuestions ==
  {[about |-> "scopes", documents |-> <<d, e, f>>] : d \in {x \in ScopedDocuments : x.scope = "team"},
                                                     e \in {x \in ScopedDocuments : x.scope = "org"},
                                                     f \in {x \in ScopedDocuments : x.scope = "project"}}

Given(documents, s, k) ==
  SelectSeq(documents, LAMBDA d : d.document.sections[s] # None /\ k \in DOMAIN d.document.sections[s])

Keys(documents, s) ==
  UNION {IF d.document.sections[s] = None THEN {} ELSE DOMAIN d.document.sections[s] : d \in Range(documents)}

(* Each key has the value of the most specific document that gives one, and no
   other is there; so has each setting of a tool; the bodies are there from the
   least specific; the scope is that of the most specific document present. *)
MergeKeepsPrecedence ==
  AskedAbout("scopes") =>
    LET merged == MergeScopes(asked.documents)
        sorted == InPrecedence(asked.documents)
        settings == {<<d, t, s>> \in {<<d, t, s>> \in (DOMAIN sorted) \X {"cursor", "aider"} \X {"model", "globs"} :
                                        sorted[d].document.tools # None} :
                       t \in DOMAIN sorted[d].document.tools /\ s \in DOMAIN sorted[d].document.tools[t]}
    IN  /\ \A s \in SectionNames :
             /\ (merged.sections[s] = None) = (\A d \in Range(sorted) : d.document.sections[s] = None)
             /\ merged.sections[s] # None => DOMAIN merged.sections[s] = Keys(sorted, s)
             /\ \A k \in Keys(sorted, s) : merged.sections[s][k] = Last(Given(sorted, s, k)).document.sections[s][k]
        /\ \A <<d, t, s>> \in settings :
             (\A <<e, u, r>> \in settings : u = t /\ r = s => e <= d) =>
               merged.tools[t][s] = sorted[d].document.tools[t][s]
        /\ merged.body = FoldLeft(LAMBDA body, d : body \o d.document.body, <<>>, sorted)
        /\ \A d \in Range(sorted) : ScopePrecedence(d.scope) <= ScopePrecedence(merged.scope)

(* The documents of the scopes that apply to a project: org and team are the
   files that are there, or None. *)
LoadScopes(project, configTeam, org, teams) ==
  LET named == project.sections.metadata # None /\ "team" \in DOMAIN project.sections.metadata
      team == OrElse(configTeam, IF named THEN project.sections.metadata.team ELSE None)
      optional(scope, document) == IF document = None THEN <<>> ELSE <<[scope |-> scope, document |-> document]>>
  IN  optional("org", org) \o (IF team = None THEN <<>> ELSE optional("team", teams[team]))
        \o optional("project", project)

LoadQuestions == [about : {"load scopes"}, project : InstructionDocs, configTeam : {None, "core"},
                  org : InstructionDocs \cup {None}, teams : [{"core", "web"} -> InstructionDocs \cup {None}]]

(* What is loaded is already in precedence order and ends with the project,
   whose values stand; a team is loaded only when the configuration or the
   project names it, never because the organization does. *)
LoadedScopes ==
  AskedAbout("load scopes") =>
    LET loaded == LoadScopes(asked.project, asked.configTeam, asked.org, asked.teams)
        metadata == asked.project.sections.metadata
    IN  /\ loaded = InPrecedence(loaded) /\ Last(loaded).document = asked.project
        /\ metadata # None => \A k \in DOMAIN metadata : MergeScopes(loaded).sections.metadata[k] = metadata[k]
        /\ (\E d \in Range(loaded) : d.scope = "team") =>
             asked.configTeam # None \/ (metadata # None /\ "team" \in DOMAIN metadata)

-----------------------------------------------------------------------------
(* Includes: an item of a content is [text] or [include, a name]. *)

IsInclude(item) == item.kind = "include"

NothingExpanded == [text |-> <<>>, seen |-> {}, included |-> <<>>, warnings |-> 0, error |-> None]

AtDepth(content, depth) == [i \in DOMAIN content |-> [item |-> content[i], depth |-> depth]]

(* The items are expanded from left to right, those of an included file in
   its place; what was seen is shared by all, by the file a name leads to. *)
RECURSIVE ExpandIncludes(_, _, _, _)
ExpandIncludes(todo, ctx, contents, maxDepth) ==
  IF todo = <<>> \/ ctx.error # None THEN ctx
  ELSE LET item == Head(todo).item
           depth == Head(todo).depth
           file == IncludeLinks[item.name]
           entered == [ctx EXCEPT !.seen = @ \cup {file}, !.included = Append(@, file)]
       IN  IF ~IsInclude(item)
             THEN ExpandIncludes(Tail(todo), [ctx EXCEPT !.text = Append(@, item.name)], contents, maxDepth)
           ELSE IF file = None
             THEN ExpandIncludes(Tail(todo), [ctx EXCEPT !.warnings = @ + 1], contents, maxDepth)
           ELSE IF file \in ctx.seen THEN [ctx EXCEPT !.error = "circular"]
           ELSE IF depth + 1 >= maxDepth THEN [entered EXCEPT !.error = "depth"]
           ELSE ExpandIncludes(AtDepth(contents[file], depth + 1) \o Tail(todo), entered, contents, maxDepth)

ProcessIncludes(source, contents, maxDepth) ==
  IF maxDepth = 0 THEN [NothingExpanded EXCEPT !.error = "depth"]
  ELSE ExpandIncludes(AtDepth(contents[source], 0), [NothingExpanded EXCEPT !.seen = {source}], contents, maxDepth)

IncludeQuestions == [about : {"includes"}, contents : [IncludeFiles -> IncludeTexts],
                     source : IncludeFiles, maxDepth : {1, 2, 9}]

IncludesOf(contents, file) ==
  {IncludeLinks[i.name] : i \in {j \in Range(contents[file]) : IsInclude(j)}} \ {None}

(* Files reached by a chain of at most n includes. *)
RECURSIVE ReachedBy(_, _, _)
ReachedBy(contents, from, n) ==
  IF n = 0 THEN from ELSE from \cup ReachedBy(contents, UNION {IncludesOf(contents, f) : f \in from}, n - 1)

RECURSIVE Substituted(_, _)
Substituted(contents, content) ==
  IF content = <<>> THEN <<>>
  ELSE LET item == Head(content)
           file == IncludeLinks[item.name]
       IN  (IF ~IsInclude(item) THEN <<item.name>> ELSE IF file = None THEN <<>> ELSE Substituted(contents, contents[file]))
             \o Substituted(contents, Tail(content))

(* A file that includes itself, through whatever others and links, is an error
   and never expanded without end.  Without an error each file was included
   once and the text is what substitution gives; an error is a chain that is
   too deep or a file met a second time. *)
IncludesExact ==
  AskedAbout("includes") =>
    LET result == ProcessIncludes(asked.source, asked.contents, asked.maxDepth)
        n == Cardinality(IncludeFiles)
        reached == ReachedBy(asked.contents, {asked.source}, n)
        cyclic == \E f \in reached : f \in ReachedBy(asked.contents, IncludesOf(asked.contents, f), n)
        occurrences(f) == {<<g, i>> \in reached \X (1..3) :
                             /\ i \in DOMAIN asked.contents[g] /\ IsInclude(asked.contents[g][i])
                             /\ IncludeLinks[asked.contents[g][i].name] = f}
    IN  /\ cyclic => result.error # None
        /\ result.error = None =>
             /\ result.text = Substituted(asked.contents, asked.contents[asked.source])
             /\ Range(result.included) = reached \ {asked.source}
             /\ Len(result.included) = Cardinality(Range(result.included))
        /\ result.error = "circular" =>
             cyclic \/ \E f \in reached : Cardinality(occurrences(f)) > 1
        /\ result.error = "depth" => Len(result.included) >= asked.maxDepth

-----------------------------------------------------------------------------
(* The hierarchy: the directories from the root, 0, to that of the target.
   stopAt is one of them, None, or Elsewhere. *)

Elsewhere == -1

(* A path below the root never starts with "//". *)
WithinStop(dir, stopAt) == stopAt \in 0..TreeDepth /\ (dir = stopAt \/ (stopAt > 0 /\ dir > stopAt))

(* The directories that are searched, from the target's up. *)
Directories(target, stopAt, maxDepth) ==
  LET climb[dir \in 0..target, depth \in 0..maxDepth] ==
        IF depth = maxDepth THEN <<>>
        ELSE IF WithinStop(dir, stopAt)
          THEN IF dir - 1 = stopAt THEN <<dir, stopAt>> ELSE <<dir>>
        ELSE IF dir = 0 THEN <<0>>
        ELSE <<dir>> \o climb[dir - 1, depth + 1]
  IN  climb[target, 0]

(* files are the directories that have the file; without one it throws. *)
LoadHierarchy(target, files, stopAt, maxDepth) ==
  LET searched == Reverse(Directories(target, stopAt, maxDepth))
  IN  [documents |-> SelectSeq(searched, LAMBDA d : d \in files),
       searched |-> SelectSeq(searched, LAMBDA d : d \notin files)]

FindRootInstruction(start, files) ==
  LET above == {d \in files : d <= start} IN IF above = {} THEN None ELSE Min(above)

HierarchyQuestions == [about : {"hierarchy"}, target : 0..TreeDepth, files : SUBSET (0..TreeDepth),
                       stopAt : {None, Elsewhere} \cup (0..TreeDepth), maxDepth : 0..(TreeDepth + 1)]

(* The documents come from the top down, so that the nearest is merged last;
   nothing above stopAt is searched, nor more directories than maxDepth and
   stopAt itself; without stopAt, with one that is not above, or with the root,
   all directories up to the root or maxDepth are. The root instruction is the
   first of them all. *)
HierarchyInOrder ==
  AskedAbout("hierarchy") =>
    LET result == LoadHierarchy(asked.target, asked.files, asked.stopAt, asked.maxDepth)
        searched == Range(result.documents) \cup Range(result.searched)
        whole == LoadHierarchy(asked.target, asked.files, None, TreeDepth + 1).documents
    IN  /\ \A i \in DOMAIN result.documents : i > 1 => result.documents[i - 1] < result.documents[i]
        /\ \A d \in searched : d <= asked.target
        /\ (asked.stopAt \in 0..TreeDepth /\ asked.stopAt <= asked.target) => \A d \in searched : d >= asked.stopAt
        /\ Cardinality(searched) <= asked.maxDepth + 1
        /\ (asked.stopAt \in {None, Elsewhere, 0} \/ asked.stopAt \in (asked.target + 1)..TreeDepth) =>
             (searched \ {0} = {d \in 1..asked.target : d > asked.target - asked.maxDepth})
        /\ FindRootInstruction(asked.target, asked.files) = IF whole = <<>> THEN None ELSE Head(whole)

(* Every instruction file from the target's directory up to stopAt is loaded,
   when maxDepth allows. *)
CollectsAllUpToStop ==
  (AskedAbout("hierarchy") /\ asked.stopAt \in 0..asked.target /\ asked.maxDepth > TreeDepth) =>
      LET result == LoadHierarchy(asked.target, asked.files, asked.stopAt, asked.maxDepth)
      IN  \A d \in (asked.stopAt + 1)..asked.target : d \in asked.files => d \in Range(result.documents)

(* Merging, scopes, includes and hierarchies of instruction files. *)
InstructionsSound == MergeKeepsPrecedence /\ LoadedScopes /\ IncludesExact /\ HierarchyInOrder

InstructionsNext == \/ Ask(ScopeMergeQuestions) \/ Ask(ThreeScopesQuestions) \/ Ask(LoadQuestions)
                    \/ Ask(IncludeQuestions) \/ Ask(HierarchyQuestions)
InstructionsSpec == QuestionInit /\ [][InstructionsNext]_asked
=============================================================================
