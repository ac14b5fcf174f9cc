---------------------------- MODULE MCInstructions ----------------------------
(***************************************************************************)
(* Instruction documents and files to include of a small instance.         *)
(***************************************************************************)
EXTENDS Instructions

NoSections == [s \in SectionNames |-> None]

MCInstructionDocs ==
  {[version |-> 1, scope |-> "project", sections |-> NoSections, tools |-> None, body |-> <<>>],
   [version |-> 2, scope |-> "project",
    sections |-> [NoSections EXCEPT !.metadata = "name" :> "a" @@ "team" :> "web", !.templates = "bug" :> 1],
    tools |-> "cursor" :> ("globs" :> 1), body |-> <<"a">>],
   [version |-> 1, scope |-> "org",
    sections |-> [NoSections EXCEPT !.metadata = "name" :> "b" @@ "tags" :> {"x"}, !.permissions = "deniedTools" :> {"x"}],
    tools |-> "cursor" :> ("globs" :> 2 @@ "model" :> 1) @@ "aider" :> ("model" :> 2), body |-> <<"b", "c">>]}

MCText(t) == [kind |-> "text", name |-> t]
MCInclude(name) == [kind |-> "include", name |-> name]

MCIncludeLinks == "one" :> "f" @@ "two" :> "g" @@ "link" :> "f" @@ "three" :> "h" @@ "lost" :> None

MCIncludeTexts == {<<>>, <<MCText("t")>>, <<MCInclude("one"), MCText("u")>>, <<MCText("t"), MCInclude("two")>>,
                   <<MCInclude("link"), MCInclude("lost")>>, <<MCInclude("three"), MCInclude("two")>>,
                   <<MCInclude("link"), MCInclude("one")>>}
=============================================================================
