------------------------------- MODULE MCServices -------------------------------
(***************************************************************************)
(* The services that share no state, side by side: each behaviour          *)
(* exercises one of them, or one question about what keeps no state.       *)
(***************************************************************************)
EXTENDS PolicyDecisions, PolicyReviews, DocumentTools, CostReports, Marketplace,
        SkillVersions, SkillRegistry, QueriesAndExports, MCInstructions, CredentialStore,
        ConfigDocuments, Migrations, McpOperations

CONSTANTS Services, s1, s2, w1

(* Policies, their reviews and the entries of the audit trail.               *)

MCPattern(names, literal) == [covers |-> names, literal |-> literal]

MCPolicy(id, scope, effect, override) ==
  [id |-> ToString(id), order |-> id, scope |-> scope, scopeId |-> scope, effect |-> effect,
   actions |-> {MCPattern({"deploy"}, "deploy")}, types |-> {"skill"}, conditions |-> {},
   priority |-> 0, enabled |-> TRUE, inherit |-> TRUE, override |-> override]

MCCondition(field, operator, value) == [field |-> field, operator |-> operator, value |-> value]

MCPolicies ==
  {MCPolicy(1, "org", "deny", FALSE), MCPolicy(2, "org", "allow", FALSE),
   MCPolicy(3, "project", "allow", TRUE), MCPolicy(4, "project", "deny", FALSE),
   MCPolicy(5, "user", "deny", TRUE), MCPolicy(6, "user", "allow", FALSE),
   [MCPolicy(7, "project", "allow", TRUE) EXCEPT !.inherit = FALSE],
   [MCPolicy(8, "user", "allow", FALSE) EXCEPT
      !.actions = {MCPattern({"ship"}, "ship")}],
   [MCPolicy(9, "org", "deny", FALSE) EXCEPT
      !.conditions = {MCCondition("role", "neq", Str("owner"))}],
   [MCPolicy(10, "user", "allow", TRUE) EXCEPT
      !.conditions = {MCCondition("minutes", "window", {[from |-> 4, to |-> 1]}),
                      MCCondition("tool", "in", List({Str("cli")}))}],
   [MCPolicy(11, "team", "deny", FALSE) EXCEPT !.priority = 1, !.enabled = FALSE]}

MCAttributes == [role |-> Undefined, project |-> Undefined, tool |-> Undefined, time |-> Undefined]

MCContext(chain, role, tool, time) ==
  [actor |-> [id |-> "user", role |-> role, roles |-> <<Str("viewer")>>],
   action |-> "deploy", type |-> "skill", res |-> [MCAttributes EXCEPT !.tool = Str("cli")],
   chain |-> chain, env |-> [MCAttributes EXCEPT !.tool = tool, !.time = time]]

MCChain == << <<"user", "user">>, <<"project", "project">>, <<"org", "org">> >>

MCAskers ==
  {MCContext(MCChain, Undefined, Undefined, Num(5)),
   MCContext(MCChain, Str("owner"), Str("ide"), Undefined),
   MCContext(Tail(MCChain), Str("owner"), Undefined, Num(2)),
   MCContext(<<>>, Undefined, Str("cli"), Num(0))}

MCNode(id, parent, inherits) == [id |-> id, parent |-> parent, inherits |-> inherits]

MCTaxonomies ==
  LET nodes == {MCNode("ship", None, TRUE), MCNode("ship", "deploy", TRUE),
                MCNode("release", "ship", FALSE), MCNode("deploy", "release", FALSE),
                MCNode("release", "release", TRUE), MCNode("deploy", "lost", TRUE)}
  IN  {<<>>} \cup {<<m, n>> : m, n \in nodes} \cup {<<l, m, n>> : l, m, n \in nodes}

MCGuardRules ==
  {[effect |-> "allow", type |-> "url", covers |-> {"x"}],
   [effect |-> "allow", type |-> "url", covers |-> {"x", "y"}],
   [effect |-> "deny", type |-> "url", covers |-> {"y"}],
   [effect |-> "deny", type |-> "file", covers |-> {"x", "y"}],
   [effect |-> "allow", type |-> "file", covers |-> {"y"}]}

MCWindows == {[duration |-> 1, baseline |-> 2], [duration |-> 2, baseline |-> 1]}

MCThresholds ==
  [spike |-> [minCurrent |-> 1, minBaseline |-> 1, multiplier |-> 2, rate |-> 1, rateOf |-> 2,
              increase |-> 1, increaseOf |-> 5],
   burst |-> [minEvents |-> 2, multiplier |-> 2, increase |-> 1],
   deviation |-> [minCurrent |-> 1, ratio |-> 1, minDelta |-> 1]]

MCActors == {<<"ann">>, <<"ann", "cli">>}
MCTools == {<<"cli">>, <<"ide">>}

(* Usage, prices and charges.                                                *)

NoAttribution == [d \in {"developer", "user", "team", "skill", "center", "category"} |-> None]

Ann == [NoAttribution EXCEPT !.developer = <<"ann">>, !.user = <<"ann">>, !.team = <<"core">>,
                             !.center = <<"c1">>, !.category = <<"cli">>]
AnnCore == [NoAttribution EXCEPT !.developer = <<"ann", "core">>, !.user = <<"ann", "core">>]
Bob == [NoAttribution EXCEPT !.developer = <<"bob">>, !.user = <<"bob">>, !.team = <<"core">>]
Linting == [Bob EXCEPT !.skill = <<"lint">>]

MCUsageInputs ==
  {NoAttribution, [NoAttribution EXCEPT !.developer = <<"ann">>],
   [NoAttribution EXCEPT !.user = <<"bob">>, !.team = <<"core">>],
   [NoAttribution EXCEPT !.user = <<"bob">>, !.developer = <<"ann">>, !.skill = <<"lint">>]}

LlmCall(model, tokens, time, attribution) ==
  [type |-> "llm", model |-> model, input |-> tokens[1], output |-> tokens[2],
   cached |-> tokens[3], time |-> time, attribution |-> attribution, dataSkill |-> None]

Big == <<"p", "big">>
Small == <<"p", "small">>
Rival == <<"q", "big">>

MCUsageSamples ==
  {LlmCall(Big, <<1, 2, 0>>, 0, Ann), LlmCall(Big, <<3, 0, 2>>, 1, Linting),
   LlmCall(Small, <<0, 4, 0>>, 2, Ann), LlmCall(Small, <<3, 0, 0>>, 2, AnnCore),
   LlmCall(Rival, <<1, 1, 1>>, 2, Linting),
   [LlmCall(Big, <<0, 0, 0>>, 1, Bob) EXCEPT !.type = "skill", !.dataSkill = <<"test">>]}

Price(input, output, cached) == [input |-> input, output |-> output, cached |-> cached]

MCPrices == {Big :> Price(2, 1, 0) @@ Small :> Price(1, 2, None),
             Big :> Price(3, 3, 1) @@ Small :> Price(2, 1, 5) @@ Rival :> Price(1, 1, None)}

ToCore == [match |-> "team" :> <<"core">>, center |-> <<"c2">>, type |-> "team", group |-> <<"core">>]
ToBob == [match |-> "developer" :> <<"bob">> @@ "team" :> <<"core">>,
          center |-> <<"c1">>, type |-> "custom", group |-> <<"x">>]

MCMappings == {<<>>, <<ToCore, ToBob>>, <<ToBob, ToCore>>, <<ToCore, ToCore>>}

MCInfra == {[amount |-> 2, start |-> 0, end |-> 1], [amount |-> 3, start |-> 1, end |-> 2],
            [amount |-> 4, start |-> 1, end |-> 3]}

MCProviders == <<"aws", "gcp">>

CostsNext == \/ Ask(AttributionQuestions) \/ Ask(ReportQuestions)
             \/ Ask(BudgetQuestions) \/ Ask(CalendarQuestions)

(* Skills, their versions and their use.                                     *)

MCMarketSkills ==
  {[id |-> 1, name |-> 2, author |-> "ann", words |-> {"lint"}, tags |-> {"js"}, visibility |-> "public",
    rating |-> 4, downloads |-> 7, updatedAt |-> 1],
   [id |-> 2, name |-> 1, author |-> "bob", words |-> {"lint"}, tags |-> {"js", "ci"}, visibility |-> "public",
    rating |-> 4, downloads |-> 9, updatedAt |-> 3],
   [id |-> 3, name |-> 1, author |-> "ann", words |-> {"test"}, tags |-> {"ci"}, visibility |-> "org-private",
    rating |-> 5, downloads |-> 7, updatedAt |-> 2],
   [id |-> 4, name |-> 3, author |-> "bob", words |-> {"lint", "test"}, tags |-> {}, visibility |-> "public",
    rating |-> 4, downloads |-> 1, updatedAt |-> 2]}

MCAnySkill == [search |-> None, tags |-> {}, visibility |-> None]
MCMarketFilters == {MCAnySkill, [MCAnySkill EXCEPT !.visibility = Garbage],
                    [MCAnySkill EXCEPT !.search = "lint", !.visibility = "public"],
                    [MCAnySkill EXCEPT !.tags = {"ci"}]}

MCInstalls == << [skill |-> 1, version |-> 1, time |-> 0], [skill |-> 2, version |-> 1, time |-> 4],
                 [skill |-> 3, version |-> 2, time |-> 31], [skill |-> 1, version |-> 2, time |-> 32],
                 [skill |-> 4, version |-> 1, time |-> 5], [skill |-> 9, version |-> 1, time |-> 5] >>

MCInvocations == << [skill |-> 1, halves |-> None, parameters |-> {"fix"}, defaults |-> {"fix"}, time |-> 3],
                    [skill |-> 3, halves |-> 5, parameters |-> {"fix", "dry"}, defaults |-> {"dry"}, time |-> 4],
                    [skill |-> 1, halves |-> -3, parameters |-> {"dry"}, defaults |-> {}, time |-> 31],
                    [skill |-> 4, halves |-> 2, parameters |-> {}, defaults |-> {"fix"}, time |-> 33] >>

MCMonthStarts == {0, 31, 59}

MCSemvers == {<<0, 1, 0, 0>>, <<0, 1, 1, 2>>, <<0, 2, 0, 1>>, <<0, 2, 0, 0>>, <<1, 0, 0, 1>>,
              <<1, 0, 0, 0>>, <<1, 1, 0, 2>>, <<1, 1, 1, 0>>, <<2, 0, 0, 1>>, <<2, 0, 0, 0>>}
MCPinSemvers == {<<0, 1, 0, 0>>, <<1, 0, 0, 1>>, <<1, 0, 0, 0>>, <<1, 1, 1, 0>>}

MCSkillNames == {[scope |-> "global", id |-> <<"es", "lint">>]}
MCSkillIds == {<<"lint">>, <<"es", "lint">>}

RegistryQuestions == \/ Ask(MarketPageQuestions) \/ Ask(MarketAnalyticsQuestions) \/ Ask(RouteQuestions)
                     \/ Ask(VersionQuestions) \/ Ask(PinQuestions)

(* Rows to query and records to export.                                      *)

MCTableRows == {[k |-> 1, a |-> 1], [k |-> 2, a |-> None], [k |-> 3, a |-> 2], [k |-> 4, a |-> 1], [k |-> 5, a |-> 2]}

MCWhere(type, field, op, values) == [type |-> type, field |-> field, op |-> op, values |-> values]
MCQueryConditions ==
  {MCWhere("and", "a", "=", <<1>>), MCWhere("or", "a", "=", <<2>>), MCWhere("and", "a", "in", <<1, 2>>),
   MCWhere("or", "k", "not_in", <<1, 4>>), MCWhere("and", "a", "is_null", <<>>),
   MCWhere("and", "a", "is_not_null", <<>>), MCWhere("and", "k", ">", <<2>>), MCWhere("and", "k", "in", <<>>)}

MCLeaf(path, value) == [path |-> path, value |-> value]
MCKeyA == <<"a">>
MCKeyAB == <<"a", "b">>
MCExportRecords ==
  {<<MCLeaf(<<MCKeyA, <<"b">> >>, <<"1">>), MCLeaf(<<MCKeyAB>>, <<"2">>), MCLeaf(<< <<"c">> >>, None)>>,
   <<MCLeaf(<<MCKeyAB>>, <<"2">>), MCLeaf(<<MCKeyA, <<"b">> >>, <<"1">>)>>,
   <<MCLeaf(<<MCKeyA>>, EmptyObject)>>,
   <<MCLeaf(<<MCKeyA>>, <<"3">>), MCLeaf(<< <<"c">>, <<"d">> >>, <<"4">>)>>}

MCExportFields == { <<"a">>, <<"a", "b">>, <<"c">>, <<"z">> }

MCUsed(user, model, time, input, output) ==
  [user |-> user, model |-> model, time |-> time, input |-> input, output |-> output]
MCUsageRecords ==
  {MCUsed(<<"ann">>, <<"big">>, 0, 1, 2), MCUsed(None, <<"big">>, 3, 2, None), MCUsed(<<"ann">>, None, 12, None, 5),
   MCUsed(<<"bob">>, <<"small">>, 15, 4, 4), MCUsed(<<"bob">>, <<"big">>, None, 1, 1), MCUsed(None, None, 35, 3, 0)}

ReportsNext == \/ Ask(PageQuestions) \/ Ask(ColumnQuestions) \/ Ask(ExportQuestions)
               \/ Ask(CsvQuestions) \/ Ask(TotalsQuestions)

VARIABLE service

serviceVars == <<service, asked, cdVars, vars, mgVars, usVars, cbVars, hcVars, prVars, skVars>>

(* Accessors of credentials, an open policy and one with lists, and a         *)
(* deployment of two provider versions.                                       *)
owner == "owner"

MCAccessors ==
    {[id |-> owner,     type |-> "user",    scopes |-> {}],
     [id |-> "agent",   type |-> "agent",   scopes |-> {"org"}]}

Open == [readers |-> {}, writers |-> {}, rotators |-> {}, types |-> {},
         scopes |-> {}, allowOwnerAccess |-> TRUE]
Closed == [readers |-> {"agent"}, writers |-> {owner}, rotators |-> {owner},
           types |-> {"agent"}, scopes |-> {"org"},
           allowOwnerAccess |-> FALSE]
MCAccessPolicies == {Open, Closed}

OldAndNew == [x \in {s1, s2, w1} |-> IF x = s1 THEN 1 ELSE 2]

MCRoutes == {[scope |-> "org", scopeId |-> NoId], [scope |-> "org", scopeId |-> "x"],
             [scope |-> "team", scopeId |-> NoId], [scope |-> "team", scopeId |-> "x"]}
MCHooks == {[scope |-> "org", scopeId |-> "y"], [scope |-> "team", scopeId |-> "x"]}
MCEvents == {[id |-> 1, scope |-> "org", scopeId |-> "x"], [id |-> 2, scope |-> "org", scopeId |-> "x"]}

ServicesInit == /\ service \in Services
                /\ service # "migrations" => mgDb = "sql"
                /\ service # "usage" => usKind = "memory"
                /\ QuestionInit /\ CdInit /\ Init /\ MgInit /\ UsInit /\ CbInit /\ HcInit /\ PrInit /\ SkInit

ServicesNext ==
  /\ UNCHANGED service
  /\ \/ /\ service = "questions"
        /\ DecisionsNext \/ ReviewsNext \/ DocumentsNext \/ CostsNext
           \/ RegistryQuestions \/ InstructionsNext \/ ReportsNext
        /\ UNCHANGED <<cdVars, vars, mgVars, usVars, cbVars, hcVars, prVars, skVars>>
     \/ /\ \/ service = "api" /\ ApiNext
           \/ service = "lock" /\ LockNext
           \/ service = "webhooks" /\ HooksNext
        /\ UNCHANGED <<asked, vars, mgVars, usVars, cbVars, hcVars, prVars, skVars>>
     \/ /\ service = "credentials" /\ Next
        /\ UNCHANGED <<asked, cdVars, mgVars, usVars, cbVars, hcVars, prVars, skVars>>
     \/ /\ service = "migrations" /\ MgNext
        /\ UNCHANGED <<asked, cdVars, vars, usVars, cbVars, hcVars, prVars, skVars>>
     \/ /\ service = "usage" /\ UsNext
        /\ UNCHANGED <<asked, cdVars, vars, mgVars, cbVars, hcVars, prVars, skVars>>
     \/ /\ service = "billing" /\ CbNext
        /\ UNCHANGED <<asked, cdVars, vars, mgVars, usVars, hcVars, prVars, skVars>>
     \/ /\ service = "health" /\ HcNext
        /\ UNCHANGED <<asked, cdVars, vars, mgVars, usVars, cbVars, prVars, skVars>>
     \/ /\ service = "propagation" /\ PrNext
        /\ UNCHANGED <<asked, cdVars, vars, mgVars, usVars, cbVars, hcVars, skVars>>
     \/ /\ \/ service = "skills" /\ RegistryNext
           \/ service = "skillHistory" /\ HistoryNext
        /\ UNCHANGED <<asked, cdVars, vars, mgVars, usVars, cbVars, hcVars, prVars>>

ServicesSpec == ServicesInit /\ [][ServicesNext]_serviceVars

(* Reports add up, instruction files keep their precedence, and excerpts,
   patterns, what reviews of policies plan and report, versions, the pages of
   the marketplace, queries and exports agree with their definitions. *)
ReportsSound == /\ ExcerptSound /\ InstructionsSound /\ PatternsSound /\ PolicyReviewsSound
                /\ CostsSound /\ VersionsSound /\ MarketplaceSound /\ QueriesSound /\ ExportsSound
=============================================================================
