------------------------------ MODULE Marketplace ------------------------------
(***************************************************************************)
(* The skill marketplace (packages/core/src/marketplace.ts): its pages, the*)
(* analytics of an author over what was recorded, and its routes.          *)
(*                                                                         *)
(* A skill has the words a search finds it by; ids and names are numbered  *)
(* in their order, times are days.  Raw query parameters that do not parse *)
(* are Garbage, and those that are left out None.                          *)
(***************************************************************************)
EXTENDS Questions, Integers, FiniteSetsExt, SequencesExt, Functions

CONSTANTS MarketSkills,    \* skills that may be registered, of distinct ids
          MarketFilters,   \* raw filters of a listing, and
          MarketLimits,    \* the raw limits and
          MarketOffsets,   \* raw offsets of its page
          DefaultLimit,    \* 25
          MaxLimit,        \* 100
          AnalyticsLimit,  \* 1000
          Installs, Invocations, \* sequences of what was recorded
          MonthStarts,     \* days that begin a month
          Garbage

Clamp(n, low, high) == IF n < low THEN low ELSE IF n > high THEN high ELSE n

-----------------------------------------------------------------------------
(* Pages *)

ParsedInt(raw) == IF raw = Garbage THEN None ELSE raw

OneOf(raw, values) == IF raw \in values THEN raw ELSE None

(* parseQuery: what is unknown is as if it were left out. *)
ParseQuery(raw) ==
  [search |-> raw.search,
   tags |-> raw.tags,
   visibility |-> OneOf(raw.visibility, {"public", "org-private", "team-private", "project-private"}),
   sortBy |-> OneOf(raw.sortBy, {"name", "downloads", "rating", "updatedAt"}),
   sortOrder |-> OneOf(raw.sortOrder, {"asc", "desc"}),
   limit |-> ParsedInt(raw.limit), offset |-> ParsedInt(raw.offset)]

Matching(skills, query) ==
  {s \in skills : /\ query.visibility # None => s.visibility = query.visibility
                  /\ query.search # None => query.search \in s.words
                  /\ query.tags \subseteq s.tags}

(* Skills of one value are in the order of their ids, whatever the direction. *)
SortsFirst(a, b, by, direction) ==
  \/ IF direction = "asc" THEN a[by] < b[by] ELSE a[by] > b[by]
  \/ a[by] = b[by] /\ a.id < b.id

Listing(skills, query) ==
  SetToSortSeq(Matching(skills, query),
               LAMBDA a, b : SortsFirst(a, b, OrElse(query.sortBy, "downloads"), OrElse(query.sortOrder, "desc")))

Slice(s, from, to) == SubSeq(s, from + 1, Clamp(to, 0, Len(s)))

(* A mistake in Page: the offset counts pages. *)
PageByNumber(skills, query) ==
  LET limit == Clamp(OrElse(query.limit, DefaultLimit), 1, MaxLimit)
      offset == IF OrElse(query.offset, 0) > 0 THEN query.offset ELSE 0
      listing == Listing(skills, query)
  IN  [skills |-> Slice(listing, offset * limit, (offset + 1) * limit), total |-> Len(listing),
       limit |-> limit, offset |-> offset]

Page(skills, query) ==
  LET limit == Clamp(OrElse(query.limit, DefaultLimit), 1, MaxLimit)
      offset == IF OrElse(query.offset, 0) > 0 THEN query.offset ELSE 0
      listing == Listing(skills, query)
  IN  [skills |-> Slice(listing, offset, offset + limit), total |-> Len(listing),
       limit |-> limit, offset |-> offset]

MarketPageQuestions ==
  [about : {"marketplace"}, skills : SUBSET MarketSkills, filter : MarketFilters,
   sortBy : {None, Garbage, "name", "rating"}, sortOrder : {None, Garbage, "asc"},
   limit : MarketLimits, offset : MarketOffsets]

RawQuery(q, offset) == [limit |-> q.limit, offset |-> offset, sortBy |-> q.sortBy, sortOrder |-> q.sortOrder] @@ q.filter

(* Whatever page is asked for, its skills stand where the page says they do;
   whoever goes on from its end, until total, sees every matching skill from
   there on once, in the order asked for; and no page is empty before that. *)
PagesCoverListing ==
  AskedAbout("marketplace") =>
    LET first == Page(asked.skills, ParseQuery(RawQuery(asked, asked.offset)))
        next[at \in 0..10] ==
          IF at >= first.total THEN <<>>
          ELSE LET page == Page(asked.skills, ParseQuery(RawQuery(asked, at)))
               IN  page.skills \o next[at + page.limit]
        seen == next[first.offset]
        rest == Listing(asked.skills, ParseQuery(RawQuery(asked, None)))
    IN  /\ first.limit \in 1..MaxLimit /\ first.offset >= 0
        /\ first.offset < first.total => first.skills # <<>>
        /\ Len(first.skills) <= first.limit
        /\ seen = SubSeq(rest, first.offset + 1, first.total)
        /\ IsPrefix(first.skills, seen)

-----------------------------------------------------------------------------
(* Analytics *)

(* Invocations are counted in halves: a fraction is cut off. *)
Invoked(invocation) ==
  LET whole == IF invocation.halves = None THEN 1 ELSE invocation.halves \div 2
  IN  IF whole < 0 THEN 0 ELSE whole

WithinRange(time, start, end) == (start # None => time >= start) /\ (end # None => time < end)

(* The first of the listing, no more than a page of it. *)
AuthorSkills(skills, author) ==
  LET all == [search |-> None, tags |-> {}, visibility |-> None, sortBy |-> None, sortOrder |-> None,
              limit |-> AnalyticsLimit, offset |-> 0]
  IN  {s.id : s \in {t \in Range(Page(skills, all).skills) : t.author = author}}

Total(events, value(_)) == FoldLeft(LAMBDA sum, e : sum + value(e), 0, events)

(* A week begins on a Monday; day 0 is a Thursday. *)
PeriodStart(day, interval) ==
  CASE interval = "daily" -> day
    [] interval = "weekly" -> day - ((day + 3) % 7)
    [] interval = "monthly" -> CHOOSE m \in MonthStarts : m <= day /\ \A n \in MonthStarts : n <= day => n <= m

(* The sum of the amounts of each key. *)
GroupedBy(keys, amounts) ==
  [k \in Range(keys) |-> MapThenSumSet(LAMBDA i : amounts[i], {i \in DOMAIN keys : keys[i] = k})]

(* A mistake in ParameterUsage: a parameter is counted as overridden whenever
   it is given. *)
ParameterUsageWhenGiven(events) ==
  [p \in UNION {e.parameters : e \in Range(events)} |->
     LET using == SelectSeq(events, LAMBDA e : p \in e.parameters)
     IN  [used |-> Total(using, Invoked),
          default |-> Total(SelectSeq(using, LAMBDA e : p \in e.defaults), Invoked),
          overridden |-> Total(using, Invoked)]]

ParameterUsage(events) ==
  [p \in UNION {e.parameters : e \in Range(events)} |->
     LET using == SelectSeq(events, LAMBDA e : p \in e.parameters)
     IN  [used |-> Total(using, Invoked),
          default |-> Total(SelectSeq(using, LAMBDA e : p \in e.defaults), Invoked),
          overridden |-> Total(SelectSeq(using, LAMBDA e : p \notin e.defaults), Invoked)]]

AuthorAnalytics(skills, author, query) ==
  LET ids == AuthorSkills(skills, author)
      chosen(events) == SelectSeq(events, LAMBDA e : e.skill \in ids /\ WithinRange(e.time, query.start, query.end))
      installs == chosen(Installs)
      invocations == chosen(Invocations)
      periods(events) == [i \in DOMAIN events |-> PeriodStart(events[i].time, OrElse(query.interval, "daily"))]
      ones == [i \in DOMAIN installs |-> 1]
  IN  [byVersion |-> GroupedBy([i \in DOMAIN installs |-> installs[i].version], ones),
       overTime |-> GroupedBy(periods(installs), ones),
       total |-> Total(invocations, Invoked),
       frequency |-> GroupedBy(periods(invocations), [i \in DOMAIN invocations |-> Invoked(invocations[i])]),
       parameters |-> ParameterUsage(invocations)]

MarketIntervals == {None, "weekly", "monthly"}

MarketAnalyticsQuestions ==
  [about : {"author analytics"}, skills : SUBSET MarketSkills, interval : MarketIntervals,
   start : {None, 4}, end : {None, 32}]

SumOf(f) == FoldFunction(LAMBDA a, b : a + b, 0, f)

(* What an author is shown adds up: the installations by version and by
   period, the invocations by period and in all, and a parameter's uses.  All
   authors together are shown every installation in the period, except of the
   skills that come after the first page of the marketplace. *)
AnalyticsAddUp ==
  AskedAbout("author analytics") =>
    LET shown == [a \in {s.author : s \in MarketSkills} |-> AuthorAnalytics(asked.skills, a, asked)]
        within == SelectSeq(Installs, LAMBDA e : WithinRange(e.time, asked.start, asked.end))
        listed == UNION {AuthorSkills(asked.skills, a) : a \in DOMAIN shown}
    IN  /\ \A a \in DOMAIN shown :
             /\ SumOf(shown[a].byVersion) = SumOf(shown[a].overTime)
             /\ SumOf(shown[a].frequency) = shown[a].total
             /\ \A p \in DOMAIN shown[a].parameters :
                  LET usage == shown[a].parameters[p]
                  IN  usage.used = usage.default + usage.overridden /\ usage.used <= shown[a].total
             /\ \A t \in DOMAIN shown[a].overTime :
                  /\ PeriodStart(t, OrElse(asked.interval, "daily")) = t
                  /\ \E e \in Range(Installs) : t <= e.time
        /\ SumOf([a \in DOMAIN shown |-> SumOf(shown[a].byVersion)])
             = Len(SelectSeq(within, LAMBDA e : e.skill \in listed))
        /\ Cardinality(asked.skills) <= MaxLimit => listed = {s.id : s \in asked.skills}

-----------------------------------------------------------------------------
(* Routes: a path, after its base, is a sequence of segments. *)

StartsWith(path, prefix) == Len(prefix) <= Len(path) /\ SubSeq(path, 1, Len(prefix)) = prefix
EndsWith(path, suffix) == Len(suffix) <= Len(path) /\ SubSeq(path, Len(path) - Len(suffix) + 1, Len(path)) = suffix

(* What is between a prefix and a suffix, which may overlap. *)
InsideOf(path, before, after) ==
  IF Len(path) <= before + after THEN <<>> ELSE SubSeq(path, before + 1, Len(path) - after)

Response(status, what, name) == [status |-> status, what |-> what, name |-> name]

AnalyticsResponse(name, what, configured) ==
  IF ~configured THEN Response(501, "error", <<>>)
  ELSE IF name \in {<<>>, <<"">>} THEN Response(400, "error", <<>>)
  ELSE Response(200, what, name)

Handle(method, path, ids, configured) ==
  IF method # "GET" THEN Response(405, "error", <<>>)
  ELSE IF path = <<"skills">> THEN Response(200, "page", <<>>)
  ELSE IF path = <<"skills", "builder">> THEN Response(200, "builder", <<>>)
  ELSE IF StartsWith(path, <<"skills">>)
    THEN LET id == Tail(path)
         IN  IF id = <<"">> THEN Response(400, "error", <<>>)
             ELSE IF id \in ids THEN Response(200, "skill", id) ELSE Response(404, "error", <<>>)
  ELSE IF StartsWith(path, <<"authors">>) /\ Len(path) > 1 /\ EndsWith(path, <<"analytics">>)
    THEN AnalyticsResponse(InsideOf(path, 1, 1), "analytics", configured)
  ELSE IF StartsWith(path, <<"authors">>) /\ Len(path) > 1 /\ EndsWith(path, <<"analytics", "dashboard">>)
    THEN AnalyticsResponse(InsideOf(path, 1, 2), "dashboard", configured)
  ELSE Response(404, "error", <<>>)

Segments == {"builder", "skills", "authors", "analytics", "dashboard"}

RouteQuestions == [about : {"market route"}, name : TupleOf(Segments, 1) \cup TupleOf(Segments, 2),
                   configured : BOOLEAN]

(* A registered skill is found under its id, however many segments that has,
   except one that is called "builder"; an author's analytics and dashboard are
   shown under every name. *)
RoutesReachAll ==
  AskedAbout("market route") =>
    LET at(path) == Handle("GET", path, {asked.name}, asked.configured)
    IN  /\ asked.name # <<"builder">> => at(<<"skills">> \o asked.name) = Response(200, "skill", asked.name)
        /\ asked.configured =>
             /\ at(<<"authors">> \o asked.name \o <<"analytics">>) = Response(200, "analytics", asked.name)
             /\ at(<<"authors">> \o asked.name \o <<"analytics", "dashboard">>)
                  = Response(200, "dashboard", asked.name)
        /\ ~asked.configured =>
             at(<<"authors">> \o asked.name \o <<"analytics">>).status = 501

(* Pages, analytics and routes of the marketplace. *)
MarketplaceSound == PagesCoverListing /\ AnalyticsAddUp /\ RoutesReachAll
=============================================================================
