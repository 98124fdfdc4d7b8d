----------------------------- MODULE Statistics -----------------------------
(* What the numbers of a project are: the queries of EventRepository and the
   use cases in front of them, as operators on the rows of one project.

   Every query is one statement, so it sees the tables as they are at one
   moment; a page is several of them (Dashboard).  A count is a number of rows;
   a breakdown is a set of groups, each a name with its count.  An empty column
   is None.  Top referrers are left out: top paths, of another column. *)
EXTENDS Naturals, FiniteSets, Functions

CONSTANTS rows,    \* the project's part of table events: a row per id
          named,   \* its visitors that have a name
          None,
          Limit,   \* groups of a breakdown, samples of a drill-down (10, 20, 50)
          Day,     \* the instants of a day ...
          Week     \* ... and of the range used when none is given

Min2(a, b) == IF a < b THEN a ELSE b

-----------------------------------------------------------------------------
(* Filters: [since, until, excludeNamed, includeBots]. *)

\* A range not given ends now, and begins a week before its end.
Default(now) == [since |-> IF now > Week THEN now - Week ELSE 0, until |-> now,
                 excludeNamed |-> FALSE, includeBots |-> FALSE]

InRange(f) == {e \in DOMAIN rows : f.since <= rows[e].at /\ rows[e].at < f.until}

\* A mistake in the range: its end belongs to it.
SelectedToTheEnd(f) ==
  {e \in DOMAIN rows : /\ f.since <= rows[e].at /\ rows[e].at <= f.until
                       /\ f.excludeNamed => rows[e].visitor \notin named
                       /\ f.includeBots \/ rows[e].device # "bot"}

\* The range and filterClause, which all queries of Stats have in common.
Selected(f) == {e \in InRange(f) : /\ f.excludeNamed => rows[e].visitor \notin named
                                   /\ f.includeBots \/ rows[e].device # "bot"}

-----------------------------------------------------------------------------
(* Breakdowns. *)

\* GROUP BY key, a function on the rows to group, with COUNT.
Groups(key) ==
  {[name |-> k, count |-> Cardinality({e \in DOMAIN key : key[e] = k})] : k \in Range(key)}

\* ORDER BY c DESC LIMIT: the larger ones, ties as they come.
Top(groups) ==
  CHOOSE top \in SUBSET groups :
    /\ Cardinality(top) = Min2(Limit, Cardinality(groups))
    /\ \A g \in top, h \in groups \ top : g.count >= h.count

TopPaths(S) == Top(Groups([e \in {d \in S : rows[d].path # None} |-> rows[e].path]))

VisitsOverTime(S) == Groups([e \in S |-> rows[e].at \div Day])

GroupBy(S, column) ==
  Top(Groups([e \in {d \in S : rows[d][column] # None} |-> rows[e][column]]))

EventNameBreakdown(S, type) ==
  Top(Groups([e \in {d \in S : rows[d].type = type /\ rows[d].name # None} |-> rows[e].name]))

\* EventRepository.Stats.
Stats(f) ==
  LET S == Selected(f) IN
  [totalEvents      |-> Cardinality(S),
   uniqueVisitors   |-> Cardinality({rows[e].visitor : e \in S}),
   topPaths         |-> TopPaths(S),
   visitsOverTime   |-> VisitsOverTime(S),
   deviceTypes      |-> GroupBy(S, "device"),
   browsers         |-> GroupBy(S, "browser"),
   operatingSystems |-> GroupBy(S, "os"),
   customEventNames |-> EventNameBreakdown(S, "custom"),
   errorEventNames  |-> EventNameBreakdown(S, "error")]

-----------------------------------------------------------------------------
(* One event name.  Neither query knows filterClause. *)

Called(f, type, name) == {e \in InRange(f) : rows[e].type = type /\ rows[e].name = name}

\* A mistake in RecentByName: the beginning of the range is left out.
RecentAfter(f, type, name) ==
  LET S == {e \in Called(f, type, name) : rows[e].at > f.since} IN
  CHOOSE T \in SUBSET S : /\ Cardinality(T) = Min2(Limit, Cardinality(S))
                          /\ \A d \in T, e \in S \ T : rows[d].at >= rows[e].at

\* RecentByName: the newest ones.
RecentByName(f, type, name) ==
  LET S == Called(f, type, name) IN
  CHOOSE T \in SUBSET S : /\ Cardinality(T) = Min2(Limit, Cardinality(S))
                          /\ \A d \in T, e \in S \ T : rows[d].at >= rows[e].at

\* A mistake in the query of a panel: the key need not be there (the check `metadata ? $5`).
KeyedOrNot(f, name) == Called(f, "custom", name)

\* The events of that name whose metadata has the key a panel groups by.
Keyed(f, name) == {e \in Called(f, "custom", name) : rows[e].meta # "absent"}

(* MetadataBreakdown.  metadata->>key of a JSON null is a NULL group, which does
   not scan into a string: the query fails if the group is among those shown. *)
MetadataBreakdown(f, name) ==
  LET top == Top(Groups([e \in Keyed(f, name) |-> rows[e].meta]))
      err == \E g \in top : g.name = "null" IN
  [err |-> err, groups |-> IF err THEN {} ELSE top]

\* computePanelRows: a breakdown that failed leaves the panel empty.
PanelRows(f, name) ==
  LET b == MetadataBreakdown(f, name) IN IF b.err THEN {} ELSE b.groups
=============================================================================
