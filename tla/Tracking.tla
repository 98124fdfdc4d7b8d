------------------------------ MODULE Tracking ------------------------------
(* From a page to a row: the browser SDK (sdk/js/src/traccia.js) in the tabs
   of one browser on one site, the network, and the public routes
   POST /api/v1/track and POST /api/v1/identify with the visitor upsert.

   A tab is single-threaded, so a step of it is a whole JavaScript task; only
   the cookie, which all tabs share, is read and written in separate steps.
   The SDK sends and forgets: a call may be lost, refused, dropped, and overtaken
   by later ones, also after its tab is gone (fetch with keepalive).  A handler
   is one step, for it has one statement.

   A call is its number in `sent`; names and traits that identify gives are told
   apart by the call that gave them (0: none).  Of the metadata there is one key.  The time stamp of an event is its place in
   `log`: events are stored in the order of their time stamps.  Left out: the
   referrer, and what a plugin rewrites beyond the name (PluginHost). *)
EXTENDS Naturals, Sequences, FiniteSets, FiniteSetsExt

CONSTANTS Tabs,
          Visitors,    \* visitor ids, as many as crypto.randomUUID may mint (bound)
          Paths,
          Traits,      \* the keys of identify's properties
          Metas,       \* what a metadata key may hold: "absent", "null" (JSON) or values (bound)
          Agents,      \* the User-Agent headers to tell apart (UserAgent)
          Limit,       \* Statistics
          Day,
          Week,
          None,
          MaxErrors,   \* MAX_AUTO_ERRORS_PER_LOAD
          MaxSends,    \* calls in a behaviour (bound)
          MaxEras      \* how often the cookie may be cleared or expire (bound)

ASSUME TrackingAssumption ==
  /\ None \notin Visitors \cup Paths
  /\ None \notin [name : 0..MaxSends, traits : [Traits -> 0..MaxSends]]
  /\ IsFiniteSet(Tabs)
  /\ Limit \in Nat \ {0} /\ Day \in Nat \ {0} /\ Week \in Nat
  /\ MaxErrors \in Nat /\ MaxSends \in Nat /\ MaxEras \in Nat

VARIABLES cookie,     \* _traccia_vid
          tab,        \* per tab: the Traccia instance and the location
          sent,       \* the calls of _send, in order
          flying,     \* those that have neither arrived nor got lost
          log,        \* the calls whose statement was executed, in order
          blanked,    \* those whose name a plugin emptied
          visitors,   \* table visitors
          era,        \* history: how often the cookie was lost
          raced       \* history: a load overwrote another's new cookie

vars == <<cookie, tab, sent, flying, log, blanked, visitors, era, raced>>

Closed == [pc |-> "closed", id |-> None, found |-> FALSE, path |-> None, last |-> None,
           errors |-> 0, load |-> 0, era |-> 0]

Init == /\ cookie = None
        /\ tab = [t \in Tabs |-> Closed]
        /\ sent = <<>>
        /\ flying = {}
        /\ log = <<>>
        /\ blanked = {}
        /\ visitors = [v \in Visitors |-> None]
        /\ era = 0
        /\ raced = FALSE

-----------------------------------------------------------------------------
(* The SDK. *)

\* Ids nobody has used: those crypto.randomUUID may return.
Unused == {v \in Visitors : /\ cookie # v
                            /\ \A t \in Tabs : tab[t].id # v
                            /\ \A i \in DOMAIN sent : sent[i].visitor # v}

\* getOrCreateVisitorId reads the cookie, and mints an id if there is none.
ReadCookie(t) ==
  /\ tab[t].pc = "closed"
  /\ \E id \in (IF cookie = None THEN Unused ELSE {cookie}), p \in Paths :
       tab' = [tab EXCEPT ![t] = [Closed EXCEPT !.pc = "loading", !.id = id, !.path = p,
                                                !.found = cookie # None, !.era = era]]
  /\ UNCHANGED <<cookie, sent, flying, log, blanked, visitors, era, raced>>

Call == [op |-> "track", kind |-> "pageview", named |-> FALSE, traits |-> {},
         meta |-> "absent", auto |-> FALSE]

\* _send of a call c by tab t, which is in state q from now on.
Send(t, q, c) ==
  /\ Len(sent) < MaxSends
  /\ tab' = [tab EXCEPT ![t] = q]
  /\ sent' = Append(sent, [op |-> c.op, kind |-> c.kind, named |-> c.named,
                           traits |-> c.traits, meta |-> c.meta, auto |-> c.auto,
                           visitor |-> q.id, path |-> IF c.op = "track" THEN q.path ELSE None,
                           load |-> q.load, era |-> q.era])
  /\ flying' = flying \cup {Len(sent) + 1}
  /\ UNCHANGED <<log, blanked, visitors, era>>

\* A mistake in _trackPageview: the path is not remembered.
TrackPageviewForgetting(t, q) ==
  IF q.path = q.last
    THEN tab' = [tab EXCEPT ![t] = q] /\ UNCHANGED <<sent, flying, log, blanked, visitors, era>>
    ELSE Send(t, q, [Call EXCEPT !.auto = TRUE])

\* _trackPageview, after tab t has come to state q.
TrackPageview(t, q) ==
  IF q.path = q.last
    THEN tab' = [tab EXCEPT ![t] = q] /\ UNCHANGED <<sent, flying, log, blanked, visitors, era>>
    ELSE Send(t, [q EXCEPT !.last = q.path], [Call EXCEPT !.auto = TRUE])

\* A mistake in getOrCreateVisitorId: the id is not kept.
StartWithoutCookie(t) ==
  /\ tab[t].pc = "loading"
  /\ TrackPageview(t, [tab[t] EXCEPT !.pc = "ready", !.found = FALSE, !.load = Len(sent) + 1])
  /\ UNCHANGED <<cookie, raced>>

\* The rest of init: a new id goes into the cookie, the page is reported.
Start(t) ==
  /\ tab[t].pc = "loading"
  /\ cookie' = IF tab[t].found THEN cookie ELSE tab[t].id
  /\ raced' = (raced \/ (~tab[t].found /\ cookie # None))
  /\ TrackPageview(t, [tab[t] EXCEPT !.pc = "ready", !.found = FALSE, !.load = Len(sent) + 1,
                                     !.era = IF tab[t].found THEN @ ELSE era])

\* pushState, replaceState and popstate, to the same path or another.
Navigate(t) ==
  /\ tab[t].pc = "ready"
  /\ \E p \in Paths : TrackPageview(t, [tab[t] EXCEPT !.path = p])
  /\ UNCHANGED <<cookie, raced>>

\* A click on a [data-traccia-event], or a call of the page's own script: without a
\* name, track sends a page view, and trackError what the server will refuse.  The
\* cap on errors does not count these.
Report(t) ==
  /\ tab[t].pc = "ready"
  /\ \E c \in {Call} \cup {[Call EXCEPT !.kind = "error", !.named = b] : b \in BOOLEAN} \cup
              {[Call EXCEPT !.kind = "custom", !.named = TRUE, !.meta = x] : x \in Metas} :
       Send(t, tab[t], c)
  /\ UNCHANGED <<cookie, raced>>

\* A mistake in _captureErrors: one error too many.
CaptureErrorOneMore(t) ==
  /\ tab[t].pc = "ready" /\ tab[t].errors <= MaxErrors
  /\ Send(t, [tab[t] EXCEPT !.errors = @ + 1], [Call EXCEPT !.kind = "error", !.named = TRUE])
  /\ UNCHANGED <<cookie, raced>>

\* An uncaught exception or rejection: reported as long as the cap allows.
CaptureError(t) ==
  /\ tab[t].pc = "ready" /\ tab[t].errors < MaxErrors
  /\ Send(t, [tab[t] EXCEPT !.errors = @ + 1], [Call EXCEPT !.kind = "error", !.named = TRUE])
  /\ UNCHANGED <<cookie, raced>>

\* traccia.identify(properties, name).
IdentifyCall(t) ==
  /\ tab[t].pc = "ready"
  /\ \E named \in BOOLEAN, traits \in SUBSET Traits :
       Send(t, tab[t], [Call EXCEPT !.op = "identify", !.named = named, !.traits = traits])
  /\ UNCHANGED <<cookie, raced>>

\* The tab is closed or leaves the site; its calls stay under way.
Close(t) ==
  /\ tab[t].pc # "closed"
  /\ tab' = [tab EXCEPT ![t] = Closed]
  /\ UNCHANGED <<cookie, sent, flying, log, blanked, visitors, era, raced>>

\* The cookie is cleared, or its two years are over.
CookieGone ==
  /\ cookie # None /\ era < MaxEras
  /\ cookie' = None
  /\ era' = era + 1
  /\ UNCHANGED <<tab, sent, flying, log, blanked, visitors, raced>>

-----------------------------------------------------------------------------
(* Network and server. *)

\* Lost on the way, or refused by the route's rate limiter with 429.
Lose(i) ==
  /\ i \in flying
  /\ flying' = flying \ {i}
  /\ UNCHANGED <<cookie, tab, sent, log, blanked, visitors, era, raced>>

\* TrackEvent.Execute refuses a custom event or an error without a name.
Valid(c) == c.kind \in {"custom", "error"} => c.named

(* HandleTrack: an invalid event is refused, a valid one may be dropped by a
   plugin or fail in the database, or it is stored; plugins run after it was
   validated, and may leave it without its name. *)
Track(i) ==
  /\ i \in flying /\ sent[i].op = "track"
  /\ flying' = flying \ {i}
  /\ \/ UNCHANGED <<log, blanked>>
     \/ /\ Valid(sent[i])
        /\ log' = Append(log, i)
        /\ blanked' = blanked \/ (sent[i].named /\ blanked' = blanked \cup {i})
  /\ UNCHANGED <<cookie, tab, sent, visitors, era, raced>>

Row(v) == IF visitors[v] # None THEN visitors[v] ELSE [name |-> 0, traits |-> [x \in Traits |-> 0]]

\* A mistake in Upsert: properties are replaced.
UpsertReplacing(i) ==
  LET v == sent[i].visitor IN
  visitors' = [visitors EXCEPT ![v] =
    [name   |-> IF sent[i].named THEN i ELSE Row(v).name,
     traits |-> [x \in Traits |-> IF x \in sent[i].traits THEN i ELSE 0]]]

\* VisitorRepository.Upsert: an empty name keeps the old one, properties merge.
Upsert(i) ==
  LET v == sent[i].visitor IN
  visitors' = [visitors EXCEPT ![v] =
    [name   |-> IF sent[i].named THEN i ELSE Row(v).name,
     traits |-> [x \in Traits |-> IF x \in sent[i].traits THEN i ELSE Row(v).traits[x]]]]

\* HandleIdentify; its statement may fail.
Identify(i) ==
  /\ i \in flying /\ sent[i].op = "identify"
  /\ flying' = flying \ {i}
  /\ \/ UNCHANGED <<log, blanked, visitors>>
     \/ log' = Append(log, i) /\ Upsert(i)
  /\ UNCHANGED <<cookie, tab, sent, blanked, era, raced>>

Next == \/ \E t \in Tabs : \/ ReadCookie(t) \/ Start(t) \/ Navigate(t) \/ Report(t)
                           \/ CaptureError(t) \/ IdentifyCall(t) \/ Close(t)
        \/ CookieGone
        \/ \E i \in 1..MaxSends : Lose(i) \/ Track(i) \/ Identify(i)

Spec == Init /\ [][Next]_vars

-----------------------------------------------------------------------------
(* Properties. *)

CallType == [op : {"track", "identify"}, kind : {"pageview", "custom", "error"},
             named : BOOLEAN, traits : SUBSET Traits, meta : Metas \cup {"absent"},
             auto : BOOLEAN, visitor : Visitors, path : Paths \cup {None},
             load : 1..MaxSends, era : 0..MaxEras]

TabType == [pc : {"closed", "loading", "ready"}, id : Visitors \cup {None},
            found : BOOLEAN, path : Paths \cup {None}, last : Paths \cup {None},
            errors : 0..MaxErrors, load : 0..MaxSends, era : 0..MaxEras]

(* Everything is well formed, and no load reports more uncaught errors than the
   SDK's cap (MAX_AUTO_ERRORS_PER_LOAD). *)
TypeOK ==
  /\ cookie \in Visitors \cup {None}
  /\ tab \in [Tabs -> TabType]
  /\ sent \in Seq(CallType) /\ Len(sent) <= MaxSends
  /\ flying \subseteq DOMAIN sent
  /\ log \in Seq(DOMAIN sent \ flying)
  /\ blanked \subseteq {log[n] : n \in DOMAIN log}
  /\ visitors \in [Visitors -> [name : 0..MaxSends, traits : [Traits -> 0..MaxSends]] \cup {None}]
  /\ era \in 0..MaxEras /\ raced \in BOOLEAN

\* The automatic page views of a load.
Views(load) == {i \in DOMAIN sent : sent[i].auto /\ sent[i].load = load}

(* "One pageview per distinct path" (_trackPageview): two page views of one load
   with none between them are of different pages, and the page a tab shows is the
   one it reported last. *)
OnePageviewPerPath ==
  /\ \A i, j \in DOMAIN sent :
       /\ i < j /\ i \in Views(sent[j].load) /\ j \in Views(sent[j].load)
       /\ \A k \in Views(sent[j].load) : k <= i \/ k >= j
       => sent[i].path # sent[j].path
  /\ \A t \in Tabs : tab[t].pc = "ready" =>
       \E i \in Views(tab[t].load) : /\ sent[i].path = tab[t].path
                                     /\ \A k \in Views(tab[t].load) : k <= i

\* The positions in log of the identify calls for visitor v that pass Test.
Applied(v, Test(_)) ==
  {n \in DOMAIN log : LET c == sent[log[n]] IN
     c.op = "identify" /\ c.visitor = v /\ Test(c)}

\* The last call at positions S of log, 0 if there is none.
LastCall(S) == IF S = {} THEN 0 ELSE log[CHOOSE n \in S : \A m \in S : m <= n]

(* "keeps any previously set Name if this call doesn't provide a new one, and
   merges (rather than replaces) Properties" (Upsert): in whatever order calls of
   however many tabs arrive, each trait and the name are those of the last applied
   call that gave one. *)
NothingGivenIsLost ==
  \A v \in Visitors :
    /\ Row(v).name = LastCall(Applied(v, LAMBDA c : c.named))
    /\ \A x \in Traits : Row(v).traits[x] = LastCall(Applied(v, LAMBDA c : x \in c.traits))

(* "stable per-browser UUID, set via cookie by the SDK" (domain.Event): from one
   loss of the cookie to the next, one browser is one visitor however many tabs
   it has; if first loads raced for the cookie, at most one per tab. *)
BrowserIsOneVisitor ==
  LET ids(e) == {sent[i].visitor : i \in {j \in DOMAIN sent : sent[j].era = e}} IN
  \A e \in 0..era : Cardinality(ids(e)) <= IF raced THEN Cardinality(Tabs) ELSE 1

-----------------------------------------------------------------------------
(* What the dashboard makes of it. *)

Device == INSTANCE UserAgent

\* None, the empty column, is neither an event's name nor a device, browser or system.
ASSUME NoneIsEmpty == None \notin Device!Answers \cup {"custom", "error"}

\* Table events, if ua is the browser's User-Agent.
Table(ua) ==
  LET d == Device!Parse(ua) IN
  [n \in {m \in DOMAIN log : sent[log[m]].op = "track"} |->
    LET c == sent[log[n]] IN
    [visitor |-> c.visitor, type |-> c.kind, path |-> c.path, meta |-> c.meta, at |-> n,
     name |-> IF c.named /\ log[n] \notin blanked THEN c.kind ELSE None,
     device |-> d.device, browser |-> d.browser, os |-> d.os]]

Named == {v \in Visitors : Row(v).name # 0}

Stat(rows, named) == INSTANCE Statistics

Now == Len(log) + 1

\* Every content of the tables is reached with nothing under way: the rest is looked at then.
Quiet == flying = {} /\ \A t \in Tabs : tab[t].pc = "closed"

Filters(since, until) == [since : {since}, until : {until},
                          excludeNamed : BOOLEAN, includeBots : BOOLEAN]

Sum(groups) == MapThenSumSet(LAMBDA g : g.count, groups)

(* "an owner tagging their own browser ... so stats queries can exclude it"
   (domain.Visitor): once an identify with a name is applied, exclude_named hides
   every event of that browser, of all its tabs, past and to come -- as long as
   its cookie was kept and no two first loads raced for it. *)
OwnerIsExcluded ==
  Quiet /\ ~raced => \A ua \in Agents, f \in Filters(0, Now), n, m \in DOMAIN log :
    LET c == sent[log[n]]
        d == sent[log[m]] IN
    /\ c.op = "identify" /\ c.named /\ d.op = "track" /\ d.era = c.era
    /\ f.excludeNamed
    => m \notin Stat(Table(ua), Named)!Selected(f)

(* A page's numbers are of nine statements with the same range and filters
   (Stats): the days, devices, browsers and systems each add up to the total; the
   names fall short of it by the page views and by the events a plugin left
   without a name (jsValueToEvent), by nothing else; and a range cut in two loses
   no event and counts none twice. *)
NumbersAgree ==
  Quiet => \A ua \in Agents, cut \in 0..Now : \A f \in Filters(0, Now) :
    LET rows  == Table(ua)
        s     == Stat(rows, Named)!Stats(f)
        older == Stat(rows, Named)!Stats([f EXCEPT !.until = cut])
        newer == Stat(rows, Named)!Stats([f EXCEPT !.since = cut])
        S     == Stat(rows, Named)!Selected(f) IN
    /\ Sum(s.visitsOverTime) = s.totalEvents
    /\ \A g \in {s.deviceTypes, s.browsers, s.operatingSystems} : Sum(g) = s.totalEvents
    /\ Sum(s.customEventNames) + Sum(s.errorEventNames)
         + Cardinality({n \in S : sent[log[n]].kind = "pageview" \/ log[n] \in blanked})
         = s.totalEvents
    /\ older.totalEvents + newer.totalEvents = s.totalEvents
    /\ s.uniqueVisitors <= older.uniqueVisitors + newer.uniqueVisitors

(* "the dashboard counts that event's occurrences per value of the metadata key
   (metadata->>'key', events missing it are excluded) over the selected range"
   (docs/plugins.md; computePanelRows, MetadataBreakdown): each value is in the
   panel with all its events, unless the panel is full of values that have no
   fewer; and nothing else is in it.  Not so if the key of one such event is a JSON
   null: it may cost the others their place, as the query then fails. *)
PanelCountsEveryValue ==
  Quiet => \A ua \in Agents, since \in 0..Now :
    LET rows    == Table(ua)
        f       == [Stat(rows, Named)!Default(Now) EXCEPT !.since = since]
        panel   == Stat(rows, Named)!PanelRows(f, "custom")
        meta(n) == sent[log[n]].meta
        K       == {n \in Stat(rows, Named)!Called(f, "custom", "custom") : meta(n) # "absent"}
        same(n) == Cardinality({m \in K : meta(m) = meta(n)}) IN
    (\A n \in K : meta(n) # "null") =>
    /\ \A n \in K : \/ [name |-> meta(n), count |-> same(n)] \in panel
                    \/ Cardinality(panel) = Limit /\ \A g \in panel : g.count >= same(n)
    /\ \A g \in panel : \E n \in K : g.name = meta(n)

\* Who had a name at an earlier instant.
NamedBefore(asked) ==
  {v \in Visitors : \E n \in Applied(v, LAMBDA c : c.named) : n < asked}

(* The page lists a name with its number of events, the drill-down asks again when
   the name is clicked, for the seven days before that moment, without the page's
   filters and whatever range the page had (handleEventDrilldown, GetEventSamples):
   however much later it is, and whatever was tracked and identified meanwhile, it
   shows as many as the page counted less those older than the seven days, or it
   is full. *)
DrilldownFollowsPage ==
  Quiet => \A ua \in Agents, asked \in 0..Now, type \in {"custom", "error"} :
    LET rows  == Table(ua)
        then  == NamedBefore(asked)
        later == Stat(rows, Named)!Default(Now) IN
    \A since \in 0..asked : \A f \in Filters(since, asked) :
      LET counted == Stat(rows, then)!Selected(f) IN
      \A g \in Stat(rows, then)!EventNameBreakdown(counted, type) :
        LET shown == Stat(rows, Named)!RecentByName(later, type, g.name)
            past  == {n \in counted : /\ rows[n].type = type /\ rows[n].name = g.name
                                      /\ rows[n].at < later.since} IN
        Cardinality(shown) = Limit \/ Cardinality(shown) + Cardinality(past) >= g.count
=============================================================================
