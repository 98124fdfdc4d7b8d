----------------------------- MODULE Dashboard -----------------------------
(* The dashboard (internal/adapters/dashboard), the admin panel's way into it
   (handleViewProject), GET /api/v1/stats, and the queries of their pages, over the tables of
   Projects, of which this module is the reading side: Projects runs beside it,
   with its own requests, and writes between any two statements of a page.

   A browser has two cookies, and sends each only where its Path allows
   (session.New).  A dashboard session is nothing but the id of a project,
   signed, that the server never looks at again.  Of the admin cookie the
   dashboard asks no more than a signature, made with the secret of both cookies,
   and an age of less than seven days; who holds one is not this module's subject.

   A page reads statement after statement, with no transaction.  Its window
   ends when it was asked for: `window` is the events created before that, as
   far as they are stored, `early` the requests still about to store one.
   What a statement counts is abstracted to the set of events it counts.  Of the
   filters, exclude_named depends on rows that change meanwhile, so the events'
   visitors and the visitors' names are added to the tables of Projects.  Left out:
   the login rate limiter, what the numbers are made of and the filter of bots
   (Statistics), the lower end of the window, rendering. *)
EXTENDS Naturals, Sequences, FiniteSets

CONSTANTS Requests, Ids, Names, Keys, Visitors, MaxEvents, None, WritesOverlap,
          Pages,       \* dashboard requests the server works on at once (bound)
          Browsers,
          Queries,     \* the statements of EventRepository.Stats (nine in the code)
          AdminAreas   \* where requests carry the admin session: "admin", "dashboard"

ASSUME DashboardAssumption == /\ Queries \in Nat \ {0}
                              /\ AdminAreas \subseteq {"admin", "dashboard"}
                              /\ None \notin Ids \cup Names \cup Keys \cup Browsers
                              /\ None \notin [name : Names, key : Keys]
                              /\ MaxEvents \in Nat
                              /\ WritesOverlap \in BOOLEAN

VARIABLES projects, events, visitors, serial, req, issued, retired, accepted,
          by,      \* column visitor_id of table events
          named,   \* the rows of table visitors that have a name
          jar,     \* per browser: project of its dashboard session; whether the admin
                   \* session verifies what it keeps under the admin cookie's name
          admins,  \* the browsers whose admin's account exists (one account each)
          page,    \* the slots of dashboard requests
          panels   \* Deps.Panels: the rows of the one panel, shared by all requests

P == INSTANCE Projects

tables == <<projects, events, visitors, serial, req, issued, retired, accepted, by, named>>
vars == <<tables, jar, admins, page, panels>>

Idle == [op |-> "none", pc |-> "idle", browser |-> None, project |-> None, key |-> None,
         admin |-> FALSE, exclude |-> FALSE, answer |-> "keep", read |-> <<>>, panel |-> {},
         offer |-> FALSE, window |-> {}, early |-> {},
         gone |-> FALSE, stale |-> FALSE, holds |-> FALSE, orphan |-> FALSE, failed |-> FALSE]

Init == /\ P!Init
        /\ by = [e \in P!EventIds |-> None]
        /\ named = {}
        /\ jar = [b \in Browsers |-> [session |-> None, admin |-> FALSE]]
        /\ admins = Browsers
        /\ page = [g \in Pages |-> Idle]
        /\ panels = {}

-----------------------------------------------------------------------------
(* Cookies. *)

(* SubjectFromRequest of the admin session succeeds: the request to this part of
   the server brings a value under the admin cookie's name, rightly signed and not
   expired.  Name and path are not signed, so no more is known of the value. *)
SendsAdmin(b, area) == jar[b].admin /\ area \in AdminAreas

(* What a client keeps under the admin cookie's name changes: by a login or logout
   at the admin panel, when its seven days are over, or by the client's doing. *)
AdminCookie(b) ==
  /\ \E a \in BOOLEAN : jar' = [jar EXCEPT ![b].admin = a]
  /\ UNCHANGED <<tables, admins, page, panels>>

\* Another admin deletes the account; the cookie stays.
AccountDeleted(b) ==
  /\ b \in admins
  /\ admins' = admins \ {b}
  /\ UNCHANGED <<tables, jar, page, panels>>

SessionExpires(b) ==
  /\ jar' = [jar EXCEPT ![b].session = None]
  /\ UNCHANGED <<tables, admins, page, panels>>

-----------------------------------------------------------------------------
(* Arrival.  History: `gone` notes that the project was already deleted,
   `stale` that the key was already replaced, `holds` that a page's browser
   has an admin cookie, `orphan` that a view's account was already deleted. *)

Begin(g, b, new) ==
  /\ page[g].pc = "idle"
  /\ page' = [page EXCEPT ![g] = [new EXCEPT
       !.browser = b,
       !.holds = new.op = "overview" /\ jar[b].admin,
       !.orphan = new.op = "view" /\ b \notin admins,
       !.gone = new.project # None /\ new.project \notin P!Live,
       !.stale = new.key \in retired]]
  /\ UNCHANGED <<tables, jar, admins, panels>>

\* The keys that were shown to an admin once.
Known == {k \in Keys : issued[k] # None}

\* POST /dashboard/login.
ArriveLogin(g, b) ==
  \E k \in Known : Begin(g, b, [Idle EXCEPT !.op = "login", !.pc = "auth", !.key = k])

\* GET /api/v1/stats.
ArriveAPI(g, b) ==
  \E k \in Known, exclude \in BOOLEAN :
    Begin(g, b, [Idle EXCEPT !.op = "api", !.pc = "auth", !.key = k, !.exclude = exclude])

\* POST /dashboard/logout.
ArriveLogout(g, b) == Begin(g, b, [Idle EXCEPT !.op = "logout", !.pc = "reply", !.answer = "clear"])

\* The events created so far: `until` is read from the clock.
StatsWindow == 1..(serial - 1)

\* Page q whose window ends now.
UntilNow(q) == {[q EXCEPT !.window = StatsWindow, !.early = early] :
                  early \in SUBSET {r \in Requests : req[r].op = "track"}}

(* Behind requireSession: GET /dashboard, as a page ("overview") or as the fragment
   HTMX asks for, with or without the named visitors, and the drill-down into an
   event's name. *)
ArriveOverview(g, b) ==
  /\ jar[b].session # None
  /\ \E op \in {"overview", "fragment", "drilldown"}, exclude \in BOOLEAN :
     /\ op = "drilldown" => ~exclude
     /\ \E q \in UntilNow([Idle EXCEPT !.op = op, !.pc = IF op = "drilldown" THEN "samples" ELSE "stats",
                                       !.project = jar[b].session, !.exclude = exclude,
                                       !.admin = op = "overview" /\ SendsAdmin(b, "dashboard")]) :
          Begin(g, b, q)

\* POST /dashboard/switch: 403 without an admin cookie.
ArriveSwitch(g, b) ==
  /\ SendsAdmin(b, "dashboard")
  /\ \E p \in P!Born : Begin(g, b, [Idle EXCEPT !.op = "switch", !.pc = "find", !.project = p])

\* A mistake in requireAdminSession: the signature is enough.
ArriveViewUnchecked(g, b) ==
  /\ SendsAdmin(b, "admin")
  /\ \E p \in P!Born : Begin(g, b, [Idle EXCEPT !.op = "view", !.pc = "find", !.project = p])

\* POST /admin/projects/{id}/view, behind requireAdminSession.
ArriveView(g, b) ==
  /\ SendsAdmin(b, "admin")
  /\ \E p \in P!Born : Begin(g, b, [Idle EXCEPT !.op = "view", !.pc = "account", !.project = p])

-----------------------------------------------------------------------------
(* The statements. *)

Step(g, new) == /\ page' = [page EXCEPT ![g] = new]
                /\ UNCHANGED <<tables, jar, admins>>

\* Nothing is left to read.
Done(q) == [q EXCEPT !.pc = "reply", !.key = None, !.admin = FALSE, !.window = {},
                    !.early = {}]

Opens(q, p) == [Done(q) EXCEPT !.answer = "set", !.project = p]

(* AuthenticateProject.Execute: the project whose key it is, or 401.  A login opens
   it; the statistics are up to now, or up to the instant that was asked for. *)
Auth(g) ==
  LET q      == page[g]
      owners == {p \in P!Live : projects[p].key = q.key}
      api(p) == [q EXCEPT !.pc = "stats", !.project = p, !.key = None] IN
  /\ q.pc = "auth"
  /\ \/ owners = {} /\ Step(g, Done(q))
     \/ \E p \in owners : IF q.op = "login" THEN Step(g, Opens(q, p))
          ELSE \E new \in UntilNow(api(p)) \cup {[api(p) EXCEPT !.window = P!EventIds]} : Step(g, new)
  /\ UNCHANGED panels

(* requireAdminSession's lookup: without the account, or if the lookup fails, the
   admin session is taken away. *)
CheckAccount(g) ==
  LET q == page[g] IN
  /\ q.pc = "account"
  /\ \/ q.browser \in admins /\ Step(g, [q EXCEPT !.pc = "find"])
     \/ Step(g, [Done(q) EXCEPT !.answer = "out"])
  /\ UNCHANGED panels

\* GetProject.Execute for switch and view: 404 for an unknown id.
Find(g) ==
  /\ page[g].pc = "find"
  /\ Step(g, IF page[g].project \in P!Live THEN Opens(page[g], page[g].project)
             ELSE Done(page[g]))
  /\ UNCHANGED panels

\* The events of the page's project and window, as far as they are stored now.
InWindow(q) == {e \in q.window : events[e] = q.project}

\* A mistake in filterClause: a name given in any project excludes the visitor.
CountedByNameAlone(q) == {e \in InWindow(q) : q.exclude => \A x \in named : x[2] # by[e]}

\* Those that filterClause leaves: exclude_named asks for the names the visitors have now.
Counted(q) == {e \in InWindow(q) : q.exclude => <<q.project, by[e]>> \notin named}

\* A mistake in Stats: the last statement is skipped.
QueryOneTooFew(g) ==
  LET q == page[g] IN
  /\ q.pc = "stats"
  /\ Step(g, [q EXCEPT !.read = Append(@, Counted(q)),
                       !.pc = IF Len(q.read) + 1 >= Queries - 1 THEN "panels" ELSE "stats"])
  /\ UNCHANGED panels

\* The API's answer has no panels.
AfterStats(q) == IF q.op = "api" THEN Done(q) ELSE [q EXCEPT !.pc = "panels"]

\* EventRepository.Stats: one statement after the other.
Query(g) ==
  LET q == page[g] IN
  /\ q.pc = "stats"
  /\ LET more == [q EXCEPT !.read = Append(@, Counted(q))] IN
     Step(g, IF Len(more.read) = Queries THEN AfterStats(more) ELSE more)
  /\ UNCHANGED panels

\* RecentByName, for the drill-down: it does not know filterClause.
Samples(g) ==
  /\ page[g].pc = "samples"
  /\ Step(g, [Done(page[g]) EXCEPT !.read = <<InWindow(page[g])>>])
  /\ UNCHANGED panels

\* After the panels: only a whole page with an admin session lists projects.
AfterPanels(q) == IF q.admin THEN [q EXCEPT !.pc = "list"] ELSE Done(q)

\* A mistake in computePanelRows: the shared slice is written.
PanelsInPlace(g) ==
  LET q == page[g] IN
  /\ q.pc = "panels"
  /\ \/ /\ Step(g, [AfterPanels(q) EXCEPT !.panel = InWindow(q)])
        /\ panels' = InWindow(q)
     \/ /\ Step(g, [AfterPanels(q) EXCEPT !.panel = panels])
        /\ UNCHANGED panels

(* computePanelRows works on a copy of Deps.Panels; if its statement, which does not
   know filterClause, fails, the panel shows what the copy holds. *)
ComputePanels(g) ==
  LET q == page[g] IN
  /\ q.pc = "panels"
  /\ \E rows \in {InWindow(q), panels} :
       Step(g, [AfterPanels(q) EXCEPT !.panel = rows])
  /\ UNCHANGED panels

\* switcherProjects: an error hides the switcher.
ListProjects(g) ==
  /\ page[g].pc = "list"
  /\ \/ Step(g, [Done(page[g]) EXCEPT !.offer = TRUE])
     \/ Step(g, [Done(page[g]) EXCEPT !.failed = TRUE])
  /\ UNCHANGED panels

\* A statement fails: 401, 404, or 500 with nothing of the page.
StatementFails(g) ==
  /\ page[g].pc \in {"auth", "find", "stats", "samples"}
  /\ Step(g, [Done(page[g]) EXCEPT !.read = <<>>, !.failed = TRUE])
  /\ UNCHANGED panels

\* The answer reaches the browser, with its Set-Cookie.
Respond(g) ==
  LET q == page[g] IN
  /\ q.pc = "reply"
  /\ jar' = [jar EXCEPT ![q.browser] =
       [session |-> CASE q.answer = "set" -> q.project [] q.answer = "clear" -> None [] OTHER -> @.session,
        admin   |-> @.admin /\ q.answer # "out"]]
  /\ page' = [page EXCEPT ![g] = Idle]
  /\ UNCHANGED <<tables, admins, panels>>

ResponseLost(g) ==
  /\ page[g].pc = "reply"
  /\ page' = [page EXCEPT ![g] = Idle]
  /\ UNCHANGED <<tables, jar, admins, panels>>

\* Upsert, if the identify it is for gives a name: a name once given stays.
Named == {<<req[r].project, req[r].visitor>> : r \in {s \in Requests : P!Upsert(s)}}

(* A step of Projects.  An event that an early request stores falls into the
   page's window; a new event has a visitor, and visitors go with their project. *)
ProjectStep ==
  /\ P!Next
  /\ by' \in IF serial' = serial THEN {by} ELSE {[by EXCEPT ![serial] = v] : v \in Visitors}
  /\ \E given \in {{}, Named} : named' = {x \in named \cup given : x[1] \in P!Live'}
  /\ page' = [g \in Pages |->
       LET ended == {r \in page[g].early : req'[r].op # "track"} IN
       [page[g] EXCEPT
         !.early = @ \ ended,
         !.window = IF ended # {} /\ serial' # serial THEN @ \cup {serial} ELSE @]]
  /\ UNCHANGED <<jar, admins, panels>>

Arrive(g, b) == \/ ArriveLogin(g, b) \/ ArriveLogout(g, b) \/ ArriveOverview(g, b)
                \/ ArriveAPI(g, b) \/ ArriveSwitch(g, b) \/ ArriveView(g, b)

Handle(g) == \/ Auth(g) \/ CheckAccount(g) \/ Find(g) \/ Query(g) \/ Samples(g)
             \/ ComputePanels(g) \/ ListProjects(g) \/ StatementFails(g) \/ Respond(g) \/ ResponseLost(g)

Next == \/ ProjectStep
        \/ \E b \in Browsers : AdminCookie(b) \/ AccountDeleted(b) \/ SessionExpires(b)
        \/ \E g \in Pages, b \in Browsers : Arrive(g, b)
        \/ \E g \in Pages : Handle(g)

Spec == Init /\ [][Next]_vars

-----------------------------------------------------------------------------
(* Properties. *)

PageType ==
  [op : {"none", "login", "logout", "overview", "fragment", "drilldown", "api", "switch", "view"},
   pc : {"idle", "auth", "account", "find", "stats", "samples", "panels", "list", "reply"},
   browser : Browsers \cup {None}, project : Ids \cup {None}, key : Keys \cup {None},
   admin : BOOLEAN, exclude : BOOLEAN, answer : {"keep", "set", "clear", "out"},
   read : Seq(SUBSET P!EventIds), panel : SUBSET P!EventIds, offer : BOOLEAN,
   window : SUBSET P!EventIds, early : SUBSET Requests,
   gone : BOOLEAN, stale : BOOLEAN, holds : BOOLEAN, orphan : BOOLEAN, failed : BOOLEAN]

(* Cookies, names and pages are well formed, and a page is answered in full only
   after all statements of Stats. *)
TypeOK == /\ by \in [P!EventIds -> Visitors \cup {None}]
          /\ named \subseteq Ids \X Visitors
          /\ jar \in [Browsers -> [session : Ids \cup {None}, admin : BOOLEAN]]
          /\ admins \subseteq Browsers
          /\ page \in [Pages -> PageType]
          /\ \A g \in Pages : page[g].pc \in {"panels", "list"} => Len(page[g].read) = Queries
          /\ panels \subseteq P!EventIds

\* All events that any number on the page counts.
Shown(q) == q.panel \cup UNION {q.read[i] : i \in 1..Len(q.read)}

(* "writing computed data into it directly would leak one project's numbers
   into another's response" (computePanelRows): every number on a page counts
   events of the session's project. *)
OneProjectPerPage ==
  \A g \in Pages : \A e \in Shown(page[g]) : events[e] \in {page[g].project, None}

(* A session outlives its project (nothing revokes it), but a page asked for
   after the deletion shows nothing: no rows of the project are left, and its
   id names no other (Deps.Sessions, ON DELETE CASCADE). *)
GoneShowsNothing == \A g \in Pages : page[g].gone => Shown(page[g]) = {}

(* The numbers of one page are read one after the other, with no transaction
   (EventRepository.Stats): as long as the project exists, what one counted and
   a later one does not is of a visitor who was given a name in this project
   meanwhile, and only on a page that excludes named visitors. *)
NumbersLoseOnlyTheNamed ==
  \A g \in Pages : LET q == page[g] IN
    q.project \in P!Live => \A i, j \in 1..Len(q.read) : i < j =>
      \A e \in q.read[i] \ q.read[j] : q.exclude /\ <<q.project, by[e]>> \in named

(* RotateAPIKey "immediately invalidates the old one": a request that brings a
   key replaced before it arrived gets no session and no statistics -- provided
   that writes of one project do not overlap (WritesOverlap = FALSE), for one that
   overlaps a rotation may bring the old key back (Projects!RetiredKeyStaysDead). *)
RetiredKeyOpensNothing ==
  \A g \in Pages : page[g].stale => page[g].answer # "set" /\ Shown(page[g]) = {}

(* "re-check against the database on every request to revoke access immediately
   when an admin is removed" (requireAdminSession): the admin panel opens no
   project's dashboard for a cookie whose account was deleted before the request
   arrived.  The switcher of the dashboard asks for no account, and would. *)
DeletedAdminOpensNothing ==
  \A g \in Pages : page[g].op = "view" /\ page[g].orphan => page[g].answer # "set"

(* "only appears -- and only works -- when the request also carries a valid
   admin session" (README, Security model): a whole page asked for by a browser
   that has one offers the switcher. *)
AdminsSeeSwitcher ==
  \A g \in Pages : LET q == page[g] IN
    q.op = "overview" /\ q.pc = "reply" /\ q.holds /\ ~q.failed => q.offer
=============================================================================
