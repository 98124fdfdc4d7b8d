--------------------------- MODULE DashboardProofs ---------------------------
(* What holds of the dashboard for any number of concurrent pages, browsers,
   projects and keys, beside any number of requests that change the projects.

   Dashboard composes Projects; the proofs rest on what ProjectsProofs shows of it.
   The inductive invariant says what a page carries from one statement to the
   next: what it counted was its project's and is still there if the project is,
   whatever later statements left out, and a page of a deleted project has read
   nothing. *)
EXTENDS Dashboard, TLAPS

PP == INSTANCE ProjectsProofs

-----------------------------------------------------------------------------
(* Projects, as Dashboard names it and as its proofs do. *)

LEMMA Assumptions == PP!ProjectAssumption
BY DashboardAssumption DEF PP!ProjectAssumption

LEMMA SameSteps == P!Next <=> PP!Next
<1> SUFFICES ASSUME NEW r \in Requests
             PROVE  P!Arrive(r) \/ P!Handle(r) <=> PP!Arrive(r) \/ PP!Handle(r)
  BY DEF P!Next, PP!Next
<1>1. P!ArriveCreate(r) <=> PP!ArriveCreate(r)
  BY DEF P!ArriveCreate, PP!ArriveCreate, P!Generate, PP!Generate, P!FreshIds,
         PP!FreshIds, P!Born, PP!Born, P!Idle, PP!Idle, P!Begin, PP!Begin
<1>2. P!ArriveEdit(r) <=> PP!ArriveEdit(r)
  BY DEF P!ArriveEdit, PP!ArriveEdit, P!Writing, PP!Writing, P!Born, PP!Born, P!Idle,
         PP!Idle, P!Begin, PP!Begin
<1>3. P!ArriveRotate(r) <=> PP!ArriveRotate(r)
  BY DEF P!ArriveRotate, PP!ArriveRotate, P!Writing, PP!Writing, P!Born, PP!Born,
         P!Generate, PP!Generate, P!Idle, PP!Idle, P!Begin, PP!Begin
<1>4. P!ArriveDelete(r) <=> PP!ArriveDelete(r)
  BY DEF P!ArriveDelete, PP!ArriveDelete, P!Born, PP!Born, P!Idle, PP!Idle, P!Begin,
         PP!Begin
<1>5. P!ArriveTrack(r) <=> PP!ArriveTrack(r)
  BY DEF P!ArriveTrack, PP!ArriveTrack, P!Born, PP!Born, P!Idle, PP!Idle, P!Begin,
         PP!Begin
<1>6. P!ArriveIdentify(r) <=> PP!ArriveIdentify(r)
  BY DEF P!ArriveIdentify, PP!ArriveIdentify, P!Born, PP!Born, P!Idle, PP!Idle, P!Begin,
         PP!Begin
<1>7. P!CreateProject(r) <=> PP!CreateProject(r)
  BY DEF P!CreateProject, PP!CreateProject, P!End, PP!End, P!Idle, PP!Idle, P!Issue,
         PP!Issue, P!Live, PP!Live
<1>8. P!GetProject(r) <=> PP!GetProject(r)
  BY DEF P!GetProject, PP!GetProject, P!End, PP!End, P!Idle, PP!Idle, P!Goto, PP!Goto,
         P!Live, PP!Live
<1>9. P!FindByID(r) <=> PP!FindByID(r)
  BY DEF P!FindByID, PP!FindByID, P!Rotated, PP!Rotated, P!Edited, PP!Edited, P!End,
         PP!End, P!Idle, PP!Idle, P!Live, PP!Live
<1>10. P!Update(r) <=> PP!Update(r)
  BY DEF P!Update, PP!Update, P!End, PP!End, P!Idle, PP!Idle, P!Issue, PP!Issue, P!Live,
         PP!Live
<1>11. P!DeleteProject(r) <=> PP!DeleteProject(r)
  BY DEF P!DeleteProject, PP!DeleteProject, P!EventIds, PP!EventIds, P!End, PP!End,
         P!Idle, PP!Idle
<1>12. P!Save(r) <=> PP!Save(r)
  BY DEF P!Save, PP!Save, P!End, PP!End, P!Idle, PP!Idle, P!Live, PP!Live
<1>13. P!Upsert(r) <=> PP!Upsert(r)
  BY DEF P!Upsert, PP!Upsert, P!End, PP!End, P!Idle, PP!Idle, P!Live, PP!Live
<1>14. P!StatementFails(r) <=> PP!StatementFails(r)
  BY DEF P!StatementFails, PP!StatementFails, P!End, PP!End, P!Idle, PP!Idle
<1> QED BY <1>1, <1>2, <1>3, <1>4, <1>5, <1>6, <1>7, <1>8, <1>9, <1>10, <1>11, <1>12, <1>13,
           <1>14 DEF P!Arrive, PP!Arrive, P!Handle, PP!Handle


\* What ProjectsProofs shows of the rows.
RowsSound ==
  /\ P!Live \subseteq P!Born
  /\ P!Born \subseteq Ids
  /\ \A p \in P!Live : projects[p].key \in Keys /\ issued[projects[p].key] = p
  /\ events \in [P!EventIds -> Ids \cup {None}]
  /\ \A e \in P!EventIds : events[e] \in P!Live \cup {None}
  /\ serial \in 1..(MaxEvents + 1)
  /\ issued \in [Keys -> Ids \cup {None}]
  /\ retired \subseteq Keys

\* What ProjectsProofs shows of a step.
RowsMove ==
  /\ P!Born \subseteq P!Born'
  /\ \A p \in P!Born : p \notin P!Live => p \notin P!Live'
  /\ \A k \in Keys : issued[k] # None => issued'[k] = issued[k]
  /\ retired \subseteq retired'
  /\ serial' = serial \/ (serial' = serial + 1 /\ serial <= MaxEvents)
  /\ \A e \in P!EventIds : \/ events'[e] = events[e]
                           \/ events'[e] = None /\ events[e] \notin P!Live'
                           \/ e = serial /\ serial' = serial + 1

LEMMA RowsAreSound == PP!IInv => RowsSound
<1> SUFFICES ASSUME PP!IInv PROVE RowsSound
  OBVIOUS
<1>1. PP!TypeOK /\ PP!KeyOpensItsProject /\ PP!NoOrphans
  BY DEF PP!IInv
<1>2. /\ PP!Live \subseteq PP!Born /\ PP!Born \subseteq Ids
      /\ \A p \in PP!Live : projects[p] \in PP!RowType
  BY <1>1, PP!LiveWasBorn, Assumptions
<1>3. P!Live = PP!Live /\ P!Born = PP!Born /\ P!EventIds = PP!EventIds
  BY DEF P!Live, PP!Live, P!Born, PP!Born, P!EventIds, PP!EventIds
<1>4. \A p \in PP!Live : projects[p].key \in Keys /\ issued[projects[p].key] = p
  BY <1>1, <1>2 DEF PP!KeyOpensItsProject, PP!RowType
<1>5. \A e \in PP!EventIds : events[e] \in PP!Live \cup {None}
  BY <1>1 DEF PP!NoOrphans
<1> QED BY <1>1, <1>2, <1>3, <1>4, <1>5 DEF RowsSound, PP!TypeOK

LEMMA RowsStep == ASSUME PP!IInv, P!Next PROVE PP!IInv' /\ RowsMove
<1>1. PP!Next
  BY SameSteps
<1>2. PP!IInv'
  BY <1>1, PP!StepKeepsIInv, Assumptions
<1>3. PP!RowsMove
  BY <1>1, PP!StepMovesRows, Assumptions
<1>4. RowsMove
  BY <1>3 DEF RowsMove, PP!RowsMove, P!Live, PP!Live, P!Born, PP!Born, P!EventIds, PP!EventIds
<1> QED BY <1>2, <1>4

LEMMA RowsStay == ASSUME PP!IInv, UNCHANGED tables PROVE PP!IInv' /\ RowsMove
<1>1. UNCHANGED PP!vars
  BY DEF tables, PP!vars
<1>2. PP!IInv'
  BY <1>1, PP!StepKeepsIInv, Assumptions
<1>3. RowsMove
  BY DEF RowsMove, tables, P!Live, P!Born
<1> QED BY <1>2, <1>3

-----------------------------------------------------------------------------
(* The inductive invariant. *)

\* Serial numbers not given out yet belong to no event.
Ahead == \A e \in P!EventIds : e >= serial => events[e] = None

\* What a page has read and carries fits the place it is in.
Placed(q) ==
  /\ q.pc # "idle" => q.browser \in Browsers
  /\ q.pc \in {"auth", "account", "find", "samples"} => q.read = <<>>
  /\ q.pc \in {"auth", "account", "find", "stats", "samples", "panels"} => q.panel = {}
  /\ q.answer # "keep" => q.pc = "reply"
  /\ q.pc \in {"account", "find", "stats", "samples", "panels", "list"} => q.project \in P!Born
  /\ q.pc = "auth" => q.key \in Keys /\ issued[q.key] # None /\ ~q.gone
  /\ q.key # None => q.pc = "auth"
  /\ q.pc = "stats" => Len(q.read) < Queries
  /\ q.pc \in {"panels", "list"} => Len(q.read) = Queries

\* The page excludes named visitors, and the event is of one.
LeftOut(q, e) == q.exclude /\ <<q.project, by[e]>> \in named

\* Later statements lack nothing of earlier ones but what the page leaves out.
Accounted(q) ==
  \A i, j \in 1..Len(q.read) : i < j => \A e \in q.read[i] \ q.read[j] : LeftOut(q, e)

\* What a page shows is its project's, and still there if the project is.
Shows(q) ==
  /\ q.project \in P!Born \cup {None}
  /\ \A e \in Shown(q) : e < serial /\ events[e] \in {q.project, None}
  /\ q.gone => Shown(q) = {} /\ q.project \in P!Born \ P!Live
  /\ q.project \in P!Live =>
       /\ \A e \in Shown(q) : events[e] = q.project
       /\ Accounted(q)
  /\ q.pc = "stats" => \A i \in 1..Len(q.read) : q.read[i] \subseteq q.window

\* A view whose account was deleted before it arrived opens nothing.
Barred(q) ==
  q.op = "view" /\ q.orphan => /\ q.pc \in {"account", "reply"}
                               /\ q.browser \notin admins
                               /\ q.answer # "set"

Good(q) == q \in PageType /\ Placed(q) /\ Shows(q) /\ Barred(q)

CookiesInv == /\ jar \in [Browsers -> [session : Ids \cup {None}, admin : BOOLEAN]]
              /\ \A b \in Browsers : jar[b].session \in P!Born \cup {None}
              /\ admins \subseteq Browsers

\* Events have visitors of this column, and names belong to visitors.
NamesInv == by \in [P!EventIds -> Visitors \cup {None}] /\ named \subseteq Ids \X Visitors

IInv == /\ PP!IInv
        /\ Ahead
        /\ panels = {}
        /\ CookiesInv
        /\ NamesInv
        /\ page \in [Pages -> PageType]
        /\ \A g \in Pages : Good(page[g])

-----------------------------------------------------------------------------
(* Steps that leave the tables alone. *)

LEMMA IdleIsGood == Good(Idle)
<1>1. Idle \in PageType
  BY DEF Idle, PageType
<1>2. Shown(Idle) = {}
  BY DEF Idle, Shown
<1>3. Accounted(Idle)
  BY DEF Idle, Accounted
<1> QED BY <1>1, <1>2, <1>3, DashboardAssumption DEF Good, Placed, Shows, Barred, Idle, P!Born, P!Live

LEMMA InitIInv == Init => IInv
<1> SUFFICES ASSUME Init PROVE IInv
  OBVIOUS
<1>1. PP!IInv
  <2>1. PP!Init
    BY DEF Init, P!Init, PP!Init, P!Idle, PP!Idle, P!EventIds, PP!EventIds
  <2> QED BY <2>1, PP!InitIInv, Assumptions
<1>2. Ahead /\ panels = {} /\ CookiesInv /\ NamesInv
  BY DEF Init, P!Init, P!EventIds, Ahead, CookiesInv, NamesInv
<1>3. page \in [Pages -> PageType] /\ \A g \in Pages : Good(page[g])
  BY IdleIsGood DEF Init, Good
<1> QED BY <1>1, <1>2, <1>3 DEF IInv

\* What later statements lack depends on what was read and the filter alone.
LEMMA SameReadSameAccount ==
  ASSUME NEW q, NEW s, q.read = s.read, q.project = s.project, q.exclude = s.exclude
  PROVE  Accounted(q) <=> Accounted(s)
BY DEF Accounted, LeftOut

LEMMA OneReadAccounted == ASSUME NEW q, Len(q.read) = 0 \/ Len(q.read) = 1 PROVE Accounted(q)
BY DEF Accounted

LEMMA AccountStays ==
  ASSUME NEW g, UNCHANGED tables, Accounted(page'[g]) PROVE Accounted(page[g])'
BY DEF Accounted, LeftOut, tables

\* Page g becomes new.
LEMMA PageStep ==
  ASSUME IInv, NEW g \in Pages, NEW new, Good(new),
         page' = [page EXCEPT ![g] = new], UNCHANGED <<tables, jar, admins, panels>>
  PROVE  IInv'
<1>1. PP!IInv'
  BY RowsStay DEF IInv
<1>2. P!Live' = P!Live /\ P!Born' = P!Born
  BY DEF tables, P!Live, P!Born
<1>3. Ahead' /\ panels' = {} /\ CookiesInv' /\ NamesInv'
  BY <1>2 DEF IInv, Ahead, CookiesInv, NamesInv, tables, P!EventIds
<1>4. \A h \in Pages : page'[h] = IF h = g THEN new ELSE page[h]
  BY DEF IInv
<1>5. page' \in [Pages -> PageType]
  BY <1>4 DEF IInv, Good
<1>6. ASSUME NEW h \in Pages PROVE Good(page[h])'
  <2>1. Good(page'[h])
    BY <1>4 DEF IInv
  <2>2. (page[h] \in PageType)'
    BY <2>1 DEF Good, PageType, P!EventIds
  <2>3. Placed(page[h])'
    BY <2>1, <1>2 DEF Good, Placed, tables
  <2>4. Shows(page[h])'
    BY <2>1, <1>2, AccountStays DEF Good, Shows, Shown, tables
  <2>5. Barred(page[h])'
    BY <2>1, <1>2 DEF Good, Barred, tables
  <2> QED BY <2>2, <2>3, <2>4, <2>5 DEF Good
<1> QED BY <1>1, <1>3, <1>5, <1>6 DEF IInv

\* What is shown depends on what was read alone.
LEMMA SameReadSameShown ==
  ASSUME NEW q, NEW s, q.read = s.read, q.panel = s.panel PROVE Shown(q) = Shown(s)
BY DEF Shown

LEMMA NothingRead ==
  ASSUME NEW q, q.read = <<>>, q.panel = {} PROVE Shown(q) = {}
BY DEF Shown

LEMMA ShownOverWindow ==
  ASSUME NEW q, q \in PageType PROVE Shown(q) \subseteq P!EventIds
<1>1. \A i \in 1..Len(q.read) : q.read[i] \in SUBSET P!EventIds
  BY DEF PageType
<1> QED BY <1>1 DEF Shown, PageType

\* A request that arrives has read nothing.
Arrival(new) ==
  /\ new.pc \in {"auth", "account", "find", "stats", "samples", "reply"}
  /\ new.read = <<>> /\ new.panel = {}
  /\ new.answer \in {"keep", "clear"}
  /\ new.pc # "reply" => new.answer = "keep"
  /\ new.project \in P!Born \cup {None}
  /\ new.pc \in {"account", "find", "stats", "samples"} => new.project \in P!Born
  /\ new.pc = "auth" => new.key \in Keys /\ issued[new.key] # None /\ new.project = None
  /\ new.key # None => new.pc = "auth"
  /\ new.op = "view" => new.pc = "account"

LEMMA BeginStep ==
  ASSUME IInv, NEW g \in Pages, NEW b \in Browsers, NEW new \in PageType,
         Begin(g, b, new), Arrival(new)
  PROVE  IInv'
<1> DEFINE fin == [new EXCEPT !.browser = b,
                              !.holds = new.op = "overview" /\ jar[b].admin,
                              !.orphan = new.op = "view" /\ b \notin admins,
                              !.gone = new.project # None /\ new.project \notin P!Live,
                              !.stale = new.key \in retired]
<1>1. /\ page' = [page EXCEPT ![g] = fin]
      /\ UNCHANGED <<tables, jar, admins, panels>>
  BY DEF Begin
<1>2. /\ fin.op = new.op /\ fin.pc = new.pc /\ fin.browser = b /\ fin.project = new.project
      /\ fin.key = new.key /\ fin.answer = new.answer /\ fin.read = new.read /\ fin.panel = new.panel
      /\ fin.window = new.window /\ fin.exclude = new.exclude
      /\ fin.orphan <=> new.op = "view" /\ b \notin admins
      /\ fin.gone <=> new.project # None /\ new.project \notin P!Live
  BY DEF PageType
<1>3. fin \in PageType
  <2>1. jar[b].admin \in BOOLEAN
    BY DEF IInv, CookiesInv
  <2>2. ASSUME NEW holds \in BOOLEAN, NEW orphan \in BOOLEAN, NEW gone \in BOOLEAN, NEW stale \in BOOLEAN
        PROVE  [new EXCEPT !.browser = b, !.holds = holds, !.orphan = orphan,
                           !.gone = gone, !.stale = stale] \in PageType
    BY DEF PageType
  <2>3. /\ (new.op = "overview" /\ jar[b].admin) \in BOOLEAN
        /\ (new.op = "view" /\ b \notin admins) \in BOOLEAN
        /\ (new.project # None /\ new.project \notin P!Live) \in BOOLEAN
        /\ (new.key \in retired) \in BOOLEAN
    BY <2>1
  <2> QED BY <2>2, <2>3, Zenon
<1> HIDE DEF fin
<1>4. PP!IInv'
  BY <1>1, RowsStay DEF IInv
<1>5. P!Live' = P!Live /\ P!Born' = P!Born
  BY <1>1 DEF tables, P!Live, P!Born
<1>7. Ahead' /\ panels' = {} /\ CookiesInv' /\ NamesInv'
  BY <1>1, <1>5 DEF IInv, Ahead, CookiesInv, NamesInv, tables, P!EventIds
<1>8. \A h \in Pages : page'[h] = IF h = g THEN fin ELSE page[h]
  BY <1>1 DEF IInv
<1>9. page' \in [Pages -> PageType]
  BY <1>3, <1>8, <1>1 DEF IInv
<1>10. ASSUME NEW h \in Pages, h # g PROVE Good(page[h])'
  <2>1. Good(page'[h]) /\ page'[h] = page[h]
    BY <1>8, <1>10 DEF IInv
  <2>2. (page[h] \in PageType)'
    BY <2>1 DEF Good, PageType, P!EventIds
  <2>3. Placed(page[h])'
    BY <2>1, <1>1, <1>5 DEF Good, Placed, tables
  <2>4. Shows(page[h])'
    BY <2>1, <1>1, <1>5, AccountStays DEF Good, Shows, Shown, tables
  <2>5. Barred(page[h])'
    BY <2>1, <1>1, <1>5 DEF Good, Barred, tables
  <2> QED BY <2>2, <2>3, <2>4, <2>5 DEF Good
<1>11. Good(page[g])'
  <2>1. page'[g] = fin /\ Shown(fin) = {} /\ Len(fin.read) = 0
    BY <1>2, <1>8, NothingRead DEF Arrival
  <2>2. (page[g] \in PageType)'
    BY <2>1, <1>3 DEF PageType, P!EventIds
  <2>3. Placed(page[g])'
    BY <2>1, <1>1, <1>2, <1>5, DashboardAssumption DEF Arrival, Placed, tables
  <2>4. Shows(page[g])'
    <3>1. Shown(page[g])' = {}
      BY <2>1 DEF Shown
    <3>2. Accounted(page[g])'
      BY <2>1, <1>1, OneReadAccounted, AccountStays
    <3> QED BY <3>1, <3>2, <2>1, <1>1, <1>2, <1>5 DEF Arrival, Shows, tables
  <2>5. Barred(page[g])'
    BY <2>1, <1>1, <1>2, <1>5 DEF Arrival, Barred, tables
  <2> QED BY <2>2, <2>3, <2>4, <2>5 DEF Good
<1> QED BY <1>4, <1>7, <1>9, <1>10, <1>11 DEF IInv

LEMMA ArriveBegins ==
  ASSUME IInv, NEW g \in Pages, NEW b \in Browsers, Arrive(g, b)
  PROVE  \E new \in PageType : Begin(g, b, new) /\ Arrival(new)
<1>r. RowsSound
  BY RowsAreSound DEF IInv
<1>j. jar[b].session \in P!Born \cup {None}
  BY DEF IInv, CookiesInv
<1>i. Idle \in PageType
  BY IdleIsGood DEF Good
<1>k. \A k \in Known : k \in Keys /\ issued[k] # None
  BY <1>r DEF Known, RowsSound
<1>p. \A p \in P!Born : p \in Ids
  BY <1>r DEF RowsSound
<1>1. CASE ArriveLogin(g, b)
  <2>1. PICK k \in Known :
          Begin(g, b, [Idle EXCEPT !.op = "login", !.pc = "auth", !.key = k])
    BY <1>1 DEF ArriveLogin
  <2> DEFINE new == [Idle EXCEPT !.op = "login", !.pc = "auth", !.key = k]
  <2>2. /\ new \in PageType /\ new.pc = "auth" /\ new.op = "login" /\ new.key = k
        /\ new.read = <<>> /\ new.panel = {} /\ new.answer = "keep" /\ new.project = None
    BY <1>i, <1>k DEF Idle, PageType
  <2> HIDE DEF new
  <2>3. Begin(g, b, new)
    BY <2>1 DEF new
  <2> QED BY <2>2, <2>3, <1>k DEF Arrival
<1>2. CASE ArriveAPI(g, b)
  <2>1. PICK k \in Known, exclude \in BOOLEAN :
          Begin(g, b, [Idle EXCEPT !.op = "api", !.pc = "auth", !.key = k, !.exclude = exclude])
    BY <1>2 DEF ArriveAPI
  <2> DEFINE new == [Idle EXCEPT !.op = "api", !.pc = "auth", !.key = k, !.exclude = exclude]
  <2>2. /\ new \in PageType /\ new.pc = "auth" /\ new.op = "api" /\ new.key = k
        /\ new.read = <<>> /\ new.panel = {} /\ new.answer = "keep" /\ new.project = None
    BY <1>i, <1>k DEF Idle, PageType
  <2> HIDE DEF new
  <2>3. Begin(g, b, new)
    BY <2>1 DEF new
  <2> QED BY <2>2, <2>3, <1>j, <1>k DEF Arrival
<1>3. CASE ArriveLogout(g, b)
  <2> DEFINE new == [Idle EXCEPT !.op = "logout", !.pc = "reply", !.answer = "clear"]
  <2>2. /\ new \in PageType /\ new.pc = "reply" /\ new.op = "logout" /\ new.answer = "clear"
        /\ new.key = None /\ new.read = <<>> /\ new.panel = {} /\ new.project = None
    BY <1>i DEF Idle, PageType
  <2>3. Begin(g, b, new)
    BY <1>3 DEF ArriveLogout
  <2> HIDE DEF new
  <2> QED BY <2>2, <2>3, <1>j DEF Arrival
<1>4. CASE ArriveOverview(g, b)
  <2>1. PICK op \in {"overview", "fragment", "drilldown"}, exclude \in BOOLEAN :
        \E q \in UntilNow([Idle EXCEPT !.op = op, !.pc = IF op = "drilldown" THEN "samples" ELSE "stats",
                                       !.project = jar[b].session, !.exclude = exclude,
                                       !.admin = op = "overview" /\ SendsAdmin(b, "dashboard")]) :
          Begin(g, b, q)
    BY <1>4 DEF ArriveOverview
  <2> DEFINE pc == IF op = "drilldown" THEN "samples" ELSE "stats"
             admin == op = "overview" /\ SendsAdmin(b, "dashboard")
             old == [Idle EXCEPT !.op = op, !.pc = pc, !.project = jar[b].session,
                                 !.exclude = exclude, !.admin = admin]
  <2>2. PICK new \in UntilNow(old) : Begin(g, b, new)
    BY <2>1
  <2>3. PICK early \in SUBSET Requests : new = [old EXCEPT !.window = StatsWindow, !.early = early]
    BY <2>2 DEF UntilNow
  <2>4. admin \in BOOLEAN /\ jar[b].session \in P!Born /\ jar[b].session \in Ids
    BY <1>4, <1>j, <1>p DEF ArriveOverview, SendsAdmin, IInv, CookiesInv
  <2>5. old \in PageType /\ old.op = op /\ old.pc = pc /\ old.project = jar[b].session
        /\ old.key = None /\ old.read = <<>> /\ old.panel = {} /\ old.answer = "keep"
    <3>1. ASSUME NEW a \in BOOLEAN, NEW c \in {"samples", "stats"}
          PROVE  [Idle EXCEPT !.op = op, !.pc = c, !.project = jar[b].session,
                             !.exclude = exclude, !.admin = a] \in PageType
      BY <1>i, <2>4 DEF Idle, PageType
    <3>2. pc \in {"samples", "stats"}
      OBVIOUS
    <3>3. old \in PageType
      BY <3>1, <3>2, <2>4, Zenon
    <3> QED BY <3>3 DEF Idle
  <2>6. StatsWindow \in SUBSET P!EventIds
    BY <1>r, DashboardAssumption DEF RowsSound, StatsWindow, P!EventIds
  <2> HIDE DEF old, admin
  <2>7. /\ new \in PageType /\ new.op = op /\ new.pc = pc /\ new.project = jar[b].session
        /\ new.key = None /\ new.read = <<>> /\ new.panel = {} /\ new.answer = "keep"
    BY <2>3, <2>5, <2>6 DEF PageType
  <2>8. new.pc \in {"stats", "samples"} /\ new.op # "view"
    BY <2>7
  <2> QED BY <2>2, <2>4, <2>7, <2>8, <1>j DEF Arrival
<1>5. CASE ArriveSwitch(g, b)
  <2>1. PICK p \in P!Born : Begin(g, b, [Idle EXCEPT !.op = "switch", !.pc = "find", !.project = p])
    BY <1>5 DEF ArriveSwitch
  <2> DEFINE new == [Idle EXCEPT !.op = "switch", !.pc = "find", !.project = p]
  <2>2. /\ new \in PageType /\ new.pc = "find" /\ new.op = "switch" /\ new.project = p
        /\ new.key = None /\ new.read = <<>> /\ new.panel = {} /\ new.answer = "keep"
    BY <1>i, <1>p DEF Idle, PageType
  <2> HIDE DEF new
  <2>3. Begin(g, b, new)
    BY <2>1 DEF new
  <2> QED BY <2>2, <2>3, <1>p DEF Arrival
<1>6. CASE ArriveView(g, b)
  <2>1. PICK p \in P!Born : Begin(g, b, [Idle EXCEPT !.op = "view", !.pc = "account", !.project = p])
    BY <1>6 DEF ArriveView
  <2> DEFINE new == [Idle EXCEPT !.op = "view", !.pc = "account", !.project = p]
  <2>2. /\ new \in PageType /\ new.pc = "account" /\ new.op = "view" /\ new.project = p
        /\ new.key = None /\ new.read = <<>> /\ new.panel = {} /\ new.answer = "keep"
    BY <1>i, <1>p DEF Idle, PageType
  <2> HIDE DEF new
  <2>3. Begin(g, b, new)
    BY <2>1 DEF new
  <2> QED BY <2>2, <2>3, <1>p DEF Arrival
<1> QED BY <1>1, <1>2, <1>3, <1>4, <1>5, <1>6 DEF Arrive

LEMMA ArriveKeepsIInv ==
  ASSUME IInv, NEW g \in Pages, NEW b \in Browsers, Arrive(g, b) PROVE IInv'
BY ArriveBegins, BeginStep

-----------------------------------------------------------------------------
(* The statements. *)

\* A page that is done shows what it had read.
LEMMA DoneIsGood ==
  ASSUME NEW q, Good(q), q.pc # "idle", q.answer = "keep" PROVE Good(Done(q))
<1>1. /\ Done(q) \in PageType /\ Done(q).pc = "reply" /\ Done(q).op = q.op
      /\ Done(q).browser = q.browser /\ Done(q).project = q.project
      /\ Done(q).answer = "keep" /\ Done(q).read = q.read /\ Done(q).panel = q.panel
      /\ Done(q).gone = q.gone /\ Done(q).orphan = q.orphan /\ Done(q).exclude = q.exclude /\ Done(q).key = None
  BY DEF Good, Done, PageType
<1>2. Shown(Done(q)) = Shown(q)
  BY <1>1, SameReadSameShown
<1>3. Placed(Done(q))
  BY <1>1 DEF Good, Placed
<1>4. Shows(Done(q))
  <2>1. Accounted(Done(q)) <=> Accounted(q)
    BY <1>1, SameReadSameAccount
  <2> QED BY <1>1, <1>2, <2>1 DEF Good, Shows
<1>5. Barred(Done(q))
  BY <1>1 DEF Good, Barred
<1> QED BY <1>1, <1>3, <1>4, <1>5 DEF Good

\* An answer that opens p.
LEMMA OpensIsGood ==
  ASSUME RowsSound, NEW q, Good(q), q.pc \in {"auth", "find"}, NEW p \in P!Live, ~q.gone
  PROVE  Good(Opens(q, p))
<1>1. q \in PageType /\ q.browser \in Browsers /\ q.read = <<>> /\ q.panel = {}
  BY DEF Good, Placed
<1>2. ~(q.op = "view" /\ q.orphan) /\ p \in P!Born /\ p \in Ids
  BY DEF Good, Barred, RowsSound
<1>3. /\ Opens(q, p) \in PageType /\ Opens(q, p).pc = "reply" /\ Opens(q, p).op = q.op
      /\ Opens(q, p).browser = q.browser /\ Opens(q, p).project = p
      /\ Opens(q, p).answer = "set" /\ Opens(q, p).read = <<>> /\ Opens(q, p).panel = {}
      /\ Opens(q, p).gone = q.gone /\ Opens(q, p).orphan = q.orphan
      /\ Opens(q, p).key = None
  BY <1>1, <1>2 DEF Opens, Done, PageType
<1>4. Shown(Opens(q, p)) = {} /\ Len(Opens(q, p).read) = 0
  BY <1>3, NothingRead
<1>5. Placed(Opens(q, p))
  BY <1>1, <1>3 DEF Placed
<1>6. Shows(Opens(q, p))
  BY <1>2, <1>3, <1>4, OneReadAccounted DEF Shows
<1>7. Barred(Opens(q, p))
  BY <1>2, <1>3 DEF Barred
<1> QED BY <1>3, <1>5, <1>6, <1>7 DEF Good

LEMMA StepStep ==
  ASSUME IInv, NEW g \in Pages, NEW new, Good(new), Step(g, new), UNCHANGED panels PROVE IInv'
BY PageStep DEF Step

LEMMA AuthKeepsIInv == ASSUME IInv, NEW g \in Pages, Auth(g) PROVE IInv'
<1> DEFINE q == page[g]
<1>q. Good(q) /\ q \in PageType /\ RowsSound
  BY RowsAreSound DEF IInv, Good
<1>a. /\ q.pc = "auth" /\ q.answer = "keep"
      /\ q.key \in Keys /\ issued[q.key] # None /\ q.read = <<>> /\ q.panel = {} /\ ~q.gone
      /\ q.browser \in Browsers
  BY <1>q DEF Auth, Good, Placed
<1>1. CASE Step(g, Done(q)) /\ UNCHANGED panels
  BY <1>1, <1>q, <1>a, DoneIsGood, StepStep
<1>2. ASSUME NEW p \in P!Live, projects[p].key = q.key, q.op = "login",
             Step(g, Opens(q, p)), UNCHANGED panels
      PROVE  IInv'
  <2>1. Good(Opens(q, p))
    BY <1>q, <1>a, OpensIsGood
  <2> QED BY <1>2, <2>1, StepStep
<1>3. ASSUME NEW p \in P!Live, q.op # "login",
             NEW window \in SUBSET P!EventIds, NEW early \in SUBSET Requests,
             NEW new, new = [q EXCEPT !.pc = "stats", !.project = p, !.key = None,
                                      !.window = window, !.early = early],
             Step(g, new), UNCHANGED panels
      PROVE  IInv'
  <2>1. p \in P!Born /\ p \in Ids
    BY <1>q DEF RowsSound
  <2>2. /\ new \in PageType /\ new.pc = "stats" /\ new.op = q.op /\ new.browser = q.browser
        /\ new.project = p /\ new.answer = "keep" /\ new.read = <<>> /\ new.panel = {}
        /\ new.gone = q.gone /\ new.orphan = q.orphan /\ new.exclude = q.exclude /\ new.key = None
    BY <1>3, <1>q, <1>a, <2>1 DEF PageType
  <2>3. Shown(new) = {} /\ Len(new.read) = 0
    BY <2>2, NothingRead
  <2>4. Placed(new)
    BY <2>1, <2>2, <2>3, <1>a, DashboardAssumption DEF Placed
  <2>5. Shows(new)
    BY <2>1, <2>2, <2>3, <1>a, OneReadAccounted DEF Shows
  <2>6. Barred(new)
    BY <2>2, <1>q, <1>a DEF Good, Barred
  <2> QED BY <1>3, <2>2, <2>4, <2>5, <2>6, StepStep DEF Good
<1>4. ASSUME NEW p \in P!Live, q.op # "login",
             NEW new, Step(g, new), UNCHANGED panels,
             new \in UntilNow([q EXCEPT !.pc = "stats", !.project = p, !.key = None])
               \cup {[[q EXCEPT !.pc = "stats", !.project = p, !.key = None] EXCEPT !.window = P!EventIds]}
      PROVE  IInv'
  <2> DEFINE old == [q EXCEPT !.pc = "stats", !.project = p, !.key = None]
  <2>1. StatsWindow \in SUBSET P!EventIds
    BY <1>q, DashboardAssumption DEF RowsSound, StatsWindow, P!EventIds
  <2>2. CASE new = [old EXCEPT !.window = P!EventIds]
    <3>1. new = [q EXCEPT !.pc = "stats", !.project = p, !.key = None,
                          !.window = P!EventIds, !.early = q.early]
      BY <2>2, <1>q DEF PageType
    <3>2. q.early \in SUBSET Requests
      BY <1>q DEF PageType
    <3> QED BY <3>1, <3>2, <1>3, <1>4
  <2>3. CASE new \in UntilNow(old)
    <3>1. PICK early \in SUBSET Requests : new = [old EXCEPT !.window = StatsWindow, !.early = early]
      BY <2>3 DEF UntilNow
    <3>2. new = [q EXCEPT !.pc = "stats", !.project = p, !.key = None,
                          !.window = StatsWindow, !.early = early]
      BY <3>1, <1>q DEF PageType
    <3> QED BY <3>2, <2>1, <1>3, <1>4
  <2> QED BY <1>4, <2>2, <2>3
<1> QED BY <1>1, <1>2, <1>4 DEF Auth

\* A page that goes on to the next place with what it has read.
LEMMA GoOn ==
  ASSUME NEW q, Good(q), q.pc # "idle", q.answer = "keep",
         NEW new \in PageType, new.op = q.op, new.browser = q.browser, new.project = q.project,
         new.read = q.read, new.panel = q.panel, new.gone = q.gone, new.orphan = q.orphan, new.exclude = q.exclude,
         new.answer = "out" \/ new.answer = "keep", new.pc = "reply", new.key = None
  PROVE  Good(new)
<1>1. Shown(new) = Shown(q)
  BY SameReadSameShown
<1>2. Placed(new)
  BY DEF Good, Placed
<1>3. Shows(new)
  <2>1. Accounted(new) <=> Accounted(q)
    BY SameReadSameAccount
  <2> QED BY <1>1, <2>1 DEF Good, Shows
<1>4. Barred(new)
  BY DEF Good, Barred
<1> QED BY <1>2, <1>3, <1>4 DEF Good

LEMMA CheckAccountKeepsIInv == ASSUME IInv, NEW g \in Pages, CheckAccount(g) PROVE IInv'
<1> DEFINE q == page[g]
<1>q. Good(q) /\ q \in PageType
  BY DEF IInv, Good
<1>a. q.pc = "account" /\ q.answer = "keep"
  BY <1>q DEF CheckAccount, Good, Placed
<1>1. CASE q.browser \in admins /\ Step(g, [q EXCEPT !.pc = "find"]) /\ UNCHANGED panels
  <2> DEFINE new == [q EXCEPT !.pc = "find"]
  <2>1. /\ new \in PageType /\ new.pc = "find" /\ new.op = q.op /\ new.browser = q.browser
        /\ new.project = q.project /\ new.answer = "keep" /\ new.read = q.read /\ new.panel = q.panel
        /\ new.gone = q.gone /\ new.orphan = q.orphan /\ new.exclude = q.exclude /\ new.key = q.key
    BY <1>q, <1>a DEF PageType
  <2>2. Step(g, new)
    BY <1>1
  <2> HIDE DEF new
  <2>3. Shown(new) = Shown(q)
    BY <2>1, SameReadSameShown
  <2>4. Placed(new)
    BY <2>1, <1>q, <1>a DEF Good, Placed
  <2>5. Shows(new)
    <3>1. Accounted(new) <=> Accounted(q)
      BY <2>1, SameReadSameAccount
    <3> QED BY <2>1, <2>3, <3>1, <1>q DEF Good, Shows
  <2>6. Barred(new)
    BY <2>1, <1>1, <1>q, <1>a DEF Good, Barred
  <2> QED BY <1>1, <2>1, <2>2, <2>4, <2>5, <2>6, StepStep DEF Good
<1>2. CASE Step(g, [Done(q) EXCEPT !.answer = "out"]) /\ UNCHANGED panels
  <2> DEFINE new == [Done(q) EXCEPT !.answer = "out"]
  <2>1. /\ new \in PageType /\ new.pc = "reply" /\ new.op = q.op /\ new.browser = q.browser
        /\ new.project = q.project /\ new.answer = "out" /\ new.read = q.read /\ new.panel = q.panel
        /\ new.gone = q.gone /\ new.orphan = q.orphan /\ new.exclude = q.exclude /\ new.key = None
    BY <1>q, <1>a DEF PageType, Done
  <2>2. Step(g, new)
    BY <1>2
  <2> HIDE DEF new
  <2> QED BY <1>2, <2>1, <2>2, <1>q, <1>a, GoOn, StepStep
<1> QED BY <1>1, <1>2 DEF CheckAccount

LEMMA FindKeepsIInv == ASSUME IInv, NEW g \in Pages, Find(g) PROVE IInv'
<1> DEFINE q == page[g]
<1>q. Good(q) /\ RowsSound
  BY RowsAreSound DEF IInv
<1>a. q.pc = "find" /\ q.answer = "keep"
  BY <1>q DEF Find, Good, Placed
<1>1. CASE q.project \in P!Live
  <2>1. ~q.gone
    BY <1>1, <1>q DEF Good, Shows
  <2>2. Good(Opens(q, q.project))
    BY <2>1, <1>1, <1>q, <1>a, OpensIsGood
  <2> QED BY <2>2, <1>1, StepStep DEF Find
<1>2. CASE q.project \notin P!Live
  BY <1>2, <1>q, <1>a, DoneIsGood, StepStep DEF Find
<1> QED BY <1>1, <1>2

\* What a statement counts is its project's, and all of it that is there.
LEMMA CountedIsSound ==
  ASSUME IInv, NEW q, q.project \in P!Born, q.window \subseteq P!EventIds,
         NEW S, S \in {InWindow(q), Counted(q)}
  PROVE  /\ S \in SUBSET P!EventIds
         /\ \A e \in S : e < serial /\ events[e] = q.project
         /\ q.project \notin P!Live => S = {}
<1>1. RowsSound /\ q.project # None
  BY RowsAreSound, DashboardAssumption DEF IInv, RowsSound
<1>2. \A e \in S : e \in P!EventIds /\ events[e] = q.project
  <2>1. S \subseteq InWindow(q)
    BY DEF Counted
  <2> QED BY <2>1 DEF InWindow
<1>3. \A e \in S : e < serial
  BY <1>1, <1>2, DashboardAssumption DEF IInv, Ahead, RowsSound, P!EventIds
<1> QED BY <1>1, <1>2, <1>3 DEF RowsSound

\* A page that has read one more statement is good, wherever it goes with that.
LEMMA ReadIsGood ==
  ASSUME IInv, NEW q, Good(q), q.pc = "stats", NEW new \in PageType,
         new.op = q.op, new.browser = q.browser, new.project = q.project,
         new.answer = "keep", new.panel = {}, new.gone = q.gone, new.orphan = q.orphan, new.exclude = q.exclude,
         new.read = Append(q.read, Counted(q)), new.key = None,
         \/ new.pc = "stats" /\ Len(new.read) # Queries /\ new.window = q.window
         \/ new.pc = "panels" /\ Len(new.read) = Queries
         \/ new.pc = "reply"
  PROVE  Good(new)
<1>1. /\ q \in PageType /\ q.project \in P!Born /\ q.panel = {} /\ q.window \subseteq P!EventIds
      /\ Len(q.read) < Queries /\ q.read \in Seq(SUBSET P!EventIds) /\ q.browser \in Browsers
  BY DEF Good, Placed, PageType
<1>2. /\ Counted(q) \in SUBSET P!EventIds
      /\ \A e \in Counted(q) : e < serial /\ events[e] = q.project
      /\ q.project \notin P!Live => Counted(q) = {}
  BY <1>1, CountedIsSound
<1>3. /\ Len(new.read) = Len(q.read) + 1
      /\ \A i \in 1..Len(q.read) : new.read[i] = q.read[i]
      /\ new.read[Len(new.read)] = Counted(q)
  BY <1>1, <1>2
<1>4. Shown(new) = Shown(q) \cup Counted(q)
  <2>1. \A i \in 1..Len(new.read) : i \in 1..Len(q.read) \/ i = Len(new.read)
    BY <1>1, <1>3
  <2>2. 1..Len(q.read) \subseteq 1..Len(new.read) /\ Len(new.read) \in 1..Len(new.read)
    BY <1>1, <1>3
  <2> QED BY <1>1, <1>3, <2>1, <2>2 DEF Shown
<1>5. Placed(new)
  BY <1>1, <1>3, DashboardAssumption DEF Placed
<1>6. Shows(new)
  <2>1. \A e \in Shown(new) : e < serial /\ events[e] \in {new.project, None}
    BY <1>2, <1>4 DEF Good, Shows
  <2>2. new.gone => Shown(new) = {} /\ new.project \in P!Born \ P!Live
    BY <1>2, <1>4 DEF Good, Shows
  <2>3. new.project \in P!Live => \A e \in Shown(new) : events[e] = new.project
    BY <1>2, <1>4 DEF Good, Shows
  <2>4. ASSUME new.project \in P!Live, NEW i \in 1..Len(q.read), NEW e \in q.read[i], e \notin Counted(q)
        PROVE  LeftOut(q, e)
    <3>1. e \in q.window /\ e \in Shown(q)
      BY DEF Good, Shows, Shown
    <3>2. events[e] = q.project
      BY <3>1, <2>4 DEF Good, Shows
    <3> QED BY <3>1, <3>2, <2>4 DEF InWindow, Counted, LeftOut
  <2>5. ASSUME new.project \in P!Live PROVE Accounted(new)
    <3> SUFFICES ASSUME NEW i \in 1..Len(new.read), NEW j \in 1..Len(new.read), i < j,
                        NEW e \in new.read[i] \ new.read[j]
                 PROVE  LeftOut(q, e)
      BY DEF Accounted, LeftOut
    <3>1. i \in 1..Len(q.read) /\ (j \in 1..Len(q.read) \/ j = Len(new.read))
      BY <1>1, <1>3
    <3>2. CASE j \in 1..Len(q.read)
      <4>1. Accounted(q)
        BY <2>5 DEF Good, Shows
      <4> QED BY <3>1, <3>2, <4>1, <1>3 DEF Accounted
    <3>3. CASE j = Len(new.read)
      BY <3>1, <3>3, <2>4, <2>5, <1>3
    <3> QED BY <3>1, <3>2, <3>3
  <2>6. new.pc = "stats" => \A i \in 1..Len(new.read) : new.read[i] \subseteq new.window
    <3> SUFFICES ASSUME new.pc = "stats", NEW i \in 1..Len(new.read) PROVE new.read[i] \subseteq q.window
      OBVIOUS
    <3>1. i \in 1..Len(q.read) \/ i = Len(new.read)
      BY <1>1, <1>3
    <3>2. Counted(q) \subseteq q.window
      BY DEF InWindow, Counted
    <3> QED BY <3>1, <3>2, <1>3 DEF Good, Shows
  <2> QED BY <1>1, <2>1, <2>2, <2>3, <2>5, <2>6 DEF Shows
<1>7. Barred(new)
  BY DEF Good, Barred
<1> QED BY <1>5, <1>6, <1>7 DEF Good

\* A field changes, the others do not.
LEMMA SetOffer ==
  ASSUME NEW e \in PageType, NEW offer \in BOOLEAN PROVE [e EXCEPT !.offer = offer] \in PageType
BY SMTT(30) DEF PageType

LEMMA SetAdmin ==
  ASSUME NEW e \in PageType, NEW admin \in BOOLEAN PROVE [e EXCEPT !.admin = admin] \in PageType
BY SMTT(30) DEF PageType

LEMMA SetFailed ==
  ASSUME NEW e \in PageType, NEW failed \in BOOLEAN PROVE [e EXCEPT !.failed = failed] \in PageType
BY SMTT(30) DEF PageType

\* A page with nothing left to read.
LEMMA DoneFits ==
  ASSUME NEW q \in PageType
  PROVE  /\ Done(q) \in PageType /\ Done(q).pc = "reply" /\ Done(q).key = None
         /\ Done(q).op = q.op /\ Done(q).browser = q.browser /\ Done(q).project = q.project
         /\ Done(q).answer = q.answer /\ Done(q).read = q.read /\ Done(q).panel = q.panel
         /\ Done(q).gone = q.gone /\ Done(q).orphan = q.orphan /\ Done(q).exclude = q.exclude
<1>1. Done(q) \in PageType
  <2>1. ASSUME NEW e \in PageType
        PROVE  /\ [e EXCEPT !.pc = "reply"] \in PageType
               /\ [e EXCEPT !.key = None] \in PageType
               /\ [e EXCEPT !.admin = FALSE] \in PageType
               /\ [e EXCEPT !.window = {}] \in PageType
               /\ [e EXCEPT !.early = {}] \in PageType
    <3>1. [e EXCEPT !.pc = "reply"] \in PageType
      BY SMTT(30) DEF PageType
    <3>2. [e EXCEPT !.key = None] \in PageType
      BY SMTT(30) DEF PageType
    <3>3. [e EXCEPT !.admin = FALSE] \in PageType
      BY SetAdmin
    <3>4. [e EXCEPT !.window = {}] \in PageType
      BY SMTT(30) DEF PageType
    <3>5. [e EXCEPT !.early = {}] \in PageType
      BY SMTT(30) DEF PageType
    <3> QED BY <3>1, <3>2, <3>3, <3>4, <3>5
  <2> DEFINE e1 == [q  EXCEPT !.pc = "reply"]
             e2 == [e1 EXCEPT !.key = None]
             e3 == [e2 EXCEPT !.admin = FALSE]
             e4 == [e3 EXCEPT !.window = {}]
  <2>2. e1 \in PageType
    BY <2>1
  <2>3. e2 \in PageType
    <3> HIDE DEF e1
    <3> QED BY <2>1, <2>2
  <2>4. e3 \in PageType
    <3> HIDE DEF e2
    <3> QED BY <2>1, <2>3
  <2>5. e4 \in PageType
    <3> HIDE DEF e3
    <3> QED BY <2>1, <2>4
  <2>6. [e4 EXCEPT !.early = {}] \in PageType
    <3> HIDE DEF e4
    <3> QED BY <2>1, <2>5
  <2>7. Done(q) = [e4 EXCEPT !.early = {}]
    BY DEF Done
  <2> HIDE DEF e4
  <2> QED BY <2>6, <2>7
<1>2. /\ Done(q).pc = "reply" /\ Done(q).key = None
      /\ Done(q).op = q.op /\ Done(q).browser = q.browser /\ Done(q).project = q.project
      /\ Done(q).answer = q.answer /\ Done(q).read = q.read /\ Done(q).panel = q.panel
      /\ Done(q).gone = q.gone /\ Done(q).orphan = q.orphan /\ Done(q).exclude = q.exclude
  BY SMTT(30) DEF Done, PageType
<1> QED BY <1>1, <1>2

LEMMA QueryKeepsIInv == ASSUME IInv, NEW g \in Pages, Query(g) PROVE IInv'
<1> DEFINE q    == page[g]
           more == [q EXCEPT !.read = Append(@, Counted(q))]
<1>q. /\ Good(q) /\ q \in PageType /\ q.pc = "stats" /\ q.answer = "keep" /\ q.panel = {}
      /\ q.key = None
  BY DEF IInv, Good, Placed, Query
<1>c. Counted(q) \in SUBSET P!EventIds
  BY <1>q, CountedIsSound DEF Good, Placed, PageType
<1>m. /\ more \in PageType /\ more.pc = "stats" /\ more.op = q.op /\ more.browser = q.browser
      /\ more.project = q.project /\ more.answer = "keep" /\ more.panel = {} /\ more.gone = q.gone
      /\ more.key = None /\ more.orphan = q.orphan /\ more.exclude = q.exclude
      /\ more.window = q.window /\ more.read = Append(q.read, Counted(q))
  <2>1. q.read \in Seq(SUBSET P!EventIds)
    BY <1>q DEF PageType
  <2>2. ASSUME NEW read \in Seq(SUBSET P!EventIds)
        PROVE  [q EXCEPT !.read = read] \in PageType
    BY <1>q DEF PageType
  <2>3. Append(q.read, Counted(q)) \in Seq(SUBSET P!EventIds)
    BY <2>1, <1>c
  <2>4. more = [q EXCEPT !.read = Append(q.read, Counted(q))]
    BY <1>q DEF PageType
  <2>5. more \in PageType
    BY <2>2, <2>3, <2>4
  <2> QED BY <2>5, <1>q DEF PageType
<1>1. CASE Len(more.read) # Queries
  <2>1. Good(more)
    BY <1>1, <1>q, <1>m, ReadIsGood
  <2> QED BY <1>1, <2>1, StepStep DEF Query
<1>2. CASE Len(more.read) = Queries
  <2> DEFINE new == AfterStats(more)
  <2>1. /\ new \in PageType /\ new.pc \in {"panels", "reply"} /\ new.op = q.op
        /\ new.browser = q.browser /\ new.project = q.project /\ new.answer = "keep"
        /\ new.panel = {} /\ new.gone = q.gone /\ new.orphan = q.orphan /\ new.exclude = q.exclude /\ new.key = None
        /\ new.read = Append(q.read, Counted(q))
    <3> HIDE DEF more
    <3>1. CASE more.op = "api"
      <4>1. new = Done(more)
        BY <3>1 DEF AfterStats
      <4> HIDE DEF new
      <4> QED BY <4>1, <1>m, DoneFits
    <3>2. CASE more.op # "api"
      <4>1. new = [more EXCEPT !.pc = "panels"]
        BY <3>2 DEF AfterStats
      <4>2. new \in PageType
        BY <4>1, <1>m, SMTT(30) DEF PageType
      <4>3. /\ new.pc = "panels" /\ new.op = more.op /\ new.browser = more.browser
            /\ new.project = more.project /\ new.answer = more.answer
            /\ new.panel = more.panel /\ new.gone = more.gone /\ new.orphan = more.orphan
            /\ new.exclude = more.exclude /\ new.key = more.key /\ new.read = more.read
        BY <4>1, <1>m, SMTT(30) DEF PageType
      <4> HIDE DEF new
      <4> QED BY <4>2, <4>3, <1>m
    <3> QED BY <3>1, <3>2
  <2>2. Len(new.read) = Queries
    BY <1>2, <1>m, <2>1
  <2>3. Good(new)
    <3> HIDE DEF new
    <3> QED BY <2>1, <2>2, <1>q, ReadIsGood
  <2> QED BY <1>2, <2>3, StepStep DEF Query
<1> QED BY <1>1, <1>2

\* A page with its panels read, before they are put in.
LEMMA AfterPanelsFits ==
  ASSUME NEW q \in PageType, q.key = None, NEW n, n = AfterPanels(q)
  PROVE  /\ n \in PageType /\ n.pc \in {"list", "reply"} /\ n.key = None
         /\ n.op = q.op /\ n.browser = q.browser /\ n.project = q.project
         /\ n.answer = q.answer /\ n.read = q.read
         /\ n.gone = q.gone /\ n.orphan = q.orphan /\ n.exclude = q.exclude
<1>1. CASE q.admin
  <2>1. n = [q EXCEPT !.pc = "list"]
    BY <1>1 DEF AfterPanels
  <2>2. n \in PageType
    BY <2>1, SMTT(30) DEF PageType
  <2>3. /\ n.pc = "list" /\ n.key = None
        /\ n.op = q.op /\ n.browser = q.browser /\ n.project = q.project
        /\ n.answer = q.answer /\ n.read = q.read /\ n.gone = q.gone /\ n.orphan = q.orphan /\ n.exclude = q.exclude
    BY <2>1, SMTT(30) DEF PageType
  <2> QED BY <2>2, <2>3
<1>2. CASE ~q.admin
  <2>1. n = Done(q)
    BY <1>2 DEF AfterPanels
  <2> QED BY <2>1, DoneFits
<1> QED BY <1>1, <1>2

\* A page that was answered with something less, or nothing, of what it had read.
LEMMA SamplesKeepsIInv == ASSUME IInv, NEW g \in Pages, Samples(g) PROVE IInv'
<1> DEFINE q   == page[g]
           new == [Done(q) EXCEPT !.read = <<InWindow(q)>>]
<1>q. /\ Good(q) /\ q \in PageType /\ q.pc = "samples" /\ q.answer = "keep" /\ q.panel = {}
      /\ q.project \in P!Born /\ q.browser \in Browsers
  BY DEF IInv, Good, Placed, Samples
<1>c. /\ InWindow(q) \in SUBSET P!EventIds
      /\ \A e \in InWindow(q) : e < serial /\ events[e] = q.project
      /\ q.project \notin P!Live => InWindow(q) = {}
  BY <1>q, CountedIsSound DEF PageType
<1>1. /\ new \in PageType /\ new.pc = "reply" /\ new.op = q.op /\ new.browser = q.browser
      /\ new.project = q.project /\ new.answer = "keep" /\ new.panel = {}
      /\ new.gone = q.gone /\ new.orphan = q.orphan /\ new.exclude = q.exclude /\ new.key = None /\ new.read = <<InWindow(q)>>
  <2> DEFINE d == Done(q)
  <2>1. /\ d \in PageType /\ d.pc = "reply" /\ d.op = q.op /\ d.browser = q.browser
        /\ d.project = q.project /\ d.answer = "keep" /\ d.panel = {}
        /\ d.gone = q.gone /\ d.orphan = q.orphan /\ d.exclude = q.exclude /\ d.key = None
    BY <1>q, DoneFits
  <2>2. <<InWindow(q)>> \in Seq(SUBSET P!EventIds)
    BY <1>c
  <2> HIDE DEF d
  <2>3. new = [d EXCEPT !.read = <<InWindow(q)>>]
    BY DEF d
  <2>4. ASSUME NEW reads \in Seq(SUBSET P!EventIds)
        PROVE  [d EXCEPT !.read = reads] \in PageType
    BY <2>1, SMTT(30) DEF PageType
  <2>5. new \in PageType
    BY <2>2, <2>3, <2>4
  <2>6. /\ new.pc = d.pc /\ new.op = d.op /\ new.browser = d.browser /\ new.project = d.project
        /\ new.answer = d.answer /\ new.panel = d.panel /\ new.read = <<InWindow(q)>>
        /\ new.gone = d.gone /\ new.orphan = d.orphan /\ new.exclude = d.exclude /\ new.key = d.key
    BY <2>1, <2>3, SMTT(30) DEF PageType
  <2> HIDE DEF new
  <2> QED BY <2>1, <2>5, <2>6
<1>s. Step(g, new) /\ UNCHANGED panels
  BY DEF Samples
<1> HIDE DEF new
<1>2. Shown(new) = InWindow(q) /\ Len(new.read) = 1
  BY <1>1 DEF Shown
<1>3. Placed(new)
  BY <1>1, <1>q DEF Placed
<1>4. Shows(new)
  BY <1>1, <1>2, <1>c, <1>q, OneReadAccounted DEF Good, Shows
<1>5. Barred(new)
  BY <1>1, <1>q DEF Good, Barred
<1> QED BY <1>s, <1>1, <1>3, <1>4, <1>5, StepStep DEF Good

LEMMA ComputePanelsKeepsIInv == ASSUME IInv, NEW g \in Pages, ComputePanels(g) PROVE IInv'
<1> DEFINE q == page[g]
<1>q. /\ Good(q) /\ q \in PageType /\ q.pc = "panels" /\ q.answer = "keep" /\ q.panel = {}
      /\ q.project \in P!Born /\ Len(q.read) = Queries /\ q.browser \in Browsers /\ q.key = None
  BY DEF IInv, Good, Placed, ComputePanels
<1>c. /\ InWindow(q) \in SUBSET P!EventIds
      /\ \A e \in InWindow(q) : e < serial /\ events[e] = q.project
      /\ q.project \notin P!Live => InWindow(q) = {}
  BY <1>q, CountedIsSound DEF PageType
<1>1. PICK rows \in {InWindow(q), {}} : /\ Step(g, [AfterPanels(q) EXCEPT !.panel = rows])
                                       /\ UNCHANGED panels
  BY DEF ComputePanels, IInv
<1> DEFINE new == [AfterPanels(q) EXCEPT !.panel = rows]
<1>r. /\ rows \in SUBSET P!EventIds
      /\ \A e \in rows : e < serial /\ events[e] = q.project
      /\ q.project \notin P!Live => rows = {}
  BY <1>c
<1>2. /\ new \in PageType /\ new.pc \in {"list", "reply"} /\ new.op = q.op /\ new.browser = q.browser
      /\ new.project = q.project /\ new.answer = "keep" /\ new.panel = rows
      /\ new.gone = q.gone /\ new.orphan = q.orphan /\ new.exclude = q.exclude /\ new.key = None /\ new.read = q.read
  <2> DEFINE n == AfterPanels(q)
  <2>1. /\ n \in PageType /\ n.pc \in {"list", "reply"} /\ n.key = None
        /\ n.op = q.op /\ n.browser = q.browser /\ n.project = q.project
        /\ n.answer = q.answer /\ n.read = q.read /\ n.gone = q.gone /\ n.orphan = q.orphan /\ n.exclude = q.exclude
    BY <1>q, AfterPanelsFits
  <2> HIDE DEF n
  <2>2. new = [n EXCEPT !.panel = rows]
    BY DEF n
  <2> HIDE DEF new, q
  <2>3. n \in PageType /\ rows \in SUBSET P!EventIds
    BY <2>1, <1>r
  <2>4. new \in PageType
    BY <2>2, <2>3, SMTT(30) DEF PageType
  <2>5. /\ new.panel = rows /\ new.pc = n.pc /\ new.op = n.op /\ new.browser = n.browser
        /\ new.project = n.project /\ new.answer = n.answer /\ new.read = n.read
        /\ new.gone = n.gone /\ new.orphan = n.orphan /\ new.exclude = n.exclude /\ new.key = n.key
    BY <2>2, <2>3, SMTT(30) DEF PageType
  <2> QED BY <2>1, <2>4, <2>5, <1>q
<1>s. Step(g, new)
  BY <1>1
<1> HIDE DEF new
<1>3. Shown(new) = Shown(q) \cup rows
  BY <1>2, <1>q DEF Shown
<1>4. Placed(new)
  BY <1>2, <1>q DEF Placed
<1>5. Shows(new)
  <2>1. Accounted(new) <=> Accounted(q)
    BY <1>2, SameReadSameAccount
  <2> QED BY <1>2, <1>3, <1>r, <1>q, <2>1 DEF Good, Shows
<1>6. Barred(new)
  BY <1>2, <1>q DEF Good, Barred
<1> QED BY <1>1, <1>s, <1>2, <1>4, <1>5, <1>6, StepStep DEF Good

LEMMA ListProjectsKeepsIInv == ASSUME IInv, NEW g \in Pages, ListProjects(g) PROVE IInv'
<1> DEFINE q == page[g]
<1>q. Good(q) /\ q \in PageType /\ q.pc = "list" /\ q.answer = "keep"
  BY DEF IInv, Good, Placed, ListProjects
<1>1. ASSUME NEW offer \in BOOLEAN, NEW failed \in BOOLEAN,
             Step(g, [Done(q) EXCEPT !.offer = offer, !.failed = failed]), UNCHANGED panels
      PROVE  IInv'
  <2> DEFINE new == [Done(q) EXCEPT !.offer = offer, !.failed = failed]
  <2>1. /\ new \in PageType /\ new.pc = "reply" /\ new.op = q.op /\ new.browser = q.browser
        /\ new.project = q.project /\ new.answer = "keep" /\ new.read = q.read /\ new.panel = q.panel
        /\ new.gone = q.gone /\ new.orphan = q.orphan /\ new.exclude = q.exclude /\ new.key = None
    <3> DEFINE d == Done(q)
    <3>1. /\ d \in PageType /\ d.pc = "reply" /\ d.op = q.op /\ d.browser = q.browser
          /\ d.project = q.project /\ d.answer = "keep" /\ d.read = q.read /\ d.panel = q.panel
          /\ d.gone = q.gone /\ d.orphan = q.orphan /\ d.exclude = q.exclude /\ d.key = None
      BY <1>q, DoneFits
    <3> HIDE DEF d
    <3>2. new = [d EXCEPT !.offer = offer, !.failed = failed]
      BY DEF d
    <3> HIDE DEF new, q
    <3>3. new \in PageType
      <4>1. new = [[d EXCEPT !.offer = offer] EXCEPT !.failed = failed]
        BY <3>2
      <4> QED BY <4>1, <3>1, SetOffer, SetFailed
    <3>4. /\ new.pc = d.pc /\ new.op = d.op /\ new.browser = d.browser /\ new.project = d.project
          /\ new.answer = d.answer /\ new.read = d.read /\ new.panel = d.panel
          /\ new.gone = d.gone /\ new.orphan = d.orphan /\ new.exclude = d.exclude /\ new.key = d.key
      BY <3>1, <3>2 DEF PageType
    <3> QED BY <3>1, <3>3, <3>4
  <2> HIDE DEF new
  <2>2. Step(g, new)
    BY <1>1 DEF new
  <2> QED BY <1>1, <2>1, <2>2, <1>q, GoOn, StepStep
<1>2. /\ [Done(q) EXCEPT !.offer = TRUE] = [Done(q) EXCEPT !.offer = TRUE, !.failed = q.failed]
      /\ [Done(q) EXCEPT !.failed = TRUE] = [Done(q) EXCEPT !.offer = q.offer, !.failed = TRUE]
      /\ q.failed \in BOOLEAN /\ q.offer \in BOOLEAN
  BY <1>q DEF Done, PageType
<1> QED BY <1>1, <1>2 DEF ListProjects

LEMMA StatementFailsKeepsIInv == ASSUME IInv, NEW g \in Pages, StatementFails(g) PROVE IInv'
<1> DEFINE q   == page[g]
           new == [Done(q) EXCEPT !.read = <<>>, !.failed = TRUE]
<1>q. /\ Good(q) /\ q \in PageType /\ q.pc \in {"auth", "find", "stats", "samples"}
      /\ q.answer = "keep" /\ q.panel = {} /\ q.browser \in Browsers
  BY DEF IInv, Good, Placed, StatementFails
<1>1. /\ new \in PageType /\ new.pc = "reply" /\ new.op = q.op /\ new.browser = q.browser
      /\ new.project = q.project /\ new.answer = "keep" /\ new.panel = {}
      /\ new.gone = q.gone /\ new.orphan = q.orphan /\ new.exclude = q.exclude /\ new.key = None /\ new.read = <<>>
  <2> DEFINE d == Done(q)
  <2>1. /\ d \in PageType /\ d.pc = "reply" /\ d.op = q.op /\ d.browser = q.browser
        /\ d.project = q.project /\ d.answer = "keep" /\ d.panel = {}
        /\ d.gone = q.gone /\ d.orphan = q.orphan /\ d.exclude = q.exclude /\ d.key = None
    BY <1>q, DoneFits
  <2> HIDE DEF d
  <2> DEFINE e == [d EXCEPT !.read = <<>>]
  <2>2. e = [d EXCEPT !.read = <<>>] /\ <<>> \in Seq(SUBSET P!EventIds)
    OBVIOUS
  <2>3. /\ e \in PageType
        /\ e.pc = d.pc /\ e.op = d.op /\ e.browser = d.browser /\ e.project = d.project
        /\ e.answer = d.answer /\ e.panel = d.panel /\ e.read = <<>>
        /\ e.gone = d.gone /\ e.orphan = d.orphan /\ e.exclude = d.exclude /\ e.key = d.key
    <3> HIDE DEF e, q
    <3>1. e \in PageType
      <4>1. ASSUME NEW reads \in Seq(SUBSET P!EventIds)
            PROVE  [d EXCEPT !.read = reads] \in PageType
        BY <2>1, SMTT(30) DEF PageType
      <4> QED BY <4>1, <2>2
    <3>2. /\ e.pc = d.pc /\ e.op = d.op /\ e.browser = d.browser /\ e.project = d.project
          /\ e.answer = d.answer /\ e.panel = d.panel /\ e.read = <<>>
          /\ e.gone = d.gone /\ e.orphan = d.orphan /\ e.exclude = d.exclude /\ e.key = d.key
      BY <2>1, <2>2, SMTT(30) DEF PageType
    <3> QED BY <3>1, <3>2
  <2>4. new = [e EXCEPT !.failed = TRUE]
    BY DEF d
  <2> HIDE DEF new, e, q
  <2>5. new \in PageType
    BY <2>3, <2>4, SetFailed
  <2>6. /\ new.pc = e.pc /\ new.op = e.op /\ new.browser = e.browser /\ new.project = e.project
        /\ new.answer = e.answer /\ new.panel = e.panel /\ new.read = e.read
        /\ new.gone = e.gone /\ new.orphan = e.orphan /\ new.exclude = e.exclude /\ new.key = e.key
    BY <2>3, <2>4 DEF PageType
  <2> QED BY <2>1, <2>3, <2>5, <2>6
<1>s. Step(g, new) /\ UNCHANGED panels
  BY DEF StatementFails
<1> HIDE DEF new
<1>2. Shown(new) = {} /\ Len(new.read) = 0
  BY <1>1, NothingRead
<1>3. Placed(new)
  BY <1>1, <1>q DEF Placed
<1>4. Shows(new)
  BY <1>1, <1>2, <1>q, OneReadAccounted DEF Good, Shows
<1>5. Barred(new)
  BY <1>1, <1>q DEF Good, Barred
<1> QED BY <1>s, <1>1, <1>3, <1>4, <1>5, StepStep DEF Good

-----------------------------------------------------------------------------
(* Cookies. *)

\* The pages are as they were, or done; cookies and accounts may be others.
LEMMA CookieStep ==
  ASSUME IInv, UNCHANGED <<tables, panels>>, admins' \subseteq admins,
         page' = page \/ \E g \in Pages : page' = [page EXCEPT ![g] = Idle],
         jar' \in [Browsers -> [session : Ids \cup {None}, admin : BOOLEAN]],
         \A b \in Browsers : jar'[b].session \in P!Born \cup {None}
  PROVE  IInv'
<1>1. PP!IInv'
  BY RowsStay DEF IInv
<1>2. P!Live' = P!Live /\ P!Born' = P!Born
  BY DEF tables, P!Live, P!Born
<1>3. Ahead' /\ panels' = {} /\ CookiesInv' /\ NamesInv'
  BY <1>2 DEF IInv, Ahead, CookiesInv, NamesInv, tables, P!EventIds
<1>4. page' \in [Pages -> PageType] /\ \A h \in Pages : Good(page'[h])
  BY IdleIsGood DEF IInv, Good
<1>6. ASSUME NEW h \in Pages PROVE Good(page[h])'
  <2>1. Good(page'[h])
    BY <1>4
  <2>2. (page[h] \in PageType)'
    BY <2>1 DEF Good, PageType, P!EventIds
  <2>3. Placed(page[h])'
    BY <2>1, <1>2 DEF Good, Placed, tables
  <2>4. Shows(page[h])'
    BY <2>1, <1>2, AccountStays DEF Good, Shows, Shown, tables
  <2>5. Barred(page[h])'
    BY <2>1, <1>2 DEF Good, Barred, tables
  <2> QED BY <2>2, <2>3, <2>4, <2>5 DEF Good
<1> QED BY <1>1, <1>3, <1>4, <1>6 DEF IInv

LEMMA AnswerKeepsIInv ==
  ASSUME IInv, NEW g \in Pages, Respond(g) \/ ResponseLost(g) PROVE IInv'
<1>t. /\ jar \in [Browsers -> [session : Ids \cup {None}, admin : BOOLEAN]]
      /\ \A b \in Browsers : jar[b].session \in P!Born \cup {None}
      /\ P!Born \subseteq Ids
  BY RowsAreSound DEF IInv, CookiesInv, RowsSound
<1>1. CASE ResponseLost(g)
  BY <1>1, <1>t, CookieStep DEF ResponseLost
<1>2. CASE Respond(g)
  <2> DEFINE q == page[g]
             session == CASE q.answer = "set" -> q.project
                          [] q.answer = "clear" -> None
                          [] OTHER -> jar[q.browser].session
             admin == jar[q.browser].admin /\ q.answer # "out"
  <2>1. Good(q) /\ q.browser \in Browsers
    BY <1>2 DEF IInv, Good, Placed, Respond
  <2>2. q.answer = "set" => q.project \in P!Born \cup {None}
    BY <2>1 DEF Good, Shows
  <2>3. session \in P!Born \cup {None} /\ admin \in BOOLEAN
    BY <2>1, <2>2, <1>t
  <2>4. jar' = [jar EXCEPT ![q.browser] = [session |-> session, admin |-> admin]]
    BY <1>2 DEF Respond
  <2>5. page' = [page EXCEPT ![g] = Idle] /\ UNCHANGED <<tables, admins, panels>>
    BY <1>2 DEF Respond
  <2> HIDE DEF session, admin, q
  <2>6. jar' \in [Browsers -> [session : Ids \cup {None}, admin : BOOLEAN]]
    BY <2>1, <2>3, <2>4, <1>t
  <2>7. \A b \in Browsers : jar'[b].session \in P!Born \cup {None}
    BY <2>1, <2>3, <2>4, <1>t
  <2> QED BY <2>5, <2>6, <2>7, CookieStep
<1> QED BY <1>1, <1>2

LEMMA CookiesKeepIInv ==
  ASSUME IInv, NEW b \in Browsers, AdminCookie(b) \/ AccountDeleted(b) \/ SessionExpires(b)
  PROVE  IInv'
<1>t. /\ jar \in [Browsers -> [session : Ids \cup {None}, admin : BOOLEAN]]
      /\ \A c \in Browsers : jar[c].session \in P!Born \cup {None}
  BY DEF IInv, CookiesInv
<1>1. CASE AdminCookie(b)
  <2>1. PICK a \in BOOLEAN : jar' = [jar EXCEPT ![b].admin = a]
    BY <1>1 DEF AdminCookie
  <2>2. jar' \in [Browsers -> [session : Ids \cup {None}, admin : BOOLEAN]]
    BY <2>1, <1>t
  <2>3. \A c \in Browsers : jar'[c].session = jar[c].session
    BY <2>1, <1>t
  <2> QED BY <2>2, <2>3, <1>1, <1>t, CookieStep DEF AdminCookie
<1>2. CASE AccountDeleted(b)
  BY <1>2, <1>t, CookieStep DEF AccountDeleted
<1>3. CASE SessionExpires(b)
  <2>1. jar' = [jar EXCEPT ![b].session = None]
    BY <1>3 DEF SessionExpires
  <2>2. jar' \in [Browsers -> [session : Ids \cup {None}, admin : BOOLEAN]]
    BY <2>1, <1>t
  <2>3. \A c \in Browsers : jar'[c].session \in {jar[c].session, None}
    BY <2>1, <1>t
  <2> QED BY <2>2, <2>3, <1>3, <1>t, CookieStep DEF SessionExpires
<1> QED BY <1>1, <1>2, <1>3

-----------------------------------------------------------------------------
(* A step of Projects: rows change under the pages. *)

LEMMA ProjectStepPages ==
  ASSUME IInv, ProjectStep, NEW g \in Pages
  PROVE  LET q == page[g]  new == page'[g] IN
         /\ new \in PageType /\ new.pc = q.pc /\ new.op = q.op /\ new.browser = q.browser
         /\ new.project = q.project /\ new.key = q.key /\ new.answer = q.answer
         /\ new.read = q.read /\ new.panel = q.panel /\ new.gone = q.gone /\ new.orphan = q.orphan /\ new.exclude = q.exclude
         /\ new.stale = q.stale /\ q.window \subseteq new.window
<1>1. RowsMove /\ RowsSound
  BY RowsStep, RowsAreSound DEF ProjectStep, IInv
<1>2. \E early \in SUBSET Requests, window \in SUBSET P!EventIds :
               /\ page[g].window \subseteq window
               /\ page'[g] = [page[g] EXCEPT !.early = early, !.window = window]
  <2> DEFINE q == page[g]
             ended == {r \in q.early : req'[r].op # "track"}
             early == q.early \ ended
             window == IF ended # {} /\ serial' # serial THEN q.window \cup {serial} ELSE q.window
  <2>1. q \in PageType
    BY DEF IInv
  <2>2. page'[g] = [q EXCEPT !.early = early, !.window = window]
    BY <2>1 DEF ProjectStep, PageType
  <2>3. q.early \subseteq Requests /\ q.window \subseteq P!EventIds
    BY <2>1 DEF PageType
  <2>4. serial' # serial => serial \in P!EventIds
    BY <1>1, DashboardAssumption DEF RowsMove, RowsSound, P!EventIds
  <2> QED BY <2>2, <2>3, <2>4
<1> DEFINE q   == page[g]
           new == page'[g]
<1>3. PICK early \in SUBSET Requests, window \in SUBSET P!EventIds :
        q.window \subseteq window /\ new = [q EXCEPT !.early = early, !.window = window]
  BY <1>2
<1>4. q \in PageType
  BY DEF IInv
<1> HIDE DEF new, q
<1>5. /\ new \in PageType /\ new.pc = q.pc /\ new.op = q.op /\ new.browser = q.browser
      /\ new.project = q.project /\ new.key = q.key /\ new.answer = q.answer
      /\ new.read = q.read /\ new.panel = q.panel /\ new.gone = q.gone /\ new.orphan = q.orphan /\ new.exclude = q.exclude
      /\ new.stale = q.stale /\ q.window \subseteq new.window
  BY <1>3, <1>4 DEF PageType
<1> QED BY <1>5 DEF new, q

\* Names are given to visitors of projects.
LEMMA NamedAreVisitors == ASSUME PP!IInv' PROVE Named \subseteq Ids \X Visitors
<1>1. visitors' \subseteq Ids \X Visitors
  BY DEF PP!IInv, PP!TypeOK
<1>2. ASSUME NEW r \in Requests, P!Upsert(r)
      PROVE  <<req[r].project, req[r].visitor>> \in visitors'
  BY <1>2 DEF P!Upsert
<1> QED BY <1>1, <1>2 DEF Named

LEMMA ProjectStepKeepsIInv == ASSUME IInv, ProjectStep PROVE IInv'
<1>1. PP!IInv' /\ RowsMove /\ RowsSound /\ RowsSound'
  <2>1. PP!IInv' /\ RowsMove
    BY RowsStep DEF ProjectStep, IInv
  <2>2. RowsSound /\ RowsSound'
    <3>1. (PP!IInv => RowsSound) /\ (PP!IInv => RowsSound)'
      BY RowsAreSound, PTL
    <3> QED BY <3>1, <2>1 DEF IInv
  <2> QED BY <2>1, <2>2
<1>2. UNCHANGED <<jar, admins, panels>>
  BY DEF ProjectStep
<1>3. Ahead'
  <2> SUFFICES ASSUME NEW e \in P!EventIds, e >= serial' PROVE events'[e] = None
    BY DEF Ahead, P!EventIds
  <2>1. e >= serial /\ ~(e = serial /\ serial' = serial + 1)
    BY <1>1, DashboardAssumption DEF RowsMove, RowsSound, P!EventIds
  <2> QED BY <2>1, <1>1 DEF RowsMove, IInv, Ahead
<1>4. CookiesInv' /\ NamesInv'
  <2>1. CookiesInv'
    BY <1>1, <1>2 DEF RowsMove, IInv, CookiesInv
  <2>2. by' \in [P!EventIds -> Visitors \cup {None}]
    BY DEF ProjectStep, IInv, NamesInv
  <2>3. Named \subseteq Ids \X Visitors
    BY <1>1, NamedAreVisitors
  <2>4. named' \subseteq Ids \X Visitors
    BY <2>3 DEF ProjectStep, IInv, NamesInv
  <2> QED BY <2>1, <2>2, <2>4 DEF NamesInv, P!EventIds
<1>5. /\ \A e \in P!EventIds : e < serial => by'[e] = by[e]
      /\ \A x \in named : x[1] \in P!Live' => x \in named'
  <2>1. \A e \in P!EventIds : e < serial => e # serial
    BY <1>1 DEF P!EventIds, RowsSound
  <2> QED BY <2>1 DEF ProjectStep, IInv, NamesInv
<1>6. ASSUME NEW g \in Pages PROVE page'[g] \in PageType /\ Good(page[g])'
  <2> DEFINE q == page[g]
             new == page'[g]
  <2>q. Good(q) /\ q \in PageType
    BY DEF IInv, Good
  <2>1. /\ new \in PageType /\ new.pc = q.pc /\ new.op = q.op /\ new.browser = q.browser
        /\ new.project = q.project /\ new.key = q.key /\ new.answer = q.answer
        /\ new.read = q.read /\ new.panel = q.panel /\ new.gone = q.gone /\ new.orphan = q.orphan /\ new.exclude = q.exclude
        /\ q.window \subseteq new.window
    BY ProjectStepPages
  <2>2. (page[g] \in PageType)'
    BY <2>1 DEF PageType, P!EventIds
  <2>3. Placed(page[g])'
    <3>1. q.pc = "auth" => issued'[q.key] = issued[q.key]
      BY <2>q, <1>1 DEF Good, Placed, RowsMove
    <3> QED BY <3>1, <2>1, <2>q, <1>1 DEF Good, Placed, RowsMove
  <2>4. Shows(page[g])'
    <3>1. Shown(new) = Shown(q)
      BY <2>1, SameReadSameShown
    <3>2. q.project \in P!Born \cup {None} /\ None \notin P!Born /\ P!Live \subseteq P!Born
      BY <2>q, <1>1, DashboardAssumption DEF Good, Shows, RowsSound
    <3>3. \A e \in Shown(q) : e \in P!EventIds /\ e < serial
      BY <2>q, ShownOverWindow DEF Good, Shows
    <3>4. \A e \in Shown(q) : /\ e < serial'
                              /\ events'[e] = events[e] \/ (events'[e] = None /\ events[e] \notin P!Live')
      BY <3>3, <1>1 DEF RowsMove, RowsSound, P!EventIds
    <3>5. q.project \in P!Live' => q.project \in P!Live
      BY <3>2, <1>1, DashboardAssumption DEF RowsMove, RowsSound, P!Live
    <3>6. \A e \in Shown(new) : e < serial' /\ events'[e] \in {new.project, None}
      BY <2>1, <2>q, <3>1, <3>4 DEF Good, Shows
    <3>7. new.gone => Shown(new) = {} /\ new.project \in P!Born' \ P!Live'
      BY <2>1, <2>q, <3>1, <3>5, <1>1 DEF Good, Shows, RowsMove
    <3>8. new.project \in P!Live' =>
            /\ \A e \in Shown(new) : events'[e] = new.project
            /\ Accounted(page[g])'
      <4>1. new.project \in P!Live' => \A e \in Shown(new) : events'[e] = new.project
        BY <2>1, <2>q, <3>1, <3>4, <3>5 DEF Good, Shows
      <4>2. ASSUME new.project \in P!Live' PROVE Accounted(page[g])'
        <5> SUFFICES ASSUME NEW i \in 1..Len(q.read), NEW j \in 1..Len(q.read), i < j,
                            NEW e \in q.read[i] \ q.read[j]
                     PROVE  q.exclude /\ <<q.project, by'[e]>> \in named'
          BY <2>1 DEF Accounted, LeftOut
        <5>1. Accounted(q)
          BY <4>2, <2>1, <2>q, <3>5 DEF Good, Shows
        <5>2. e \in Shown(q) /\ LeftOut(q, e)
          BY <5>1 DEF Accounted, Shown
        <5>3. by'[e] = by[e] /\ <<q.project, by[e]>> \in named'
          BY <5>2, <4>2, <2>1, <3>3, <1>5 DEF LeftOut
        <5> QED BY <5>2, <5>3 DEF LeftOut
      <4> QED BY <4>1, <4>2
    <3>9. new.pc = "stats" => \A i \in 1..Len(new.read) : new.read[i] \subseteq new.window
      BY <2>1, <2>q DEF Good, Shows
    <3>10. new.project \in P!Born' \cup {None}
      BY <2>1, <3>2, <1>1 DEF RowsMove
    <3>11. Shown(page[g])' = Shown(new)
      BY DEF Shown
    <3> HIDE DEF new
    <3> QED BY <3>6, <3>7, <3>8, <3>9, <3>10, <3>11 DEF Shows, new
  <2>5. Barred(page[g])'
    BY <2>1, <2>q, <1>2 DEF Good, Barred
  <2> QED BY <2>1, <2>2, <2>3, <2>4, <2>5 DEF Good
<1>7. page' \in [Pages -> PageType]
  <2>1. page' = [g \in Pages |-> page'[g]]
    BY DEF ProjectStep
  <2> QED BY <2>1, <1>6
<1> QED BY <1>1, <1>2, <1>3, <1>4, <1>6, <1>7 DEF IInv

LEMMA StepKeepsIInv == IInv /\ [Next]_vars => IInv'
<1> SUFFICES ASSUME IInv, [Next]_vars PROVE IInv'
  OBVIOUS
<1>1. CASE UNCHANGED vars
  BY <1>1, CookieStep DEF vars, IInv, CookiesInv
<1>2. CASE ProjectStep
  BY <1>2, ProjectStepKeepsIInv
<1>3. ASSUME NEW b \in Browsers, AdminCookie(b) \/ AccountDeleted(b) \/ SessionExpires(b) PROVE IInv'
  BY <1>3, CookiesKeepIInv
<1>4. ASSUME NEW g \in Pages, NEW b \in Browsers, Arrive(g, b) PROVE IInv'
  BY <1>4, ArriveKeepsIInv
<1>5. ASSUME NEW g \in Pages, Handle(g) PROVE IInv'
  BY <1>5, AuthKeepsIInv, CheckAccountKeepsIInv, FindKeepsIInv, QueryKeepsIInv, SamplesKeepsIInv,
     ComputePanelsKeepsIInv, ListProjectsKeepsIInv, StatementFailsKeepsIInv, AnswerKeepsIInv
     DEF Handle
<1> QED BY <1>1, <1>2, <1>3, <1>4, <1>5 DEF Next

LEMMA AlwaysIInv == Spec => []IInv
BY InitIInv, StepKeepsIInv, PTL DEF Spec

-----------------------------------------------------------------------------
(* The theorems. *)

\* Cookies, pages and the shared panels are well formed, always.
THEOREM TypeCorrect == Spec => []TypeOK
<1>1. IInv => TypeOK
  BY DEF IInv, CookiesInv, NamesInv, Good, Placed, TypeOK
<1> QED BY <1>1, AlwaysIInv, PTL

(* No number on a page counts an event of another project, for any number of
   pages that share Deps.Panels (computePanelRows) and of projects that come and
   go between the statements of EventRepository.Stats. *)
THEOREM PagesStayWithTheirProject == Spec => []OneProjectPerPage
<1>1. IInv => OneProjectPerPage
  BY DEF IInv, Good, Shows, OneProjectPerPage
<1> QED BY <1>1, AlwaysIInv, PTL

(* A dashboard session may outlive its project, but shows nothing once it is
   gone: the foreign keys leave nothing to count, and no project takes the id. *)
THEOREM GoneProjectsShowNothing == Spec => []GoneShowsNothing
<1>1. IInv => GoneShowsNothing
  BY DEF IInv, Good, Shows, GoneShowsNothing
<1> QED BY <1>1, AlwaysIInv, PTL

(* As long as the project exists, a later statement of a page leaves out nothing
   that an earlier one counted but the events of visitors named meanwhile, although
   EventRepository.Stats has no transaction. *)
THEOREM LaterNumbersLoseOnlyTheNamed == Spec => []NumbersLoseOnlyTheNamed
<1>1. IInv => NumbersLoseOnlyTheNamed
  BY DEF IInv, Good, Shows, Accounted, LeftOut, NumbersLoseOnlyTheNamed
<1> QED BY <1>1, AlwaysIInv, PTL

(* requireAdminSession closes handleViewProject to a cookie whose account was
   deleted before the request arrived. *)
THEOREM DeletedAdminsOpenNothing == Spec => []DeletedAdminOpensNothing
<1>1. IInv => DeletedAdminOpensNothing
  BY DEF IInv, Good, Barred, DeletedAdminOpensNothing
<1> QED BY <1>1, AlwaysIInv, PTL

-----------------------------------------------------------------------------
(* Retired keys, where edits and rotations of one project do not overlap
   (ProjectsProofs): a request that brought one is on its way to a 401. *)

Refused == \A g \in Pages : page[g].stale =>
  /\ page[g].pc \in {"auth", "reply"}
  /\ page[g].pc = "auth" => page[g].key \in retired
  /\ page[g].answer # "set"
  /\ Shown(page[g]) = {}

RefusedInv == IInv /\ PP!RInv /\ Refused

\* A page is refused, or need not be.
LEMMA RefusedPages ==
  ASSUME Refused, retired \subseteq retired',
         \A g \in Pages : \/ page'[g] = page[g]
                          \/ ~page'[g].stale
                          \/ /\ page'[g].pc \in {"auth", "reply"}
                             /\ page'[g].pc = "auth" => page'[g].key \in retired
                             /\ page'[g].answer # "set"
                             /\ Shown(page'[g]) = {}
  PROVE  Refused'
<1>1. ASSUME NEW g \in Pages, page'[g].stale
      PROVE  /\ page'[g].pc \in {"auth", "reply"}
             /\ page'[g].pc = "auth" => page'[g].key \in retired'
             /\ page'[g].answer # "set"
             /\ Shown(page'[g]) = {}
  BY <1>1 DEF Refused
<1> QED BY <1>1 DEF Refused, Shown

LEMMA BeginKeepsRefused ==
  ASSUME IInv, IInv', Refused, NEW g \in Pages, NEW b \in Browsers, NEW new, Begin(g, b, new), new \in PageType
  PROVE  Refused'
<1> DEFINE fin == [new EXCEPT !.browser = b,
                              !.holds = new.op = "overview" /\ jar[b].admin,
                              !.orphan = new.op = "view" /\ b \notin admins,
                              !.gone = new.project # None /\ new.project \notin P!Live,
                              !.stale = new.key \in retired]
<1>1. page' = [page EXCEPT ![g] = fin] /\ retired' = retired
  BY DEF Begin, tables
<1>2. fin.key = new.key /\ (fin.stale <=> new.key \in retired)
  BY DEF PageType
<1> HIDE DEF fin
<1>3. page'[g] = fin /\ \A h \in Pages \ {g} : page'[h] = page[h]
  BY <1>1 DEF IInv
<1>4. None \notin retired
  BY RowsAreSound, DashboardAssumption DEF IInv, RowsSound
<1>5. ASSUME fin.stale
      PROVE  /\ fin.pc = "auth" /\ fin.key \in retired /\ fin.answer # "set"
             /\ Shown(fin) = {}
  <2>1. Placed(page[g])'
    BY DEF IInv, Good
  <2>2. fin.pc = "auth" /\ fin.read = <<>> /\ fin.panel = {} /\ fin.answer = "keep"
    BY <2>1, <1>2, <1>3, <1>4, <1>5 DEF Placed
  <2> QED BY <2>2, <1>2, <1>5, NothingRead
<1> QED BY <1>1, <1>3, <1>5, RefusedPages

LEMMA AuthKeepsRefused ==
  ASSUME IInv, PP!RInv, Refused, NEW g \in Pages, Auth(g) PROVE Refused'
<1> DEFINE q == page[g]
<1>q. Good(q) /\ q \in PageType /\ q.pc = "auth" /\ q.answer = "keep" /\ q.read = <<>> /\ q.panel = {}
  BY DEF IInv, Good, Placed, Auth
<1>1. /\ retired' = retired
      /\ \A h \in Pages \ {g} : page'[h] = page[h]
      /\ page'[g].stale => q.stale
  <2>1. PICK new : Step(g, new) /\ (new.stale => q.stale)
    <3>1. Done(q).stale = q.stale /\ \A p \in P!Live : Opens(q, p).stale = q.stale
      BY <1>q DEF Done, Opens, PageType
    <3>2. \A p : LET api == [q EXCEPT !.pc = "stats", !.project = p, !.key = None] IN
                 /\ \A new \in UntilNow(api) : new.stale = q.stale
                 /\ [api EXCEPT !.window = P!EventIds].stale = q.stale
      BY <1>q DEF UntilNow, PageType
    <3> QED BY <3>1, <3>2 DEF Auth
  <2> QED BY <2>1 DEF Step, IInv, tables
<1>2. CASE ~q.stale
  BY <1>1, <1>2, RefusedPages
<1>3. CASE q.stale
  <2>1. q.key \in retired
    BY <1>3, <1>q DEF Refused
  <2>2. \A p \in P!Live : projects[p].key \notin retired
    BY DEF PP!RInv, PP!Buried, PP!RetiredKeyStaysDead, PP!Live, P!Live
  <2>3. Step(g, Done(q))
    BY <2>1, <2>2 DEF Auth
  <2>4. /\ page'[g] = Done(q) /\ Done(q).pc = "reply" /\ Done(q).answer = "keep"
        /\ Done(q).read = <<>> /\ Done(q).panel = {}
    BY <2>3, <1>q DEF Step, IInv, Done, PageType
  <2>5. Shown(page'[g]) = {}
    BY <2>4, NothingRead
  <2> QED BY <1>1, <2>4, <2>5, RefusedPages
<1> QED BY <1>2, <1>3

\* A statement leaves a page as stale as it was.
LEMMA WorkKeepsRefused ==
  ASSUME IInv, Refused, NEW g \in Pages,
         \/ CheckAccount(g) \/ Find(g) \/ Query(g) \/ Samples(g)
         \/ ComputePanels(g) \/ ListProjects(g) \/ StatementFails(g)
  PROVE  Refused'
<1> DEFINE q == page[g]
<1>q. Good(q) /\ q \in PageType
  BY DEF IInv, Good
<1>d. Done(q).stale = q.stale /\ Done(q) \in PageType
  BY <1>q DEF Done, PageType
<1>n. ASSUME NEW new, Step(g, new), new.stale = q.stale, q.pc \notin {"auth", "reply"}
      PROVE  Refused'
  <2>1. /\ retired' = retired /\ page'[g] = new
        /\ \A h \in Pages \ {g} : page'[h] = page[h]
    BY <1>n DEF Step, IInv, tables
  <2>2. ~new.stale
    BY <1>n DEF Refused
  <2> QED BY <2>1, <2>2, RefusedPages
<1>1. CASE CheckAccount(g)
  BY <1>1, <1>n, <1>q, <1>d DEF CheckAccount, PageType
<1>2. CASE Find(g)
  <2>1. Opens(q, q.project).stale = q.stale
    BY <1>q DEF Opens, Done, PageType
  <2> QED BY <2>1, <1>2, <1>n, <1>d DEF Find
<1>3. CASE Query(g)
  <2> DEFINE more == [q EXCEPT !.read = Append(@, Counted(q))]
  <2>1. more.stale = q.stale /\ AfterStats(more).stale = q.stale
    BY <1>q DEF AfterStats, Done, PageType
  <2>2. Step(g, IF Len(more.read) = Queries THEN AfterStats(more) ELSE more) /\ q.pc = "stats"
    BY <1>3 DEF Query
  <2> HIDE DEF more
  <2> QED BY <2>1, <2>2, <1>n
<1>4. CASE Samples(g)
  <2>1. [Done(q) EXCEPT !.read = <<InWindow(q)>>].stale = q.stale
    BY <1>d DEF PageType
  <2> QED BY <2>1, <1>4, <1>n DEF Samples
<1>5. CASE ComputePanels(g)
  <2>1. \A rows : [AfterPanels(q) EXCEPT !.panel = rows].stale = q.stale
    BY <1>q, <1>d DEF AfterPanels, PageType
  <2>2. PICK rows : Step(g, [AfterPanels(q) EXCEPT !.panel = rows]) /\ q.pc = "panels"
    BY <1>5 DEF ComputePanels
  <2> QED BY <2>1, <2>2, <1>n
<1>6. CASE ListProjects(g)
  <2>1. /\ [Done(q) EXCEPT !.offer = TRUE].stale = q.stale
        /\ [Done(q) EXCEPT !.failed = TRUE].stale = q.stale
    BY <1>d DEF PageType
  <2> QED BY <2>1, <1>6, <1>n DEF ListProjects
<1>7. CASE StatementFails(g)
  <2> DEFINE new == [Done(q) EXCEPT !.read = <<>>, !.failed = TRUE]
  <2>1. q.pc \in {"auth", "find", "stats", "samples"} /\ q.answer = "keep" /\ q.panel = {}
    BY <1>7, <1>q DEF StatementFails, Good, Placed
  <2>2. new.pc = "reply" /\ new.answer = "keep" /\ new.read = <<>> /\ new.panel = {}
    BY <1>q, <2>1 DEF Done, PageType
  <2>3. Step(g, new)
    BY <1>7 DEF StatementFails
  <2> HIDE DEF new
  <2>4. /\ retired' = retired /\ page'[g] = new
        /\ \A h \in Pages \ {g} : page'[h] = page[h]
    BY <2>3 DEF Step, IInv, tables
  <2>5. Shown(new) = {}
    BY <2>2, NothingRead
  <2> QED BY <2>2, <2>4, <2>5, RefusedPages
<1> QED BY <1>1, <1>2, <1>3, <1>4, <1>5, <1>6, <1>7

LEMMA StepKeepsRefused ==
  ASSUME WritesOverlap = FALSE, RefusedInv, [Next]_vars PROVE RefusedInv'
<1>1. IInv' /\ IInv /\ Refused /\ PP!RInv
  BY StepKeepsIInv DEF RefusedInv
<1>2. PP!RInv'
  <2>1. [PP!Next]_PP!vars
    <3>1. CASE UNCHANGED tables
      BY <3>1 DEF tables, PP!vars
    <3>2. CASE P!Next
      BY <3>2, SameSteps
    <3>3. ASSUME NEW g \in Pages, NEW b \in Browsers, Arrive(g, b) PROVE UNCHANGED tables
      BY <3>3, <1>1, ArriveBegins DEF Begin
    <3>4. ASSUME NEW g \in Pages, Handle(g) PROVE UNCHANGED tables
      BY <3>4 DEF Handle, Auth, CheckAccount, Find, Query, Samples, ComputePanels, ListProjects,
                  StatementFails, Step, Respond, ResponseLost
    <3>5. ASSUME NEW b \in Browsers, AdminCookie(b) \/ AccountDeleted(b) \/ SessionExpires(b)
          PROVE  UNCHANGED tables
      BY <3>5 DEF AdminCookie, AccountDeleted, SessionExpires
    <3> QED BY <3>1, <3>2, <3>3, <3>4, <3>5 DEF Next, ProjectStep, vars
  <2> QED BY <2>1, <1>1, PP!StepKeepsRInv, Assumptions
<1>3. Refused'
  <2>1. ASSUME retired' = retired, page' = page \/ \E g \in Pages : page' = [page EXCEPT ![g] = Idle]
        PROVE  Refused'
    <3>1. \A g \in Pages : page'[g] = page[g] \/ page'[g] = Idle
      BY <1>1, <2>1 DEF IInv
    <3>2. ~Idle.stale
      BY DEF Idle
    <3> QED BY <1>1, <2>1, <3>1, <3>2, RefusedPages
  <2>2. CASE UNCHANGED vars
    BY <2>1, <2>2 DEF vars, tables
  <2>3. CASE ProjectStep
    <3>1. retired \subseteq retired'
      BY <1>1, <2>3, RowsStep DEF ProjectStep, IInv, RowsMove
    <3>2. ASSUME NEW g \in Pages, page'[g].stale
          PROVE  /\ page'[g].pc \in {"auth", "reply"}
                 /\ page'[g].pc = "auth" => page'[g].key \in retired
                 /\ page'[g].answer # "set"
                 /\ Shown(page'[g]) = {}
      <4>1. /\ page[g].stale /\ page'[g].pc = page[g].pc /\ page'[g].key = page[g].key
            /\ page'[g].answer = page[g].answer
            /\ page'[g].read = page[g].read /\ page'[g].panel = page[g].panel
        BY <1>1, <2>3, <3>2, ProjectStepPages
      <4>2. Shown(page'[g]) = Shown(page[g])
        BY <4>1, SameReadSameShown
      <4> QED BY <4>1, <4>2, <1>1 DEF Refused
    <3> QED BY <1>1, <3>1, <3>2, RefusedPages
  <2>4. ASSUME NEW b \in Browsers, AdminCookie(b) \/ AccountDeleted(b) \/ SessionExpires(b)
        PROVE  Refused'
    BY <2>1, <2>4 DEF AdminCookie, AccountDeleted, SessionExpires, tables
  <2>5. ASSUME NEW g \in Pages, NEW b \in Browsers, Arrive(g, b) PROVE Refused'
    BY <1>1, <2>5, ArriveBegins, BeginKeepsRefused
  <2>6. ASSUME NEW g \in Pages, Respond(g) \/ ResponseLost(g) PROVE Refused'
    BY <2>1, <2>6 DEF Respond, ResponseLost, tables
  <2>7. ASSUME NEW g \in Pages, Handle(g) PROVE Refused'
    BY <1>1, <2>6, <2>7, AuthKeepsRefused, WorkKeepsRefused DEF Handle
  <2> QED BY <2>2, <2>3, <2>4, <2>5, <2>7 DEF RefusedInv, Next
<1> QED BY <1>1, <1>2, <1>3 DEF RefusedInv

(* RotateAPIKey "immediately invalidates the old one": a request that brings a
   key replaced before it arrived opens nothing and shows nothing, as long as
   no edit or rotation of a project overlaps another of the same project. *)
THEOREM RetiredKeysOpenNothingWithoutOverlap ==
  ASSUME WritesOverlap = FALSE PROVE Spec => []RetiredKeyOpensNothing
<1>1. Init => RefusedInv
  <2> SUFFICES ASSUME Init PROVE RefusedInv
    OBVIOUS
  <2>1. PP!RInv
    <3>1. PP!Init
      BY DEF Init, P!Init, PP!Init, P!Idle, PP!Idle, P!EventIds, PP!EventIds
    <3> QED BY <3>1, PP!InitRInv, Assumptions
  <2>2. Refused
    BY DEF Init, Idle, Refused
  <2> QED BY <2>1, <2>2, InitIInv DEF RefusedInv
<1>2. RefusedInv /\ [Next]_vars => RefusedInv'
  BY StepKeepsRefused
<1>3. RefusedInv => RetiredKeyOpensNothing
  BY DEF RefusedInv, Refused, RetiredKeyOpensNothing
<1> QED BY <1>1, <1>2, <1>3, PTL DEF Spec
=============================================================================
