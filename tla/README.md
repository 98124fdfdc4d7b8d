# A TLA+ model of Traccia

Traccia is a self-hosted web-analytics server: one Go binary (`cmd/api`), one
Postgres database, a browser SDK, an admin panel, a dashboard, and plugins in
JavaScript that see every event before it is stored.  This directory holds TLA+
modules of the parts of it where the order of events matters, the
configurations with which TLC checks them on small instances, and proofs,
checked by TLAPS, of what holds on every instance.

## 1. The system

Every HTTP request runs in a goroutine of its own.  The server keeps three pieces
of shared memory -- two rate limiters' maps, and the plugins' JavaScript
runtimes -- and everything else in Postgres, which it uses through single,
autocommitted statements: there is no transaction anywhere.  A use case of two
statements can therefore be interleaved with any other between the two.

| part | state it keeps | operations | talks to |
|---|---|---|---|
| rate limiter (`adapters/ratelimit`) | map from client address to token bucket and time of last use, under one mutex | `Allow`; `cleanupLoop`, a goroutine on a ticker | called by the ingest routes and by both login forms |
| admin accounts (`adapters/admin`, `usecase/*admin_user*`, `adapters/session`) | table `admin_users`; a signed cookie in each browser, nothing on the server | setup, login, logout, list, add, delete; `requireAdminSession` in front of every admin route | table, browsers |
| projects (`adapters/admin`, `usecase/*project*`) | table `projects` with the hash of the api key | create, edit, rotate key, delete (cascades to events and visitors), list | table; the dashboard and the stats route look projects up by key |
| ingest (`adapters/httpapi`, `usecase/track_event`, `identify_visitor`) | tables `events`, `visitors` | `POST /track`: validate, enrich, plugins, insert; `POST /identify`: upsert | rate limiter, plugin host, tables |
| plugin host (`adapters/plugins`) | per plugin a goja runtime, its mutex, its interrupt flag; table `plugin_kv` | `Load` at start-up; `RunOnEvent` -> `callOnEvent` per event; `kv.get`, `kv.set`, `http.post` for scripts; `Panels` | ingest, table, timers |
| statistics (`adapters/postgres/event_repository`, `usecase/get_*`) | none | nine queries per page, event samples, metadata breakdown; `GET /api/v1/stats` behind an api key | tables |
| dashboard (`adapters/dashboard`) | a signed cookie per browser, naming a project | login by api key, overview and its HTMX fragment, drill-down, project switcher; the admin panel's "view" | statistics, projects, admin session |
| SDK (`sdk/js`) | visitor cookie, last path, error count | pageview, custom event, error, identify; fire and forget | ingest |
| device, geo, hashing adapters | none (maxmind: a read-only file) | pure functions | ingest, projects, accounts |
| wiring, configuration, migrations | none | start-up, once | all |

What is hard about each, and what makes it correct:

* **Rate limiter.** Entries are created on first use and evicted when idle, by a
  goroutine that runs between any two calls.  Correct means: nobody can tell --
  every answer is the one a bucket would give that is never evicted; an address
  gets at most a burst plus the refill in any window; and the map forgets.
* **Accounts.** Each operation is a check and a write in separate statements; a
  session outlives its account for up to seven days; any statement may fail, any
  answer may be lost or overtaken by another.  Correct means: no two accounts of
  one name; a deleted account's session opens nothing; setup works once; the last
  account stays.
* **Projects and their data.** Edit and rotation read a whole row and write it
  back; deletion cascades while events are being inserted.  Correct means: a key
  opens the project it was made for; a rotated key is dead for good; a deleted
  project stays deleted and nothing of it remains; an accepted event stays.
* **Plugin host.** Concurrent events queue for each plugin in turn; a timer
  goroutine may act after the call it was meant for; scripts may hang, throw,
  return nonsense, edit the event half way, or block in the database.  Correct
  means: only an explicit null drops an event; a failing plugin leaves it as it
  was; a script's read-modify-write of its store is atomic; every event is
  answered.
* **Dashboard and statistics.** A session is a project's id, signed, and never
  looked at again; a page is a dozen statements with no transaction, while keys
  rotate and projects go; the panels are one slice shared by all requests.  Correct
  means: every number on a page is of the session's project; nothing of a deleted
  project is shown; what one statement of a page counted and a later one does not, a
  name given meanwhile has excluded; a retired key and a deleted admin open nothing; an
  admin gets the switcher.
* **The numbers themselves.**  Nine queries repeat the same range and filters in text; a
  panel groups by a key that scripts and plugins fill with anything; the drill-down asks
  again, later and differently.  Correct means: the breakdowns add up to the total, a
  range cut in two loses nothing, a panel counts every value of its key, a name listed
  on a page leads, whenever it is opened, to what is left of the events the page counted.
* **Ingest and SDK.** Tabs share a cookie that they read and write in separate steps;
  calls are sent and forgotten, may be lost, refused or overtaken, and outlive their
  tab.  Correct means: a load reports each page once as long as it is shown; a name or
  trait is never taken back by another identify; a browser is one visitor until it loses
  its cookie; one whose owner gave it a name is left out where named visitors are
  excluded.

## 2. The modules

| module | what it is | theorems |
|---|---|---|
| `TokenBucket` | abstract: a bucket per address, never evicted | |
| `RateLimiter` | `ratelimit.go` with time, sweep and lazily created entries; refines `TokenBucket` | `RateLimiterProofs` |
| `AdminDirectory` | abstract: the set of usernames, changed one atomic operation at a time | |
| `AdminAccounts` | the account handlers, use cases, table and cookies, one action per statement; refines `AdminDirectory` when neither setups nor deletions overlap | `AdminAccountsProofs` |
| `ProjectDirectory` | abstract: project rows, changed one atomic operation at a time | |
| `Projects` | project handlers and the inserts of track and identify over the tables `projects`, `events`, `visitors`, one action per statement; refines `ProjectDirectory` when edits and rotations of one project do not overlap | `ProjectsProofs` |
| `PluginHost` | the `onEvent` chain: mutexes, timers, interrupt flags, event conversion, kv store | `PluginHostProofs` |
| `Dashboard` | the dashboard's handlers, the admin panel's way into it, `GET /api/v1/stats`, the statements of their pages and the browsers' two cookies; composes `Projects` (`P == INSTANCE Projects`), which writes between any two statements of a page | `DashboardProofs` |
| `UserAgent` | the user agent parser: ordered rules over the needles found in a header | |
| `Statistics` | what each query computes, as operators on the rows of one project: range and filters, breakdowns, drill-down, plugin panels | `StatisticsProofs` |
| `Tracking` | the browser SDK in the tabs of one browser, the network, and the track and identify routes with the visitor upsert; composes `UserAgent` and `Statistics`, which read the tables it fills | `TrackingProofs` |
| `MC...` | the same modules with TLC's definitions: symmetry sets, a script's deeds | |

Correspondence with the code:

* **One action per statement.**  In `AdminAccounts` and `Projects`, `req` holds for
  each request in progress where its handler is (`pc`) and the values it carries
  from one statement to the next -- Go's local variables.  `Arrive...` is the
  request reaching its handler; each later action is one repository call with the
  branch the handler takes on its result; `StatementFails` is a database error or
  a cancelled request context at any of them, with what the handler does then.
  `Respond` and `ResponseLost` in `AdminAccounts` are the browser getting the
  answer's cookie, or not; answers overtake each other freely.
* **Identity.**  Account ids, project ids and keys are random 128- or 256-bit values;
  fresh ones are modelled as different from all others.  A key and its SHA-256
  hash are one value: the code only ever compares hashes.
* **Composition.**  A step of `Dashboard` is a step of `Projects` (`ProjectStep`, which also
  lets an event that is stored meanwhile fall into a page's window, and an identify give a
  visitor a name) or one statement of a dashboard request, which leaves the tables alone.
  `Projects` knows neither the visitor of an event nor names, so `Dashboard` adds them
  (`by`, `named`): with `exclude_named`, what a statement counts depends on the names at its
  moment (`Counted`, a set of events).  A cookie goes along only where its path lets it
  (`AdminAreas`).  `SendsAdmin` is what `SubjectFromRequest` checks, a value rightly signed
  and not expired: name and path are not signed, and both session managers have one secret
  (`main.go:90-91`), so the client may keep any such value there (`AdminCookie`), and nothing
  is claimed about how it came by it.  Each browser's admin has one account, which another admin may
  delete (`AccountDeleted`); it never comes back, as `AdminAccounts` shows.
* **Statistics.**  The queries are pure, so `Statistics` has no state: `Tracking` hands it its
  `log` as the table of events (`Table`), with the columns `UserAgent` derives, and states
  about every table it can produce what the numbers of a page must have in common.  The place
  of an event in `log` is its time stamp.
* **Browser.**  A step of a tab in `Tracking` is a JavaScript task, up to where it touches what
  other tabs share: the cookie.  A call is `flying` until it is lost or handled; a handler has
  one statement, so it is one step, and `log` is the order of the statements.
* **Locks.**  What runs under `Limiter.mu` is one action.  A plugin's mutex is
  explicit (`holder`), because a call holds it over database statements.
* **Time.**  `RateLimiter` counts in ticks of refill; the clock stops short of a due
  sweep, so the cleanup goroutine is taken to run within a tick of its ticker.
  `PluginHost` has no clock: a timer may fire at any moment of its call.
* **History variables** (`born`, `issued`, `retired`, `accepted`, `grants`, `era`, `raced`, the
  `revoked`, `said`, `gone`, `stale`, `holds` and `orphan` fields) record what the properties need
  to look back at; no guard of the code's own depends on them, only the freshness of new values
  does.
* Definitions placed just before an action, that differ from it in one detail
  (`DelCountAny` before `DelCount`, and so on), are plausible mistakes in that action.
  Nothing uses them; replacing the action by one of them makes a property fail, which
  shows what that property guards against.

## 3. The runs

| run | question | instance | states |
|---|---|---|---|
| `rate_limiter` | does eviction show? | 2 addresses, burst 2, 2 ticks a token, idle limit 4, sweep every 3, 8 ticks | 1.6 M |
| `accounts` | do accounts behave as a directory when neither setups nor deletions overlap? | 2 requests, 2 browsers, 3 accounts, 2 names | 221 k |
| `last_admin_lost` | ... and when deletions overlap? (no) | as above, 1 browser | |
| `setup_twice` | ... and when setups overlap? (no) | as above, 1 browser | |
| `projects` | are keys, deletion and foreign keys safe, and edit and rotation atomic, when writes of one project do not overlap? | 2 requests, 2 projects, 2 names, 3 keys, 1 visitor, 2 events | 89 k |
| `rotation_undone` | ... does a retired key stay dead when they do? (no) | the same, no events | |
| `plugin_chain` | do drops, edits, kv updates and interrupts stay with their call, and is every event answered? | 2 events; a panel-only plugin, one with kv, one editing | 164 k |
| `late_interrupt` | is a call interrupted only by its own timer? (no) | 2 events, 1 plugin | |
| `metadata_aliased` | does an error leave the event unchanged? (no) | 1 event, 1 plugin | |
| `dashboard` | do pages stay with their project, do their numbers miss nothing they should count, and do retired keys and deleted admins open nothing? | 1 dashboard request beside 1 of `Projects`, 1 browser, 2 projects, 2 keys, 1 visitor, 2 events, pages of 2 statements and a panel | 1.56 M |
| `tracking` | do pages, names and traits survive tabs, loss and reordering, and do the numbers, panels and drill-downs of the resulting tables agree? | 2 tabs, 3 calls, 3 ids, 2 pages, 1 trait, 1 error, the cookie lost once; 3 user agents, 2 values of a metadata key, a JSON null or no key, lists limited to 1, days and default range of 2 instants | 754 k |
| `switcher_dead` | does an admin's page offer the switcher? (no) | the same, the admin cookie sent to `/admin` only | |

Why these bounds are enough to be interesting:

* *Two requests.*  Every hazard listed is between two requests: a check of one and a
  write of the other, a copy of one and an update of the other, a timer of one and
  the call of the next.  A slot is reused, so behaviours are sequences of any number
  of requests, at most two at a time.  The theorems need no such bound.
* *Three accounts, two names* leave one account to add after two, and a name to be
  taken twice.  *Two projects, three keys* let both be created and one rotated, or one
  rotated twice.  *Two events* let one project's event be deleted and another's stay.
* *Rate limiter.*  Four ticks fill a bucket, the idle limit is just as long (the
  tightest choice the assumption allows), and eight ticks reach two sweeps, at three and
  at six: the first finds every entry too young, the second evicts, with calls before
  and after both.
* *Plugins.*  One plugin without a hook (skipped by the loop), one whose script reads and
  writes its store, one whose script edits the event: the order of the last two
  matters, the second event meets each of them in every state the first leaves.
* *Tracking.*  Each load spends a call on its page, so three calls are two tabs and an
  identify of one of them, or one tab with two identify calls in either order, or a page, a
  move and a return.  Three ids let two first loads race and a third follow the cookie's
  loss.
* *Statistics.*  The tables are those `Tracking` reaches: up to three events of every type, with and
  without a name, from one visitor or several, named or not, before the page was read or after. A
  day of two instants puts the cut of a range within and between days; pages have any range, and the
  two instants of the default range, which is also the drill-down's, leave behind the first of three
  events that such a page counted.  The agents are the empty header, a desktop browser whose header
  names two browsers, and a bot.  The limit of one is reached and passed: the two custom events
  after a load's page view may have two values of the metadata key, of which a panel then has room
  for one, or one name, of which the drill-down shows one; the theorems are for any limit.  With a
  JSON null among the values, the tables have panels that fail.  Every content of the tables is
  reached with no call under way and all tabs closed, so the numbers are computed in those states
  only (`Quiet`).
* *Dashboard.*  One page and one writer: what a page can get wrong is between two of its
  own statements, and the one writer does many requests in the course of a page.  Two statements
  stand for the nine of `EventRepository.Stats`, which differ only in what they select;
  with two keys a project can be rotated and with two projects one deleted while the
  other is shown.  Its panels are read after a page of the other project as well as before.
  One visitor is in both projects, so that a name given in one of them must not count in the other.
  TLC identifies states that differ only in `accepted` or `visitors`: `accepted` is history of
  `Projects`, and of the visitors' rows only the names (`named`) are read by an action or a property
  of the run.  In `dashboard` the admin cookie is sent everywhere, as the handlers' tests do, so that
  the switch can be reached at all; `switcher_dead` has the paths of `main.go`.

Symmetry is used only where the constants are interchangeable: requests, browsers, tabs, pages, ids,
names, keys, addresses, metadata values; and not in `plugin_chain`, one of whose properties is a
liveness property.  The refinement properties checked under symmetry are safety properties, and both
sides treat the permuted constants alike.  `ORDER BY ... LIMIT` chooses among ties (`CHOOSE` in
`Statistics`); the properties hold of any choice, as their theorems show.

Deadlock is checked in every run.  In `PluginHost`, `AllAnswered` marks the one state
where it is right to stop; a request waiting for a mutex nobody will release would
be reported.

**Fairness.**  Only `EveryEventAnswered`, in `plugin_chain`, depends on it. `HostFairness`:
goroutines run, so a fired timer raises its flag, an interrupted call ends and an insert returns
(weak fairness); an armed timer fires; a goroutine waiting for a plugin's mutex gets it (strong
fairness on `CallOnEvent`: Go's mutex goes over to handing over in order of arrival once a waiter
has waited a millisecond).  No fairness is assumed of a script, which may hang for ever: that it is
interrupted is what the code must achieve.  `KvFairness`, that the statements of the kv store end,
is an assumption on the environment that nothing in the code provides: `kv.get` and `kv.set` have no
deadline and the interrupt does not reach into them, so while the database hangs, the plugin's mutex
is held and every event that reaches the plugin waits.  `EveryEventAnswered` says nothing about that
case.

## 4. Where the code does not do what it says

Each of these is a run that TLC ends with a counterexample; PROJECT.json quotes the
sentences.

1. `last_admin_lost`: two deletions that overlap each count two accounts and each
   delete one; nobody can log in, and setup is open again.
2. `setup_twice`: two setup forms submitted together each count no account, and each
   creates one.
3. `rotation_undone`: an edit that read the project before a rotation and writes after
   it puts the replaced key back and discards the new one.
4. `late_interrupt`: a timer that fires as its call returns interrupts the next event's
   call of that plugin.
5. `metadata_aliased`: metadata is handed to a script by reference, so what it wrote
   there before it threw or was interrupted is stored.
6. `switcher_dead`: the admin session's cookie has the path `/admin`, so a browser does not
   send it to `/dashboard` and the project switcher never appears; the tests that show it
   add the cookie by hand.

More limits are in the models without a run of their own:

* Two tabs that load for the first time at the same moment each keep an id of their own
  (`Tracking`, `raced`): `OwnerIsExcluded` is stated without that race and fails with it, and
  `BrowserIsOneVisitor` then allows one visitor per tab.
* `kv.get` tells a script nothing of a failed statement, so a counter restarts
  (`PluginHost`, `"missed"`).
* The switcher accepts any value that is signed and not expired, whether or not the admin's account
  still exists; `DeletedAdminOpensNothing` is about the admin panel's way in, which does ask.
  What such a value was issued for is not part of what is signed, so no property says that a
  session was opened with a right to it.
* With `exclude_named`, an identify between two statements of a page takes a visitor's events out of
  the later numbers; `NumbersLoseOnlyTheNamed` says: nothing else does.
* One event with a JSON null under a panel's key makes the panel's query fail
  (`event_repository.go:225` scans the NULL group into a string), `computePanelRows` ignores the
  failure, and the panel shows none of the other values.  `docs/plugins.md:90-92` says that the
  dashboard counts the occurrences per value and excludes events without the key, and of a null
  nothing: `PanelCountsEveryValue` claims that much of panels without one, and is false of the
  others (`PanelShowsAllOrNothing` says how).
* The drill-down asks for the seven days before the click, whatever range and filters the page
  has: a name listed on a page of 30 or 90 days, or opened later, may lead to fewer samples than
  it counted, or to none.  `DrilldownFollowsPage` says by how many.  Plugin panels take the
  page's range but not its filters.
* A plugin may take the name of an event after it was validated; the event then is in the totals
  and in no list of names (`NumbersAgree` says: nothing else is missing there).
* iPhone and iPad headers say "like Mac OS X", and `os` asks for "mac os" first: they are
  counted as macos.

## 5. The proofs

All theorems hold for every value of the constants that satisfies the named assumption of
its module: any number of requests, browsers, accounts, projects, keys, addresses, any
rate.  The assumptions say that `None` is none of the other values (`NoneIsEmpty`: nor what the
user agent parser answers, nor an event's name, since `None` is the empty column), that numbers are
numbers, that account ids and a browser's tabs are finite sets (they are counted), and, for the
limiter, `RateAssumption`: a full refill takes no longer than the idle limit -- one
minute and ten minutes in `ratelimit.go`.  Eviction is harmless *because* of it.

**`RateLimiterProofs`.**  `TypeCorrect` is inductive with one addition (clocks do not lie
ahead).  `Refinement`: an entry that a sweep evicts has been idle for longer than the
idle limit, hence for a full refill, hence is full, hence is indistinguishable from no
entry; so `Sweep` is a stutter of `TokenBucket`, `Tick` its refill and `Allow` its grant or
denial.  `RateIsBounded` strengthens the window bound by the tokens still in the bucket:
what was granted since any grant, plus what is left, is at most the bucket plus the
refill since.  `MapIsBounded` adds that the sweep is never further off than its period.

**`AdminAccountsProofs`.**  The inductive invariant says who may still bring an id to life:
a request that creates an account holds an id that never had a row and that no other
request holds (`CreatorInv`), and a program counter belongs to one handler
(`HandlerInv`).  So the id of a deleted account never has a row again and `GateFind`
rejects it (`RevokedStaysOutAlways`).  `UsernamesStayUnique` rests on the table's
constraint alone, which is the point: the check in `AddAdminUser` contributes nothing.
`LastAdminStaysWithoutOverlap` assumes `DeletesOverlap = FALSE` and adds that while one
deletion is between its count and its delete nobody else is, so two accounts are still
there.  `SetupOnceWithoutOverlap` and `AccountsRefineTheDirectory` assume that setups do not overlap
either.  Their invariant (`AloneInv`) adds that a setup between its count and its insert has
the server to itself -- no account was ever created, so nobody is past the gate -- and that
whoever is past the gate got there through an account.  An insert of the setup form is then the
directory's first, and a deletion its removal of one of at least two; every other statement and
every cookie is a stutter.

**`ProjectsProofs`.**  The inductive invariant says what a request carries: the copy an edit writes
back has a key issued to that very project; a key not stored yet is known to one request alone; a
project still to be created has an id never used and named by no one else (`RequestInv`); accepted
events belong to projects that were created (`Ledger`).  From it: `KeysOpenTheirProject`,
`NothingIsOrphaned`, `AcceptedStayStored`, `DeletionIsFinal`, with overlapping edits and rotations
allowed. Without overlaps (`WritesOverlap = FALSE`), `RInv` adds that the copy a writer holds agrees
with the stored row in the field its request does not change, so writing it back changes one field
only: a retired key stays retired (`RetiredKeysStayDeadWithoutOverlap`), and `Update` is the
directory's atomic renaming or rotation (`RefinementWithoutOverlap`; it asks that no value is both
an id and a key, because the mapping joins the two into the set of used values).

**`PluginHostProofs`.**  `ChainInv` says where an event is: every hooked plugin before its position
has answered, none from it on has; `holder` is exactly the set of events inside a call of the
plugin, so two events are never in the same one (`Exclusive`).  That no other event is in the call is
why a value read from the kv store is still the stored one when the script writes
(`ReadsStayCurrentAlways`); that answers are given in order is why a drop is explicit and a saved
event was seen by every hook; that the object a script edits has nothing but its own
edits beyond the event's is why a failed call leaves no scalar behind.  The timers appear in no
part of that invariant: whenever they fire, these properties hold.  `InterruptsArePaid` adds
`TimerInv`, which counts: interrupted calls of a plugin, and its flag if it is raised, are together no
more than its timers that ran out (`Paid`), and the timers of calls still ahead are not set
(`TimersAhead`), so none is armed twice.  It assumes that the events are finitely many, since it
counts them.

**`DashboardProofs`.**  Built on `ProjectsProofs` by instance (`PP`): a step of `Projects` in
`Dashboard` is one there (`SameSteps`), so its invariant holds of the tables, and `Dashboard` adds
what a page carries over (`Shows`): what it counted is in its window, was its project's, and still
is if the project is still there; later statements count what earlier ones did, except whom a name
excludes; a page of a deleted project has read nothing.  Names are only ever added while their
project lives, and belong to visitors (`NamesInv`), so what a later statement leaves out stays left
out (`Accounted`, `LaterNumbersLoseOnlyTheNamed`).  `Barred`: a view without its account stays
before `Find`. `RetiredKeysOpenNothingWithoutOverlap` takes `RInv` in, which keeps retired keys
dead.

**`TrackingProofs`.**  `TabInv` and `ViewInv`: a tab that is ready shows the page of the last
automatic view of its load, and loads have numbers of their own, so a page view is sent only when
the page differs from the last one reported.  `RowInv`: name and traits of a row are those of the
last applied call that gave one -- `Upsert` moves both sides together.  `EraInv` counts: the ids
sent in the present era and the tabs that have minted one but not stored it yet are together no more
than the tabs; without a race there is one id.  `OwnerStaysExcluded` follows from the two: calls of
one era have one visitor, and the name an identify gave that visitor is still in its row.

**`StatisticsProofs`.**  What the queries return for *any* finite table of events, filters and
limit, not only for the tables `Tracking` makes.  Sums and the largest few of a set ask for an
induction, which is done first-order as a least counterexample: the subsets of a finite
set are well-founded under inclusion (`MinimalSubset`), so a smallest set of groups whose counts do
not add up to their rows would have a member whose removal gives a smaller one
(`TotalIsMembers`); and among the sets of at least `Limit` groups none of which is smaller than a
group left out, a minimal one has exactly `Limit` (`LargestFew`), so `ORDER BY ... LIMIT` has
something to choose (`TopIsLargest`, `RecentAreNewest`).  From these: `DaysAddUp`, `ColumnsAddUp`
(never more than the rows with the column, exactly those if all groups fit), `NamesAddUp`,
`RangesSplit`, `LeftOutAreSmaller` (a name not shown has no more events than any shown),
`DrilldownCovers` (the names then and the names now may differ, and the range may have moved on),
`PanelCountsValues` and, for tables with a JSON null, `PanelShowsAllOrNothing`.

`TrackingProofs` applies them to its table through the instance `SP`; `Db(rows, named)` in
`StatisticsProofs` and `Stat(rows, named)` in `Tracking` are the same operators (`SameQueries`).
What it has to add is what the rows are (`TableRows`): a stored event was valid (`LogInv`, an
invariant of its own: plugins run after the check, so a custom event without a name is one a plugin
emptied); the parser's answers are never empty (`ParseGivesAnswers`), and one browser has one
User-Agent, so a column has one group and fits any limit; names of one type are one group.  So
`NumbersAlwaysAgree`, `DrilldownsFollowTheirPage` and `PanelsCountEveryValue` hold for any number of
tabs, calls and plugins' edits, in whatever order the calls arrive.

**Only model-checked:** liveness (`EveryEventAnswered`), since the prover does no reasoning under
fairness, nor about ENABLED.  Every other property of a passing run is a theorem.

## 6. Plan

1. Done: rate limiter, accounts, projects, plugin host, dashboard with its statistics'
   statements and the API, tracking with the user agent and the queries; theorems for
   all of their safety properties, and for the queries on any table.
2. `Tracking` composed with `Projects`: calls of a tab for a project that is being deleted, whose rows
   go while the SDK keeps sending.  Both sides are covered on their own (`NoOrphans`,
   `GoneShowsNothing`).
3. `Dashboard` composed with `AdminAccounts` instead of one account per browser.

## 7. Not modelled

Parsing of forms, JSON and addresses; clocks that disagree with the order of the inserts (an event is
stamped before its insert, so two events may be stored in the opposite order; a visitor's `updated_at`
may go backwards when calls are overtaken, and nothing reads it); templates, assets, scripts; bcrypt,
HMAC and SHA-256 (a cookie is genuine, a key is its hash); the geo adapter and `anonymizeIP`,
pure functions of one request; top referrers, the same query as top paths on another column;
`Load`, which runs once before the server listens; `http.post`, whose result no one
reads; panics and the crash of the process, which loses no state but requests in progress
(each ends as `StatementFails` or `ResponseLost`).
