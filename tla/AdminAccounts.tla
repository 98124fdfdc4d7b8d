--------------------------- MODULE AdminAccounts ---------------------------
(* The accounts of the admin panel: the handlers of internal/adapters/admin,
   the account use cases of internal/usecase, the table admin_users, and the
   session cookies in the browsers.

   net/http runs every request in a goroutine of its own, and each repository
   call is one autocommitted statement, so requests interleave between any two
   statements.  A request slot is therefore a program counter: one action per
   statement, and one for the response, which the browser gets later or never.

   A statement may fail (a lost connection, or a client that goes away and
   cancels the request's context), also after the row was written.

   Left out: what answers before any statement and changes nothing (the login
   rate limiter, form errors), rendering, and the bytes of passwords: a login
   just has the right password or not. *)
EXTENDS Naturals, FiniteSets

CONSTANTS Requests,        \* requests the server works on at once (bound)
          Clients,         \* browsers, each with one cookie jar
          Ids,             \* account ids; bounds the accounts ever created
          Names,           \* usernames
          None,
          SetupsOverlap,   \* environment: may two setup submissions overlap?
          DeletesOverlap   \* environment: may two deletions overlap?

ASSUME AccountAssumption == /\ None \notin Ids \cup Names
                            /\ IsFiniteSet(Ids)
                            /\ SetupsOverlap \in BOOLEAN
                            /\ DeletesOverlap \in BOOLEAN

VARIABLES users,   \* table admin_users: the username of each id, None if no row
          cookie,  \* the account each browser's admin session names, or None
          req,     \* the request slots
          born     \* history: the ids that ever had a row

vars == <<users, cookie, req, born>>

Rows == {i \in Ids : users[i] # None}

\* The operations whose route is wrapped in requireAdminSession.
Gated == {"add", "delete", "list"}

Idle == [op |-> "none", pc |-> "idle", client |-> None, subject |-> None,
         arg |-> None, name |-> None, answer |-> "keep", revoked |-> FALSE]

Init == /\ users = [i \in Ids |-> None]
        /\ cookie = [c \in Clients |-> None]
        /\ req = [r \in Requests |-> Idle]
        /\ born = {}

-----------------------------------------------------------------------------
(* Arrival.  `subject` is the session the browser sent along; `arg` is the id
   in the path or the fresh uuid of the account to create; the history field
   `revoked` notes that the account of the session was already gone. *)

Begin(r, op, c, i, n, pc) ==
  /\ req[r].pc = "idle"
  /\ req' = [req EXCEPT ![r] =
       [op |-> op, pc |-> pc, client |-> c, subject |-> cookie[c], arg |-> i,
        name |-> n, answer |-> IF op = "logout" THEN "clear" ELSE "keep",
        revoked |-> op \in Gated /\ cookie[c] \in born \ Rows]]
  /\ UNCHANGED <<users, cookie, born>>

\* uuid.NewString: an id no account has, had or is about to get.
Fresh == {i \in Ids \ born : \A q \in Requests : req[q].arg # i}

\* POST /admin/setup.
ArriveSetup(r, c) ==
  /\ SetupsOverlap \/ \A q \in Requests : req[q].op # "setup"
  /\ \E i \in Fresh, n \in Names : Begin(r, "setup", c, i, n, "setupCount")

\* POST /admin/login.
ArriveLogin(r, c) == \E n \in Names : Begin(r, "login", c, None, n, "loginFind")

\* POST /admin/logout: no session needed, the cookie is cleared.
ArriveLogout(r, c) == Begin(r, "logout", c, None, None, "reply")

\* POST /admin/users/new.
ArriveAdd(r, c) == \E i \in Fresh, n \in Names : Begin(r, "add", c, i, n, "gateCount")

\* POST /admin/users/{id}/delete.
ArriveDelete(r, c) ==
  /\ DeletesOverlap \/ \A q \in Requests : req[q].op # "delete"
  /\ \E i \in born : Begin(r, "delete", c, i, None, "gateCount")

\* GET /admin/users, and every other page behind the session that only reads.
ArriveList(r, c) == Begin(r, "list", c, None, None, "gateCount")

-----------------------------------------------------------------------------
(* The statements. *)

\* The handler goes on to its next statement, or answers.
Goto(r, pc) == req' = [req EXCEPT ![r].pc = pc]
Answer(r, a) == req' = [req EXCEPT ![r] = [@ EXCEPT !.pc = "reply", !.answer = a]]

\* Where a gated operation goes once the session is accepted.
Body(op) == CASE op = "add" -> "addFind" [] op = "delete" -> "delFind" [] OTHER -> "list"

(* requireAdminSession, NeedsSetup: with no account at all, or no session, the
   request is redirected. *)
GateCount(r) ==
  /\ req[r].pc = "gateCount"
  /\ IF Rows = {} \/ req[r].subject = None THEN Answer(r, "keep") ELSE Goto(r, "gateFind")
  /\ UNCHANGED <<users, cookie, born>>

\* A mistake in the gate: the signed cookie is enough.
GateFindTrustingCookie(r) ==
  /\ req[r].pc = "gateFind"
  /\ Goto(r, Body(req[r].op))
  /\ UNCHANGED <<users, cookie, born>>

(* requireAdminSession, GetAdminUser: the session's account must still have a
   row; otherwise the answer clears the cookie. *)
GateFind(r) ==
  /\ req[r].pc = "gateFind"
  /\ IF req[r].subject \in Rows THEN Goto(r, Body(req[r].op)) ELSE Answer(r, "clear")
  /\ UNCHANGED <<users, cookie, born>>

\* Two rows never share a username: admin_users.username is UNIQUE.
Taken(n) == \E i \in Rows : users[i] = n

\* A mistake in setup: it is open for ever.
SetupCountUnchecked(r) ==
  /\ req[r].pc = "setupCount"
  /\ Goto(r, "setupInsert")
  /\ UNCHANGED <<users, cookie, born>>

\* RegisterAdminUser.Execute, Count: setup is closed once an account exists.
SetupCount(r) ==
  /\ req[r].pc = "setupCount"
  /\ IF Rows # {} THEN Answer(r, "keep") ELSE Goto(r, "setupInsert")
  /\ UNCHANGED <<users, cookie, born>>

\* A mistake in the table: usernames are not UNIQUE.
InsertIgnoringNames(r) ==
  /\ users' = [users EXCEPT ![req[r].arg] = req[r].name]
  /\ born' = born \cup {req[r].arg}

\* AdminUserRepository.Create; a taken username violates the constraint.
Insert(r) ==
  /\ ~Taken(req[r].name)
  /\ users' = [users EXCEPT ![req[r].arg] = req[r].name]
  /\ born' = born \cup {req[r].arg}

(* RegisterAdminUser.Execute, Create, and the session handleSetupSubmit opens
   for the new account -- unless the acknowledgement is lost. *)
SetupInsert(r) ==
  /\ req[r].pc = "setupInsert"
  /\ Insert(r)
  /\ \E a \in {"set", "keep"} : Answer(r, a)
  /\ UNCHANGED cookie

(* AuthenticateAdminUser.Execute and handleLoginSubmit: with the right
   password the answer opens a session for the account of that name. *)
LoginFind(r) ==
  /\ req[r].pc = "loginFind"
  /\ \/ \E i \in Rows : /\ users[i] = req[r].name
                        /\ req' = [req EXCEPT ![r] = [@ EXCEPT !.pc = "reply",
                                                      !.answer = "set", !.arg = i]]
     \/ Answer(r, "keep")
  /\ UNCHANGED <<users, cookie, born>>

(* AddAdminUser.Execute, the form's lengths and FindByUsername.  Only a row
   found stops it; any error counts as "not taken". *)
AddFind(r) ==
  /\ req[r].pc = "addFind"
  /\ \/ Answer(r, "keep")
     \/ ~Taken(req[r].name) /\ Goto(r, "addInsert")
  /\ UNCHANGED <<users, cookie, born>>

AddInsert(r) ==
  /\ req[r].pc = "addInsert"
  /\ Insert(r)
  /\ Answer(r, "keep")
  /\ UNCHANGED cookie

\* handleDeleteUserSubmit, GetAdminUser: 404 for an unknown account.
DelFind(r) ==
  /\ req[r].pc = "delFind"
  /\ IF req[r].arg \in Rows THEN Goto(r, "delCount") ELSE Answer(r, "keep")
  /\ UNCHANGED <<users, cookie, born>>

\* A mistake in the count: one account too few.
DelCountAny(r) ==
  /\ req[r].pc = "delCount"
  /\ IF Cardinality(Rows) > 0 THEN Goto(r, "delDelete") ELSE Answer(r, "keep")
  /\ UNCHANGED <<users, cookie, born>>

\* DeleteAdminUser.Execute, Count: ErrCannotDeleteLastAdmin at one account.
DelCount(r) ==
  /\ req[r].pc = "delCount"
  /\ IF Cardinality(Rows) > 1 THEN Goto(r, "delDelete") ELSE Answer(r, "keep")
  /\ UNCHANGED <<users, cookie, born>>

\* DeleteAdminUser.Execute, Delete (no row left to delete is an error page).
DelDelete(r) ==
  /\ req[r].pc = "delDelete"
  /\ users' = [users EXCEPT ![req[r].arg] = None]
  /\ Answer(r, "keep")
  /\ UNCHANGED <<cookie, born>>

List(r) ==
  /\ req[r].pc = "list"
  /\ Answer(r, "keep")
  /\ UNCHANGED <<users, cookie, born>>

\* A mistake in setup: a session although the insert failed.
StatementFailsSigningIn(r) ==
  /\ req[r].pc \notin {"idle", "reply"}
  /\ IF req[r].pc = "setupInsert" THEN Answer(r, "set") ELSE Answer(r, "keep")
  /\ UNCHANGED <<users, cookie, born>>

(* A statement fails and leaves the table alone: an error page, except that
   requireAdminSession takes any error of GetAdminUser for a deleted account,
   and AddAdminUser any error of FindByUsername for a free name. *)
StatementFails(r) ==
  /\ req[r].pc \notin {"idle", "reply"}
  /\ CASE req[r].pc = "gateFind" -> Answer(r, "clear")
       [] req[r].pc = "addFind"  -> Goto(r, "addInsert")
       [] OTHER                  -> Answer(r, "keep")
  /\ UNCHANGED <<users, cookie, born>>

-----------------------------------------------------------------------------
(* Responses and cookies. *)

(* The browser applies Set-Cookie: SetCookie stores the session of the
   account, ClearCookie empties the jar whatever it now holds. *)
Respond(r) ==
  /\ req[r].pc = "reply"
  /\ cookie' = [cookie EXCEPT ![req[r].client] =
       CASE req[r].answer = "set"   -> req[r].arg
         [] req[r].answer = "clear" -> None
         [] OTHER                   -> @]
  /\ req' = [req EXCEPT ![r] = Idle]
  /\ UNCHANGED <<users, born>>

\* The browser went away before the response reached it.
ResponseLost(r) ==
  /\ req[r].pc = "reply"
  /\ req' = [req EXCEPT ![r] = Idle]
  /\ UNCHANGED <<users, cookie, born>>

\* The seven days of a session are over; the browser drops it at MaxAge.
CookieExpires(c) ==
  /\ cookie[c] # None
  /\ cookie' = [cookie EXCEPT ![c] = None]
  /\ UNCHANGED <<users, req, born>>

Arrive(r, c) == \/ ArriveSetup(r, c) \/ ArriveLogin(r, c) \/ ArriveLogout(r, c)
                \/ ArriveAdd(r, c) \/ ArriveDelete(r, c) \/ ArriveList(r, c)

Handle(r) == \/ GateCount(r) \/ GateFind(r)
             \/ SetupCount(r) \/ SetupInsert(r)
             \/ LoginFind(r)
             \/ AddFind(r) \/ AddInsert(r)
             \/ DelFind(r) \/ DelCount(r) \/ DelDelete(r)
             \/ List(r)
             \/ StatementFails(r)

Next == \/ \E r \in Requests, c \in Clients : Arrive(r, c)
        \/ \E r \in Requests : Handle(r) \/ Respond(r) \/ ResponseLost(r)
        \/ \E c \in Clients : CookieExpires(c)

Spec == Init /\ [][Next]_vars

-----------------------------------------------------------------------------
(* Properties. *)

PC == {"idle", "gateCount", "gateFind", "setupCount", "setupInsert", "loginFind",
       "addFind", "addInsert", "delFind", "delCount", "delDelete", "list", "reply"}

RequestType == [op : Gated \cup {"none", "setup", "login", "logout"}, pc : PC,
                client : Clients \cup {None}, subject : Ids \cup {None},
                arg : Ids \cup {None}, name : Names \cup {None},
                answer : {"keep", "clear", "set"}, revoked : BOOLEAN]

(* Every row, cookie, request and answer is well formed; a row and a session
   are only ever those of an account that was created. *)
TypeOK == /\ users \in [Ids -> Names \cup {None}]
          /\ cookie \in [Clients -> born \cup {None}]
          /\ req \in [Requests -> RequestType]
          /\ born \subseteq Ids
          /\ Rows \subseteq born

(* No two accounts share a username, although AddAdminUser's check and its
   insert are two statements: a login names exactly one account. *)
UsernamesUnique ==
  \A i, j \in Rows : users[i] = users[j] => i = j

\* The handler of r has passed the session check.
Inside(r) == req[r].pc \in {"addFind", "addInsert", "delFind", "delCount", "delDelete", "list"}

(* "revoke access immediately when an admin is removed"
   (requireAdminSession): a request sent with the session of an account that
   was already deleted never gets past the gate, whatever runs in between. *)
RevokedStaysOut == \A r \in Requests : req[r].revoked => ~Inside(r)

(* "there must always be at least one admin account able to log in"
   (delete_admin_user.go): once set up, the panel never loses its last one. *)
LastAdminStays == born # {} => Rows # {}

(* "only a one-time setup" (register_admin_user.go): an account is created by
   the setup form only while none has ever existed. *)
SetupOnce ==
  [][\A r \in Requests : req[r].op = "setup" /\ req[r].arg \in born' \ born => born = {}]_vars

Directory == INSTANCE AdminDirectory WITH accounts <- {users[i] : i \in Rows}

(* The table behaves as the atomic directory: every insert is a legal setup or
   addition, and no delete removes the last account. *)
ImplementsDirectory == Directory!Spec
=============================================================================
