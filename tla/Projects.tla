------------------------------ MODULE Projects ------------------------------
(* Projects and what is stored under them: the project handlers of
   internal/adapters/admin, the ingest handlers of
   internal/adapters/httpapi, their use cases, and the tables projects, events
   and visitors.

   As in AdminAccounts, every request is a program counter with one action per
   database statement, and any statement may fail.  The session check in front
   of the admin routes is AdminAccounts'; here a request starts behind it.

   An api key stands for itself and for its SHA-256 hash: only equality of
   hashes is ever asked (idx api_key_hash).  What an event or a visitor
   contains is left out; what matters here is which project it belongs to. *)
EXTENDS Naturals, FiniteSets

CONSTANTS Requests,       \* requests the server works on at once (bound)
          Ids,            \* project ids; bounds the projects ever created
          Names,
          Keys,           \* api keys; bounds the keys ever generated
          Visitors,
          MaxEvents,      \* bound on the events ever stored
          None,
          WritesOverlap   \* environment: may edits and rotations of one project overlap?

ASSUME ProjectAssumption == /\ None \notin Ids \cup Names \cup Keys
                            /\ None \notin [name : Names, key : Keys]
                            /\ MaxEvents \in Nat
                            /\ WritesOverlap \in BOOLEAN

VARIABLES projects,  \* table projects: [name, key], or None
          events,    \* table events: the project of each serial id, or None
          visitors,  \* table visitors: its primary keys <<project, visitor>>
          serial,    \* next value of events.id (BIGSERIAL, never reused)
          req,       \* the request slots
          issued,    \* history: the project a key was first stored for
          retired,   \* history: the keys a rotation replaced
          accepted   \* history: the project of each event answered with 202

vars == <<projects, events, visitors, serial, req, issued, retired, accepted>>

EventIds == 1..MaxEvents

Live == {p \in Ids : projects[p] # None}
Born == {p \in Ids : \E k \in Keys : issued[k] = p}

Idle == [op |-> "none", pc |-> "idle", project |-> None, name |-> None,
         key |-> None, row |-> None, visitor |-> None]

Init == /\ projects = [p \in Ids |-> None]
        /\ events = [e \in EventIds |-> None]
        /\ visitors = {}
        /\ serial = 1
        /\ req = [r \in Requests |-> Idle]
        /\ issued = [k \in Keys |-> None]
        /\ retired = {}
        /\ accepted = [e \in EventIds |-> None]

-----------------------------------------------------------------------------
(* Arrival. *)

Begin(r, new) == /\ req[r].pc = "idle"
                 /\ req' = [req EXCEPT ![r] = new]
                 /\ UNCHANGED <<projects, events, visitors, serial, issued, retired, accepted>>

FreshIds == {p \in Ids \ Born : \A q \in Requests : req[q].project # p}

\* Hasher.Generate: 32 random bytes, a key nobody has, had or is about to get.
Generate == {k \in Keys : issued[k] = None /\ \A q \in Requests : req[q].key # k}

\* Edits and rotations of one project read its row and write it back.
Writing(p) == \E q \in Requests : req[q].op \in {"edit", "rotate"} /\ req[q].project = p

\* POST /admin/projects/new.
ArriveCreate(r) ==
  \E p \in FreshIds, n \in Names, k \in Generate :
    Begin(r, [Idle EXCEPT !.op = "create", !.pc = "create", !.project = p, !.name = n, !.key = k])

\* POST /admin/projects/{id}/edit.
ArriveEdit(r) ==
  \E p \in Born, n \in Names :
    /\ WritesOverlap \/ ~Writing(p)
    /\ Begin(r, [Idle EXCEPT !.op = "edit", !.pc = "get", !.project = p, !.name = n])

\* POST /admin/projects/{id}/rotate-key.
ArriveRotate(r) ==
  \E p \in Born, k \in Generate :
    /\ WritesOverlap \/ ~Writing(p)
    /\ Begin(r, [Idle EXCEPT !.op = "rotate", !.pc = "get", !.project = p, !.key = k])

\* POST /admin/projects/{id}/delete.
ArriveDelete(r) ==
  \E p \in Born : Begin(r, [Idle EXCEPT !.op = "delete", !.pc = "get", !.project = p])

\* POST /v1/track and POST /v1/identify name the project by its public id.
ArriveTrack(r) ==
  \E p \in Born : Begin(r, [Idle EXCEPT !.op = "track", !.pc = "save", !.project = p])

ArriveIdentify(r) ==
  \E p \in Born, v \in Visitors :
    Begin(r, [Idle EXCEPT !.op = "identify", !.pc = "upsert", !.project = p, !.visitor = v])

-----------------------------------------------------------------------------
(* The statements. *)

Goto(r, pc) == req' = [req EXCEPT ![r].pc = pc]
End(r) == req' = [req EXCEPT ![r] = Idle]

\* History: key k comes into force for project p, if it never was before.
Issue(k, p) == issued' = [issued EXCEPT ![k] = IF @ = None THEN p ELSE @]

\* ProjectRepository.Create, for CreateProject.Execute.
CreateProject(r) ==
  LET q == req[r] IN
  /\ q.pc = "create"
  /\ \A p \in Live : projects[p].key # q.key
  /\ projects' = [projects EXCEPT ![q.project] = [name |-> q.name, key |-> q.key]]
  /\ Issue(q.key, q.project)
  /\ End(r)
  /\ UNCHANGED <<events, visitors, serial, retired, accepted>>

\* GetProject in the edit, rotate and delete handlers: 404 for an unknown id.
GetProject(r) ==
  /\ req[r].pc = "get"
  /\ IF req[r].project \in Live
     THEN Goto(r, IF req[r].op = "delete" THEN "delete" ELSE "find")
     ELSE End(r)
  /\ UNCHANGED <<projects, events, visitors, serial, issued, retired, accepted>>

\* A mistake in the query: the id is not looked at.
FindAnyRow(r) ==
  LET q == req[r] IN
  /\ q.pc = "find"
  /\ \E p \in Live :
       req' = [req EXCEPT ![r] = [q EXCEPT !.pc = "write", !.row =
         IF q.op = "edit" THEN [projects[p] EXCEPT !.name = q.name]
                          ELSE [projects[p] EXCEPT !.key = q.key]]]
  /\ UNCHANGED <<projects, events, visitors, serial, issued, retired, accepted>>

\* UpdateProject.Execute and RotateAPIKey.Execute: the whole row is copied, and
\* the field to change is set in the copy.
Edited(q) == [projects[q.project] EXCEPT !.name = q.name]
Rotated(q) == [projects[q.project] EXCEPT !.key = q.key]

\* ProjectRepository.FindByID, for either of them; no row, no change.
FindByID(r) ==
  LET q == req[r] IN
  /\ q.pc = "find"
  /\ IF q.project \in Live
     THEN req' = [req EXCEPT ![r] = [q EXCEPT !.pc = "write",
                                              !.row = IF q.op = "edit" THEN Edited(q) ELSE Rotated(q)]]
     ELSE End(r)
  /\ UNCHANGED <<projects, events, visitors, serial, issued, retired, accepted>>

\* A mistake in Update: an upsert.
UpdateOrInsert(r) ==
  LET q == req[r] IN
  /\ q.pc = "write"
  /\ \A p \in Live \ {q.project} : projects[p].key # q.row.key
  /\ projects' = [projects EXCEPT ![q.project] = q.row]
  /\ Issue(q.row.key, q.project)
  /\ retired' = IF q.op = "rotate" /\ q.project \in Live
                THEN retired \cup {projects[q.project].key} ELSE retired
  /\ End(r)
  /\ UNCHANGED <<events, visitors, serial, accepted>>

\* A mistake in Update: the key is not written.
UpdateNameOnly(r) ==
  LET q == req[r] IN
  /\ q.pc = "write"
  /\ IF q.project \in Live
     THEN /\ projects' = [projects EXCEPT ![q.project].name = q.row.name]
          /\ retired' = IF q.op = "rotate" THEN retired \cup {projects[q.project].key} ELSE retired
     ELSE UNCHANGED <<projects, retired>>
  /\ End(r)
  /\ UNCHANGED <<events, visitors, serial, issued, accepted>>

(* ProjectRepository.Update: name, domain and key of the copy overwrite the
   row, whatever it holds by now; no row, no effect (ErrProjectNotFound). *)
Update(r) ==
  LET q == req[r] IN
  /\ q.pc = "write"
  /\ \A p \in Live \ {q.project} : projects[p].key # q.row.key
  /\ IF q.project \in Live
     THEN /\ projects' = [projects EXCEPT ![q.project] = q.row]
          /\ Issue(q.row.key, q.project)
          /\ retired' = IF q.op = "rotate" THEN retired \cup {projects[q.project].key} ELSE retired
     ELSE UNCHANGED <<projects, issued, retired>>
  /\ End(r)
  /\ UNCHANGED <<events, visitors, serial, accepted>>

\* A mistake in the schema: no ON DELETE CASCADE.
DeleteRowOnly(r) ==
  /\ req[r].pc = "delete"
  /\ projects' = [projects EXCEPT ![req[r].project] = None]
  /\ End(r)
  /\ UNCHANGED <<events, visitors, serial, issued, retired, accepted>>

\* A mistake in the deletion: events of all projects.
DeleteAllEvents(r) ==
  LET p == req[r].project IN
  /\ req[r].pc = "delete"
  /\ projects' = [projects EXCEPT ![p] = None]
  /\ events' = [e \in EventIds |-> None]
  /\ visitors' = {v \in visitors : v[1] # p}
  /\ End(r)
  /\ UNCHANGED <<serial, issued, retired, accepted>>

\* ProjectRepository.Delete, with the foreign keys' ON DELETE CASCADE.
DeleteProject(r) ==
  LET p == req[r].project IN
  /\ req[r].pc = "delete"
  /\ projects' = [projects EXCEPT ![p] = None]
  /\ events' = [e \in EventIds |-> IF events[e] = p THEN None ELSE events[e]]
  /\ visitors' = {v \in visitors : v[1] # p}
  /\ End(r)
  /\ UNCHANGED <<serial, issued, retired, accepted>>

(* EventRepository.Save for HandleTrack: the foreign key needs the project's
   row.  The 202 may be lost after the insert. *)
Save(r) ==
  LET p == req[r].project IN
  /\ req[r].pc = "save"
  /\ serial <= MaxEvents
  /\ p \in Live
  /\ events' = [events EXCEPT ![serial] = p]
  /\ accepted' \in {accepted, [accepted EXCEPT ![serial] = p]}
  /\ serial' = serial + 1
  /\ End(r)
  /\ UNCHANGED <<projects, visitors, issued, retired>>

\* A mistake in the upsert: its arguments are swapped.
UpsertSwapped(r) ==
  LET q == req[r] IN
  /\ q.pc = "upsert"
  /\ q.project \in Live
  /\ visitors' = visitors \cup {<<q.visitor, q.project>>}
  /\ End(r)
  /\ UNCHANGED <<projects, events, serial, issued, retired, accepted>>

\* VisitorRepository.Upsert for HandleIdentify: one row per project and visitor.
Upsert(r) ==
  LET q == req[r] IN
  /\ q.pc = "upsert"
  /\ q.project \in Live
  /\ visitors' = visitors \cup {<<q.project, q.visitor>>}
  /\ End(r)
  /\ UNCHANGED <<projects, events, serial, issued, retired, accepted>>

(* A statement fails -- the connection, the request's context, or a
   constraint -- and the handler answers with an error page or a 400. *)
StatementFails(r) ==
  /\ req[r].pc # "idle"
  /\ End(r)
  /\ UNCHANGED <<projects, events, visitors, serial, issued, retired, accepted>>

Arrive(r) == \/ ArriveCreate(r) \/ ArriveEdit(r) \/ ArriveRotate(r) \/ ArriveDelete(r)
             \/ ArriveTrack(r) \/ ArriveIdentify(r)

Handle(r) == \/ CreateProject(r) \/ GetProject(r) \/ FindByID(r) \/ Update(r)
             \/ DeleteProject(r) \/ Save(r) \/ Upsert(r) \/ StatementFails(r)

Next == \E r \in Requests : Arrive(r) \/ Handle(r)

Spec == Init /\ [][Next]_vars

-----------------------------------------------------------------------------
(* Properties. *)

RowType == [name : Names, key : Keys]

RequestType ==
  [op : {"none", "create", "edit", "rotate", "delete", "track", "identify"},
   pc : {"idle", "create", "get", "find", "write", "delete", "save", "upsert"},
   project : Ids \cup {None}, name : Names \cup {None}, key : Keys \cup {None},
   row : RowType \cup {None}, visitor : Visitors \cup {None}]

\* The tables and the request slots are well formed.
TypeOK == /\ projects \in [Ids -> RowType \cup {None}]
          /\ events \in [EventIds -> Ids \cup {None}]
          /\ visitors \subseteq Ids \X Visitors
          /\ serial \in 1..(MaxEvents + 1)
          /\ req \in [Requests -> RequestType]
          /\ issued \in [Keys -> Ids \cup {None}]
          /\ retired \subseteq Keys
          /\ accepted \in [EventIds -> Ids \cup {None}]

(* A key opens the project it was generated for and no other
   (AuthenticateProject.Execute looks a project up by its key alone), although
   Update writes a key back that was read some statements earlier. *)
KeyOpensItsProject == \A p \in Live : issued[projects[p].key] = p

(* "Referential integrity ... comes for free" (HandleTrack): no event and no
   visitor row belongs to a project that is not there, however an insert and
   the deletion of its project are interleaved. *)
NoOrphans == /\ \A e \in EventIds : events[e] \in Live \cup {None}
             /\ \A v \in visitors : v[1] \in Live

(* "There's no undo" (DeleteProject): an edit or rotation that read the row
   before the deletion and writes it back after does not bring it back. *)
DeletedStaysDeleted == [][\A p \in Born : p \notin Live => p \notin Live']_vars

(* An event answered with 202 is there until its own project is deleted. *)
AcceptedEventsKept ==
  \A e \in EventIds : accepted[e] \in Live => events[e] = accepted[e]

(* "immediately invalidates the old one" (RotateAPIKey): a key that a rotation
   replaced never opens a project again. *)
RetiredKeyStaysDead == \A p \in Live : projects[p].key \notin retired

Directory == INSTANCE ProjectDirectory WITH
               rows <- projects,
               used <- Born \cup {k \in Keys : issued[k] # None}

(* The read-modify-write of edit and rotate behaves as the atomic renaming and
   rotation of the directory: neither undoes the other. *)
ImplementsDirectory == Directory!Spec
=============================================================================
