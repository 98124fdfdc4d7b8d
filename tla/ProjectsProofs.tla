--------------------------- MODULE ProjectsProofs ---------------------------
(* What holds of the projects and their data for any number of concurrent
   requests, projects, keys and visitors, overlapping edits and rotations
   included.

   The inductive invariant says what a request carries from one statement to
   the next: the copy an edit writes back has a key that was issued to that
   very project; a key not yet stored is known to one request alone; a project
   still to be created has an id that was never used and that no other request
   names. *)
EXTENDS Projects, TLAPS

-----------------------------------------------------------------------------
(* The inductive invariant. *)

\* What a request carries fits the handler and the place it is in.
Fits(q) ==
  /\ q.pc = "create" <=> q.op = "create"
  /\ q.op = "create" => q.project \in Ids \ Born /\ q.name \in Names /\ q.key \in Keys
  /\ q.op # "create" => q.project \in Born \cup {None}
  /\ q.pc \in {"get", "find", "write", "delete", "save", "upsert"} => q.project \in Ids
  /\ q.pc = "get" => q.op \in {"edit", "rotate", "delete"}
  /\ q.pc \in {"find", "write"} => q.op \in {"edit", "rotate"}
  /\ q.op = "edit" => q.name \in Names
  /\ q.op = "rotate" => q.key \in Keys
  /\ q.pc = "write" => /\ q.row \in RowType
                       /\ q.op = "edit" => issued[q.row.key] = q.project
                       /\ q.op = "rotate" => q.row.key = q.key
  /\ q.pc = "upsert" => q.visitor \in Visitors
  /\ q.key # None => issued[q.key] = None

\* Nobody shares a key still to be stored, or names a project still to be created.
Distinct(q, s) == /\ q.key # None => q.key # s.key
                  /\ q.op = "create" => q.project # s.project

RequestInv == /\ \A r \in Requests : Fits(req[r])
              /\ \A r, s \in Requests : r # s => Distinct(req[r], req[s])

\* Only events of projects that were created are accepted, each at its insert.
Ledger == \A e \in EventIds : /\ accepted[e] \in Born \cup {None}
                              /\ e >= serial => accepted[e] = None

IInv == /\ TypeOK
        /\ RequestInv
        /\ Ledger
        /\ KeyOpensItsProject
        /\ NoOrphans
        /\ AcceptedEventsKept

LEMMA IdleFits == Idle \in RequestType /\ Fits(Idle)
BY DEF Idle, RequestType, Fits

LEMMA InitIInv == Init => IInv
<1> SUFFICES ASSUME Init PROVE IInv
  OBVIOUS
<1>1. Live = {} /\ \A r \in Requests : req[r] = Idle
  BY DEF Init, Live
<1>2. TypeOK
  <2>1. serial \in 1..(MaxEvents + 1)
    BY ProjectAssumption DEF Init
  <2> QED BY <2>1, IdleFits DEF Init, TypeOK
<1>3. RequestInv
  BY <1>1, IdleFits DEF RequestInv, Distinct, Idle
<1>4. Ledger /\ KeyOpensItsProject /\ NoOrphans /\ AcceptedEventsKept
  BY <1>1 DEF Init, Ledger, KeyOpensItsProject, NoOrphans, AcceptedEventsKept
<1> QED BY <1>2, <1>3, <1>4 DEF IInv

\* A row that is there belongs to a project that was created.
LEMMA LiveWasBorn == ASSUME TypeOK, KeyOpensItsProject
                     PROVE  /\ Live \subseteq Born
                            /\ Born \subseteq Ids
                            /\ \A p \in Live : projects[p] \in RowType
BY DEF TypeOK, KeyOpensItsProject, Live, Born, RowType

-----------------------------------------------------------------------------
(* What a step does to the requests. *)

\* One request changes; nothing is issued.
LEMMA RequestStep ==
  ASSUME TypeOK, RequestInv, UNCHANGED issued,
         NEW r \in Requests, NEW new \in RequestType,
         req' = [req EXCEPT ![r] = new],
         Fits(new),
         \A q \in Requests \ {r} : Distinct(new, req[q]) /\ Distinct(req[q], new)
  PROVE  req' \in [Requests -> RequestType] /\ RequestInv'
<1>1. req \in [Requests -> RequestType] /\ Born' = Born
  BY DEF TypeOK, Born
<1>2. /\ req' \in [Requests -> RequestType]
      /\ req'[r] = new
      /\ \A q \in Requests \ {r} : req'[q] = req[q]
  BY <1>1
<1>3. ASSUME NEW q \in Requests PROVE Fits(req[q])'
  <2>1. Fits(req'[q])
    BY <1>2 DEF RequestInv
  <2> QED BY <2>1, <1>1 DEF Fits
<1>4. ASSUME NEW q \in Requests, NEW s \in Requests, q # s
      PROVE  Distinct(req[q], req[s])'
  <2>1. Distinct(req'[q], req'[s])
    BY <1>2, <1>4 DEF RequestInv
  <2> QED BY <2>1 DEF Distinct
<1> QED BY <1>2, <1>3, <1>4 DEF RequestInv

\* A request ends, and its key, or one issued before, is issued to its project.
LEMMA IssueStep ==
  ASSUME TypeOK, RequestInv,
         NEW r \in Requests, End(r), NEW k \in Keys, NEW p \in Ids,
         issued' = [issued EXCEPT ![k] = p],
         issued[k] = p \/ (issued[k] = None /\ req[r].key = k),
         p \in Born \/ (req[r].op = "create" /\ req[r].project = p)
  PROVE  req' \in [Requests -> RequestType] /\ RequestInv'
<1>1. req \in [Requests -> RequestType] /\ issued \in [Keys -> Ids \cup {None}]
  BY DEF TypeOK
<1>2. /\ req' \in [Requests -> RequestType]
      /\ req'[r] = Idle
      /\ \A q \in Requests \ {r} : req'[q] = req[q]
  BY <1>1, IdleFits DEF End
<1>3. Born \subseteq Born' /\ Born' \subseteq Born \cup {p}
  <2>1. \A j \in Keys : issued'[j] = IF j = k THEN p ELSE issued[j]
    BY <1>1
  <2>2. issued[k] \in {None, p}
    OBVIOUS
  <2> QED BY <2>1, <2>2, ProjectAssumption DEF Born
<1>4. ASSUME NEW q \in Requests \ {r} PROVE Fits(req[q])'
  <2> DEFINE old == req[q]
  <2>1. old \in RequestType /\ Fits(old) /\ Distinct(req[r], old) /\ Distinct(old, req[r])
    BY <1>1 DEF RequestInv
  <2>2. old.op = "create" => old.project \in Ids \ Born'
    BY <2>1, <1>3 DEF Fits, Distinct
  <2>3. old.key # None => issued'[old.key] = None
    BY <2>1, <1>1 DEF Fits, Distinct, RequestType
  <2>4. old.pc = "write" /\ old.op = "edit" => issued'[old.row.key] = old.project
    <3> SUFFICES ASSUME old.pc = "write", old.op = "edit" PROVE issued'[old.row.key] = old.project
      OBVIOUS
    <3>1. old.row \in RowType /\ issued[old.row.key] = old.project /\ old.project \in Ids
      BY <2>1 DEF Fits
    <3>2. old.row.key \in Keys
      BY <3>1 DEF RowType
    <3> QED BY <3>1, <3>2, <1>1, ProjectAssumption
  <2>5. Fits(old) /\ old.op # "create" => old.project \in Born' \cup {None}
    BY <1>3 DEF Fits
  <2>6. req'[q] = old
    BY <1>2
  <2> HIDE DEF old
  <2> QED BY <2>1, <2>2, <2>3, <2>4, <2>5, <2>6 DEF Fits
<1>5. Fits(req[r])'
  BY <1>2, IdleFits DEF Fits, Idle
<1>6. ASSUME NEW q \in Requests, NEW s \in Requests, q # s
      PROVE  Distinct(req[q], req[s])'
  <2>1. CASE q = r
    BY <2>1, <1>2 DEF Distinct, Idle
  <2>2. CASE s = r
    <3>1. Fits(req[q])
      BY DEF RequestInv
    <3> QED BY <3>1, <2>2, <1>6, <1>2, ProjectAssumption DEF Distinct, Idle, Fits
  <2>3. CASE q # r /\ s # r
    BY <2>3, <1>6, <1>2 DEF Distinct, RequestInv
  <2> QED BY <2>1, <2>2, <2>3
<1> QED BY <1>2, <1>4, <1>5, <1>6 DEF RequestInv

-----------------------------------------------------------------------------
(* The steps that change a request and nothing else. *)

LEMMA TablesUntouched ==
  ASSUME IInv, UNCHANGED <<projects, events, visitors, serial, issued, retired, accepted>>,
         req' \in [Requests -> RequestType], RequestInv'
  PROVE  IInv'
<1>1. Live' = Live /\ Born' = Born
  BY DEF Live, Born
<1>2. TypeOK'
  BY DEF IInv, TypeOK
<1>3. Ledger' /\ KeyOpensItsProject' /\ NoOrphans' /\ AcceptedEventsKept'
  BY <1>1 DEF IInv, Ledger, KeyOpensItsProject, NoOrphans, AcceptedEventsKept
<1> QED BY <1>2, <1>3 DEF IInv

\* A request whose key is fresh, if it has one, and whose project is fresh, if
\* it creates one, keeps apart from all others.
LEMMA FreshIsDistinct ==
  ASSUME RequestInv, NEW r \in Requests, NEW new \in RequestType,
         new.key = None \/ new.key \in Generate,
         IF new.op = "create" THEN new.project \in FreshIds
                              ELSE new.project \in Born \cup {None}
  PROVE  \A q \in Requests \ {r} : Distinct(new, req[q]) /\ Distinct(req[q], new)
<1> SUFFICES ASSUME NEW q \in Requests \ {r}
             PROVE  Distinct(new, req[q]) /\ Distinct(req[q], new)
  OBVIOUS
<1>1. Fits(req[q])
  BY DEF RequestInv
<1>2. Distinct(new, req[q])
  BY DEF Distinct, Generate, FreshIds
<1>3. req[q].key # None => req[q].key # new.key
  BY DEF Generate
<1>4. req[q].op = "create" => req[q].project # new.project
  BY <1>1, ProjectAssumption DEF FreshIds, Fits
<1> QED BY <1>2, <1>3, <1>4 DEF Distinct

LEMMA ArriveKeepsIInv == ASSUME IInv, NEW r \in Requests, Arrive(r) PROVE IInv'
<1>t. TypeOK /\ RequestInv /\ Born \subseteq Ids
  BY LiveWasBorn DEF IInv
<1>b. ASSUME NEW new \in RequestType, Begin(r, new), Fits(new),
             new.key = None \/ new.key \in Generate,
             IF new.op = "create" THEN new.project \in FreshIds
                                  ELSE new.project \in Born \cup {None}
      PROVE  IInv'
  <2>1. req' \in [Requests -> RequestType] /\ RequestInv'
    BY <1>b, <1>t, FreshIsDistinct, RequestStep DEF Begin
  <2> QED BY <2>1, <1>b, TablesUntouched DEF Begin
<1>1. CASE ArriveCreate(r)
  <2>1. PICK p \in FreshIds, n \in Names, k \in Generate :
          Begin(r, [Idle EXCEPT !.op = "create", !.pc = "create", !.project = p, !.name = n, !.key = k])
    BY <1>1 DEF ArriveCreate
  <2> DEFINE new == [Idle EXCEPT !.op = "create", !.pc = "create", !.project = p, !.name = n, !.key = k]
  <2>2. p \in Ids \ Born /\ k \in Keys /\ issued[k] = None
    BY DEF FreshIds, Generate
  <2>3. new \in RequestType /\ Fits(new)
    BY <2>2, <1>t DEF RequestType, Fits, Idle
  <2>4. new.op = "create" /\ new.key = k /\ new.project = p
    BY DEF Idle
  <2> QED BY <2>1, <2>3, <2>4, <1>b
<1>2. CASE ArriveEdit(r)
  <2>1. PICK p \in Born, n \in Names :
          Begin(r, [Idle EXCEPT !.op = "edit", !.pc = "get", !.project = p, !.name = n])
    BY <1>2 DEF ArriveEdit
  <2> DEFINE new == [Idle EXCEPT !.op = "edit", !.pc = "get", !.project = p, !.name = n]
  <2>3. new \in RequestType /\ Fits(new)
    BY <1>t DEF RequestType, Fits, Idle
  <2>4. new.op = "edit" /\ new.key = None /\ new.project = p
    BY DEF Idle
  <2> QED BY <2>1, <2>3, <2>4, <1>b
<1>3. CASE ArriveRotate(r)
  <2>1. PICK p \in Born, k \in Generate :
          Begin(r, [Idle EXCEPT !.op = "rotate", !.pc = "get", !.project = p, !.key = k])
    BY <1>3 DEF ArriveRotate
  <2> DEFINE new == [Idle EXCEPT !.op = "rotate", !.pc = "get", !.project = p, !.key = k]
  <2>2. k \in Keys /\ issued[k] = None
    BY DEF Generate
  <2>3. new \in RequestType /\ Fits(new)
    BY <2>2, <1>t DEF RequestType, Fits, Idle
  <2>4. new.op = "rotate" /\ new.key = k /\ new.project = p
    BY DEF Idle
  <2> QED BY <2>1, <2>3, <2>4, <1>b
<1>4. CASE ArriveDelete(r)
  <2>1. PICK p \in Born : Begin(r, [Idle EXCEPT !.op = "delete", !.pc = "get", !.project = p])
    BY <1>4 DEF ArriveDelete
  <2> DEFINE new == [Idle EXCEPT !.op = "delete", !.pc = "get", !.project = p]
  <2>3. new \in RequestType /\ Fits(new)
    BY <1>t DEF RequestType, Fits, Idle
  <2>4. new.op = "delete" /\ new.key = None /\ new.project = p
    BY DEF Idle
  <2> QED BY <2>1, <2>3, <2>4, <1>b
<1>5. CASE ArriveTrack(r)
  <2>1. PICK p \in Born : Begin(r, [Idle EXCEPT !.op = "track", !.pc = "save", !.project = p])
    BY <1>5 DEF ArriveTrack
  <2> DEFINE new == [Idle EXCEPT !.op = "track", !.pc = "save", !.project = p]
  <2>3. new \in RequestType /\ Fits(new)
    BY <1>t DEF RequestType, Fits, Idle
  <2>4. new.op = "track" /\ new.key = None /\ new.project = p
    BY DEF Idle
  <2> QED BY <2>1, <2>3, <2>4, <1>b
<1>6. CASE ArriveIdentify(r)
  <2>1. PICK p \in Born, v \in Visitors :
          Begin(r, [Idle EXCEPT !.op = "identify", !.pc = "upsert", !.project = p, !.visitor = v])
    BY <1>6 DEF ArriveIdentify
  <2> DEFINE new == [Idle EXCEPT !.op = "identify", !.pc = "upsert", !.project = p, !.visitor = v]
  <2>3. new \in RequestType /\ Fits(new)
    BY <1>t DEF RequestType, Fits, Idle
  <2>4. new.op = "identify" /\ new.key = None /\ new.project = p
    BY DEF Idle
  <2> QED BY <2>1, <2>3, <2>4, <1>b
<1> QED BY <1>1, <1>2, <1>3, <1>4, <1>5, <1>6 DEF Arrive

\* A request moves on, keeping its operation, project and key, or it ends.
LEMMA MoveKeepsIInv ==
  ASSUME IInv, NEW r \in Requests, NEW new \in RequestType,
         UNCHANGED <<projects, events, visitors, serial, issued, retired, accepted>>,
         req' = [req EXCEPT ![r] = new],
         Fits(new),
         \/ new = Idle
         \/ new.op = req[r].op /\ new.project = req[r].project /\ new.key = req[r].key
  PROVE  IInv'
<1>1. ASSUME NEW q \in Requests \ {r} PROVE Distinct(new, req[q]) /\ Distinct(req[q], new)
  <2>1. Fits(req[q]) /\ Distinct(req[r], req[q]) /\ Distinct(req[q], req[r])
    BY DEF IInv, RequestInv
  <2> QED BY <2>1, ProjectAssumption DEF Distinct, Idle, Fits
<1>2. req' \in [Requests -> RequestType] /\ RequestInv'
  BY <1>1, RequestStep DEF IInv
<1> QED BY <1>2, TablesUntouched

LEMMA EndKeepsIInv ==
  ASSUME IInv, NEW r \in Requests, End(r),
         UNCHANGED <<projects, events, visitors, serial, issued, retired, accepted>>
  PROVE  IInv'
BY IdleFits, MoveKeepsIInv DEF End

LEMMA GetProjectKeepsIInv == ASSUME IInv, NEW r \in Requests, GetProject(r) PROVE IInv'
<1>1. CASE req[r].project \notin Live
  BY <1>1, EndKeepsIInv DEF GetProject
<1>2. CASE req[r].project \in Live
  <2> DEFINE old == req[r]
             pc == IF old.op = "delete" THEN "delete" ELSE "find"
             new == [old EXCEPT !.pc = pc]
  <2>1. old \in RequestType /\ Fits(old) /\ old.pc = "get"
    BY DEF IInv, TypeOK, RequestInv, GetProject
  <2>2. req' = [req EXCEPT ![r] = new]
    BY <1>2 DEF GetProject, Goto, IInv, TypeOK
  <2> HIDE DEF old
  <2>3. /\ new \in RequestType /\ Fits(new)
        /\ new.op = old.op /\ new.project = old.project /\ new.key = old.key
    BY <2>1 DEF RequestType, Fits
  <2> HIDE DEF new
  <2> QED BY <2>2, <2>3, MoveKeepsIInv DEF old, GetProject
<1> QED BY <1>1, <1>2

LEMMA FindByIDKeepsIInv == ASSUME IInv, NEW r \in Requests, FindByID(r) PROVE IInv'
<1>1. CASE req[r].project \notin Live
  BY <1>1, EndKeepsIInv DEF FindByID
<1>2. CASE req[r].project \in Live
  <2> DEFINE old == req[r]
             now == projects[old.project]
             row == IF old.op = "edit" THEN [now EXCEPT !.name = old.name]
                                       ELSE [now EXCEPT !.key = old.key]
             new == [old EXCEPT !.pc = "write", !.row = row]
  <2>1. old \in RequestType /\ Fits(old) /\ old.pc = "find"
    BY DEF IInv, TypeOK, RequestInv, FindByID, Edited, Rotated
  <2>2. req' = [req EXCEPT ![r] = new]
    BY <1>2 DEF FindByID, Edited, Rotated
  <2>3. now \in RowType /\ issued[now.key] = old.project
    BY <1>2, LiveWasBorn DEF IInv, KeyOpensItsProject
  <2> HIDE DEF old, now
  <2>4. /\ row \in RowType
        /\ old.op = "edit" => issued[row.key] = old.project
        /\ old.op = "rotate" => row.key = old.key
    BY <2>1, <2>3 DEF RowType, Fits
  <2> HIDE DEF row
  <2>5. /\ new \in RequestType /\ Fits(new)
        /\ new.op = old.op /\ new.project = old.project /\ new.key = old.key
    BY <2>1, <2>4 DEF RequestType, Fits
  <2> HIDE DEF new
  <2> QED BY <2>2, <2>5, MoveKeepsIInv DEF old, FindByID, Edited, Rotated
<1> QED BY <1>1, <1>2

-----------------------------------------------------------------------------
(* The steps that write a table, one lemma each. *)

LEMMA CreateKeepsIInv == ASSUME IInv, NEW r \in Requests, CreateProject(r) PROVE IInv'
<1> DEFINE p == req[r].project
           k == req[r].key
           row == [name |-> req[r].name, key |-> k]
<1>1. /\ p \in Ids \ Born /\ k \in Keys /\ issued[k] = None /\ row \in RowType
      /\ req[r].op = "create" /\ req[r].key = k /\ req[r].project = p
  BY ProjectAssumption DEF IInv, RequestInv, Fits, CreateProject, RowType
<1>2. /\ projects' = [projects EXCEPT ![p] = row]
      /\ issued' = [issued EXCEPT ![k] = p]
      /\ End(r)
      /\ UNCHANGED <<events, visitors, serial, retired, accepted>>
  BY <1>1 DEF CreateProject, Issue
<1>3. row.key = k
  OBVIOUS
<1> HIDE DEF p, k, row
<1>4. req' \in [Requests -> RequestType] /\ RequestInv'
  BY <1>1, <1>2, IssueStep DEF IInv
<1>5. TypeOK'
  BY <1>1, <1>2, <1>4 DEF IInv, TypeOK
<1>6. Live \subseteq Born /\ Born \subseteq Ids
  BY LiveWasBorn DEF IInv
<1>7. Live \subseteq Live' /\ Live' \subseteq Live \cup {p} /\ Born \subseteq Born'
  BY <1>1, <1>2, <1>6, ProjectAssumption DEF IInv, TypeOK, Live, Born
<1>8. KeyOpensItsProject'
  <2> SUFFICES ASSUME NEW o \in Live' PROVE issued'[projects'[o].key] = o
    BY DEF KeyOpensItsProject
  <2>1. CASE o = p
    BY <2>1, <1>1, <1>2, <1>3 DEF IInv, TypeOK
  <2>2. CASE o # p
    <3>1. o \in Live /\ projects'[o] = projects[o] /\ projects[o].key \in Keys
      BY <2>2, <1>2, <1>7, LiveWasBorn DEF IInv, TypeOK, Live, RowType
    <3>2. issued[projects[o].key] = o /\ o \in Ids
      BY <3>1, <1>6 DEF IInv, KeyOpensItsProject
    <3> QED BY <3>1, <3>2, <1>1, <1>2, ProjectAssumption DEF IInv, TypeOK
  <2> QED BY <2>1, <2>2
<1>9. Ledger' /\ NoOrphans'
  BY <1>2, <1>7 DEF IInv, Ledger, NoOrphans
<1>10. AcceptedEventsKept'
  BY <1>1, <1>2, <1>7, ProjectAssumption DEF IInv, Ledger, AcceptedEventsKept
<1> QED BY <1>4, <1>5, <1>8, <1>9, <1>10 DEF IInv

LEMMA UpdateKeepsIInv == ASSUME IInv, NEW r \in Requests, Update(r) PROVE IInv'
<1>1. CASE req[r].project \notin Live
  BY <1>1, EndKeepsIInv DEF Update
<1>2. CASE req[r].project \in Live
  <2> DEFINE p == req[r].project
             row == req[r].row
             k == row.key
  <2>1. /\ p \in Live /\ row \in RowType /\ k \in Keys
        /\ issued[k] = p \/ (issued[k] = None /\ req[r].key = k)
    <3>1. Fits(req[r]) /\ req[r].pc = "write"
      BY DEF IInv, RequestInv, Update
    <3>2. row \in RowType /\ k \in Keys
      BY <3>1 DEF Fits, RowType
    <3>3. CASE req[r].op = "edit"
      BY <3>1, <3>2, <3>3, <1>2 DEF Fits
    <3>4. CASE req[r].op = "rotate"
      <4>1. req[r].key = k /\ issued[req[r].key] = None
        BY <3>1, <3>2, <3>4, ProjectAssumption DEF Fits
      <4> QED BY <4>1, <3>2, <1>2
    <3> QED BY <3>1, <3>3, <3>4 DEF Fits
  <2>2. /\ projects' = [projects EXCEPT ![p] = row]
        /\ issued' = [issued EXCEPT ![k] = p]
        /\ retired' \in {retired, retired \cup {projects[p].key}}
        /\ End(r)
        /\ UNCHANGED <<events, visitors, serial, accepted>>
    <3>1. Issue(k, p) /\ issued[k] \in {None, p}
      BY <1>2, <2>1 DEF Update
    <3>2. issued' = [issued EXCEPT ![k] = p]
      BY <3>1 DEF Issue, IInv, TypeOK
    <3> QED BY <1>2, <3>2 DEF Update
  <2>3. row.key = k
    OBVIOUS
  <2> HIDE DEF p, k, row
  <2>4. /\ Live \subseteq Born /\ Born \subseteq Ids
        /\ \A o \in Live : projects[o].key \in Keys
    BY LiveWasBorn DEF IInv, RowType
  <2>5. req' \in [Requests -> RequestType] /\ RequestInv'
    BY <2>1, <2>2, <2>4, IssueStep DEF IInv, p
  <2>6. TypeOK'
    BY <2>1, <2>2, <2>4, <2>5 DEF IInv, TypeOK
  <2>7. Live' = Live /\ Born \subseteq Born'
    <3>1. Live' = Live
      BY <2>1, <2>2, ProjectAssumption DEF IInv, TypeOK, Live, RowType
    <3>2. Born \subseteq Born'
      BY <2>1, <2>2, <2>4, ProjectAssumption DEF IInv, TypeOK, Born
    <3> QED BY <3>1, <3>2
  <2>8. KeyOpensItsProject'
    <3> SUFFICES ASSUME NEW o \in Live' PROVE issued'[projects'[o].key] = o
      BY DEF KeyOpensItsProject
    <3>1. CASE o = p
      BY <3>1, <2>1, <2>2, <2>3, <2>4 DEF IInv, TypeOK
    <3>2. CASE o # p
      <4>1. o \in Live /\ projects'[o] = projects[o] /\ projects[o].key \in Keys
        BY <3>2, <2>2, <2>4, <2>7 DEF IInv, TypeOK, Live
      <4>2. issued[projects[o].key] = o /\ o \in Ids
        BY <4>1, <2>4 DEF IInv, KeyOpensItsProject
      <4> QED BY <4>1, <4>2, <3>2, <2>1, <2>2, ProjectAssumption DEF IInv, TypeOK
    <3> QED BY <3>1, <3>2
  <2>9. Ledger' /\ NoOrphans' /\ AcceptedEventsKept'
    BY <2>2, <2>7 DEF IInv, Ledger, NoOrphans, AcceptedEventsKept
  <2> QED BY <2>5, <2>6, <2>8, <2>9 DEF IInv
<1> QED BY <1>1, <1>2

LEMMA DeleteKeepsIInv == ASSUME IInv, NEW r \in Requests, DeleteProject(r) PROVE IInv'
<1> DEFINE p == req[r].project
<1>1. p \in Ids
  BY DEF IInv, RequestInv, Fits, DeleteProject
<1>2. /\ projects' = [projects EXCEPT ![p] = None]
      /\ events' = [e \in EventIds |-> IF events[e] = p THEN None ELSE events[e]]
      /\ visitors' = {v \in visitors : v[1] # p}
      /\ End(r)
      /\ UNCHANGED <<serial, issued, retired, accepted>>
  BY DEF DeleteProject
<1> HIDE DEF p
<1>3. req' \in [Requests -> RequestType] /\ RequestInv'
  <2>1. req' = [req EXCEPT ![r] = Idle]
    BY <1>2 DEF End
  <2>2. \A q \in Requests \ {r} : Distinct(Idle, req[q]) /\ Distinct(req[q], Idle)
    BY ProjectAssumption DEF IInv, RequestInv, Fits, Distinct, Idle
  <2> QED BY <1>2, <2>1, <2>2, IdleFits, RequestStep DEF IInv
<1>4. TypeOK'
  BY <1>2, <1>3 DEF IInv, TypeOK
<1>5. Live' = Live \ {p} /\ Born' = Born
  BY <1>1, <1>2 DEF IInv, TypeOK, Live, Born
<1>6. KeyOpensItsProject'
  BY <1>2, <1>5 DEF IInv, TypeOK, Live, KeyOpensItsProject
<1>7. Ledger'
  BY <1>2, <1>5 DEF IInv, Ledger
<1>8. NoOrphans'
  BY <1>2, <1>5 DEF IInv, NoOrphans
<1>9. AcceptedEventsKept'
  BY <1>2, <1>5 DEF IInv, TypeOK, AcceptedEventsKept
<1> QED BY <1>3, <1>4, <1>6, <1>7, <1>8, <1>9 DEF IInv

\* The request of an insert ends, and no row of projects changes.
LEMMA InsertKeepsRequests ==
  ASSUME IInv, NEW r \in Requests, End(r), UNCHANGED <<projects, issued>>
  PROVE  /\ req' \in [Requests -> RequestType] /\ RequestInv'
         /\ Live' = Live /\ Born' = Born
<1>1. \A q \in Requests \ {r} : Distinct(Idle, req[q]) /\ Distinct(req[q], Idle)
  BY ProjectAssumption DEF IInv, RequestInv, Fits, Distinct, Idle
<1>2. req' \in [Requests -> RequestType] /\ RequestInv'
  BY <1>1, IdleFits, RequestStep DEF End, IInv
<1> QED BY <1>2 DEF Live, Born

LEMMA SaveKeepsIInv == ASSUME IInv, NEW r \in Requests, Save(r) PROVE IInv'
<1> DEFINE p == req[r].project
<1>1. /\ p \in Live /\ serial <= MaxEvents
      /\ events' = [events EXCEPT ![serial] = p]
      /\ accepted' \in {accepted, [accepted EXCEPT ![serial] = p]}
      /\ serial' = serial + 1
      /\ End(r)
      /\ UNCHANGED <<projects, visitors, issued, retired>>
  BY DEF Save
<1> HIDE DEF p
<1>2. /\ req' \in [Requests -> RequestType] /\ RequestInv'
      /\ Live' = Live /\ Born' = Born
  BY <1>1, InsertKeepsRequests
<1>3. p \in Born /\ p \in Ids
  BY <1>1, LiveWasBorn DEF IInv
<1>4. serial \in EventIds /\ serial' \in 1..(MaxEvents + 1)
  BY <1>1, ProjectAssumption DEF IInv, TypeOK, EventIds
<1>5. /\ \A e \in EventIds : events'[e] = IF e = serial THEN p ELSE events[e]
      /\ \A e \in EventIds : accepted'[e] = accepted[e] \/ (e = serial /\ accepted'[e] = p)
  BY <1>1, <1>4 DEF IInv, TypeOK
<1>6. TypeOK'
  BY <1>1, <1>2, <1>3, <1>4 DEF IInv, TypeOK
<1>7. Ledger'
  <2> SUFFICES ASSUME NEW e \in EventIds
               PROVE  /\ accepted'[e] \in Born' \cup {None}
                      /\ e >= serial' => accepted'[e] = None
    BY DEF Ledger
  <2>1. /\ accepted[e] \in Born \cup {None}
        /\ e >= serial => accepted[e] = None
    BY DEF IInv, Ledger
  <2>2. e >= serial' => e >= serial /\ e # serial
    BY <1>1, <1>4, ProjectAssumption DEF EventIds, IInv, TypeOK
  <2> QED BY <2>1, <2>2, <1>2, <1>3, <1>5
<1>8. KeyOpensItsProject'
  BY <1>1, <1>2 DEF IInv, KeyOpensItsProject
<1>9. NoOrphans'
  BY <1>1, <1>2, <1>5 DEF IInv, NoOrphans
<1>10. AcceptedEventsKept'
  <2> SUFFICES ASSUME NEW e \in EventIds, accepted'[e] \in Live'
               PROVE  events'[e] = accepted'[e]
    BY DEF AcceptedEventsKept
  <2>1. CASE e = serial
    <3>1. accepted[serial] = None /\ None \notin Live
      BY <2>1, <1>4, ProjectAssumption DEF IInv, Ledger, Live, EventIds
    <3> QED BY <3>1, <2>1, <1>2, <1>5
  <2>2. CASE e # serial
    BY <2>2, <1>2, <1>5 DEF IInv, AcceptedEventsKept
  <2> QED BY <2>1, <2>2
<1> QED BY <1>2, <1>6, <1>7, <1>8, <1>9, <1>10 DEF IInv

LEMMA UpsertKeepsIInv == ASSUME IInv, NEW r \in Requests, Upsert(r) PROVE IInv'
<1> DEFINE p == req[r].project
           v == req[r].visitor
<1>1. /\ p \in Live /\ p \in Ids /\ v \in Visitors
      /\ visitors' = visitors \cup {<<p, v>>}
      /\ End(r)
      /\ UNCHANGED <<projects, events, serial, issued, retired, accepted>>
  BY DEF Upsert, IInv, RequestInv, Fits
<1> HIDE DEF p, v
<1>2. /\ req' \in [Requests -> RequestType] /\ RequestInv'
      /\ Live' = Live /\ Born' = Born
  BY <1>1, InsertKeepsRequests
<1>3. TypeOK'
  BY <1>1, <1>2 DEF IInv, TypeOK
<1>4. Ledger' /\ KeyOpensItsProject' /\ AcceptedEventsKept'
  BY <1>1, <1>2 DEF IInv, Ledger, KeyOpensItsProject, AcceptedEventsKept
<1>5. NoOrphans'
  BY <1>1, <1>2 DEF IInv, NoOrphans
<1> QED BY <1>2, <1>3, <1>4, <1>5 DEF IInv

-----------------------------------------------------------------------------
(* The theorems. *)

LEMMA StepKeepsIInv == IInv /\ [Next]_vars => IInv'
<1> SUFFICES ASSUME IInv, [Next]_vars PROVE IInv'
  OBVIOUS
<1>1. CASE UNCHANGED vars
  <2>1. Live' = Live /\ Born' = Born
    BY <1>1 DEF vars, Live, Born
  <2> QED BY <2>1, <1>1 DEF vars, IInv, TypeOK, RequestInv, Fits, Distinct, Ledger,
                              KeyOpensItsProject, NoOrphans, AcceptedEventsKept
<1>2. ASSUME NEW r \in Requests, Arrive(r) PROVE IInv'
  BY <1>2, ArriveKeepsIInv
<1>3. ASSUME NEW r \in Requests, Handle(r) PROVE IInv'
  <2>1. CASE CreateProject(r)
    BY <2>1, CreateKeepsIInv
  <2>2. CASE GetProject(r)
    BY <2>2, GetProjectKeepsIInv
  <2>3. CASE FindByID(r)
    BY <2>3, FindByIDKeepsIInv
  <2>4. CASE Update(r)
    BY <2>4, UpdateKeepsIInv
  <2>5. CASE DeleteProject(r)
    BY <2>5, DeleteKeepsIInv
  <2>6. CASE Save(r)
    BY <2>6, SaveKeepsIInv
  <2>7. CASE Upsert(r)
    BY <2>7, UpsertKeepsIInv
  <2>8. CASE StatementFails(r)
    BY <2>8, EndKeepsIInv DEF StatementFails
  <2> QED BY <1>3, <2>1, <2>2, <2>3, <2>4, <2>5, <2>6, <2>7, <2>8 DEF Handle
<1> QED BY <1>1, <1>2, <1>3 DEF Next

(* What a step may do to the rows: ids and keys stay used, a replaced key stays
   replaced, a deleted project stays deleted, and a stored event changes only by
   going with its project. *)
RowsMove ==
  /\ Born \subseteq Born'
  /\ \A p \in Born : p \notin Live => p \notin Live'
  /\ \A k \in Keys : issued[k] # None => issued'[k] = issued[k]
  /\ retired \subseteq retired'
  /\ serial' = serial \/ (serial' = serial + 1 /\ serial <= MaxEvents)
  /\ \A e \in EventIds : \/ events'[e] = events[e]
                         \/ events'[e] = None /\ events[e] \notin Live'
                         \/ e = serial /\ serial' = serial + 1

LEMMA StepMovesRows == IInv /\ [Next]_vars => RowsMove
<1> SUFFICES ASSUME IInv, [Next]_vars PROVE RowsMove
  OBVIOUS
<1>t. /\ projects \in [Ids -> RowType \cup {None}]
      /\ issued \in [Keys -> Ids \cup {None}]
      /\ Born \subseteq Ids
      /\ \A r \in Requests : Fits(req[r])
  BY DEF IInv, TypeOK, RequestInv, Born
<1>i. ASSUME NEW k \in Keys, NEW p \in Ids, Issue(k, p)
      PROVE  /\ \A j \in Keys : issued[j] # None => issued'[j] = issued[j]
             /\ Born \subseteq Born'
  <2>1. \A j \in Keys : issued[j] # None => issued'[j] = issued[j]
    BY <1>i, <1>t DEF Issue
  <2> QED BY <2>1, <1>t, ProjectAssumption DEF Born
<1>1. CASE UNCHANGED <<projects, events, serial, issued, retired>>
  BY <1>1 DEF RowsMove, Born, Live
<1>2. ASSUME NEW r \in Requests, CreateProject(r) PROVE RowsMove
  <2>1. /\ req[r].project \in Ids \ Born /\ req[r].key \in Keys
        /\ Issue(req[r].key, req[r].project)
        /\ UNCHANGED <<events, serial, retired>>
    BY <1>2, <1>t DEF Fits, CreateProject
  <2>2. \A p \in Born : p \notin Live => p \notin Live'
    BY <2>1, <1>2, <1>t DEF CreateProject, Live
  <2> QED BY <2>1, <2>2, <1>i DEF RowsMove
<1>3. ASSUME NEW r \in Requests, Update(r) PROVE RowsMove
  <2>1. CASE req[r].project \notin Live
    BY <2>1, <1>1, <1>3 DEF Update
  <2>2. CASE req[r].project \in Live
    <3>1. /\ req[r].project \in Ids /\ req[r].row.key \in Keys
          /\ Issue(req[r].row.key, req[r].project)
          /\ retired \subseteq retired'
          /\ UNCHANGED <<events, serial>>
      BY <2>2, <1>3, <1>t DEF Fits, Update, RowType
    <3>2. \A p \in Born : p \notin Live => p \notin Live'
      BY <2>2, <1>3, <1>t DEF Update, Live
    <3> QED BY <3>1, <3>2, <1>i DEF RowsMove
  <2> QED BY <2>1, <2>2
<1>4. ASSUME NEW r \in Requests, DeleteProject(r) PROVE RowsMove
  <2>1. /\ req[r].project \notin Live' /\ Live' \subseteq Live
        /\ \A e \in EventIds : events'[e] = IF events[e] = req[r].project THEN None ELSE events[e]
        /\ UNCHANGED <<serial, issued, retired>>
    BY <1>4, <1>t DEF DeleteProject, Live
  <2> QED BY <2>1 DEF RowsMove, Born
<1>5. ASSUME NEW r \in Requests, Save(r) PROVE RowsMove
  <2>1. /\ serial <= MaxEvents /\ serial' = serial + 1
        /\ \A e \in EventIds : events'[e] = events[e] \/ e = serial
        /\ UNCHANGED <<projects, issued, retired>>
    BY <1>5 DEF Save, IInv, TypeOK
  <2> QED BY <2>1 DEF RowsMove, Born, Live
<1> QED BY <1>1, <1>2, <1>3, <1>4, <1>5
        DEF Next, vars, Arrive, Handle, Begin, ArriveCreate, ArriveEdit, ArriveRotate,
            ArriveDelete, ArriveTrack, ArriveIdentify, GetProject, FindByID, Upsert,
            StatementFails

LEMMA AlwaysIInv == Spec => []IInv
BY InitIInv, StepKeepsIInv, PTL DEF Spec

\* The tables and the request slots are well formed, always.
THEOREM TypeCorrect == Spec => []TypeOK
<1>1. IInv => TypeOK
  BY DEF IInv
<1> QED BY <1>1, AlwaysIInv, PTL

(* AuthenticateProject.Execute finds a project by its key alone; the key of a
   row was generated for that project, although Update writes it back from a
   copy read some statements earlier. *)
THEOREM KeysOpenTheirProject == Spec => []KeyOpensItsProject
<1>1. IInv => KeyOpensItsProject
  BY DEF IInv
<1> QED BY <1>1, AlwaysIInv, PTL

(* HandleTrack and HandleIdentify leave no row behind without its project,
   however they meet its deletion. *)
THEOREM NothingIsOrphaned == Spec => []NoOrphans
<1>1. IInv => NoOrphans
  BY DEF IInv
<1> QED BY <1>1, AlwaysIInv, PTL

\* An event HandleTrack answered with 202 is stored as long as its project is.
THEOREM AcceptedStayStored == Spec => []AcceptedEventsKept
<1>1. IInv => AcceptedEventsKept
  BY DEF IInv
<1> QED BY <1>1, AlwaysIInv, PTL

(* DeleteProject has no undo: no statement of an edit or rotation still under
   way brings the row back, and no new project takes its id. *)
THEOREM DeletionIsFinal == Spec => DeletedStaysDeleted
<1>1. IInv /\ [Next]_vars => [\A p \in Born : p \notin Live => p \notin Live']_vars
  BY StepMovesRows DEF RowsMove
<1> QED BY <1>1, AlwaysIInv, PTL DEF Spec, DeletedStaysDeleted

-----------------------------------------------------------------------------
(* Where no two edits or rotations of one project overlap: then the copy an edit
   writes back still has the key of the row, and a rotation's its name. *)

Writers == \A r, s \in Requests :
  /\ r # s
  /\ req[r].op \in {"edit", "rotate"}
  /\ req[s].op \in {"edit", "rotate"}
  => req[r].project # req[s].project

Copies == \A r \in Requests :
  LET q == req[r] IN
  q.pc = "write" /\ q.project \in Live =>
    /\ q.op = "edit" => q.row.key = projects[q.project].key
    /\ q.op = "rotate" => q.row.name = projects[q.project].name

Buried == /\ \A k \in retired : issued[k] # None
          /\ RetiredKeyStaysDead

RInv == IInv /\ Writers /\ Copies /\ Buried

\* Request r changes to new, and no row.
LEMMA RequestKeepsWriters ==
  ASSUME RInv, NEW r \in Requests, NEW new,
         req' = [req EXCEPT ![r] = new], UNCHANGED <<projects, issued, retired>>,
         new.op \in {"edit", "rotate"} =>
           \A s \in Requests \ {r} : req[s].op \in {"edit", "rotate"} => req[s].project # new.project,
         new.pc = "write" /\ new.project \in Live =>
           /\ new.op = "edit" => new.row.key = projects[new.project].key
           /\ new.op = "rotate" => new.row.name = projects[new.project].name
  PROVE  Writers' /\ Copies' /\ Buried'
<1>1. \A s \in Requests : req'[s] = IF s = r THEN new ELSE req[s]
  BY DEF RInv, IInv, TypeOK
<1>2. Live' = Live
  BY DEF Live
<1>3. Writers'
  BY <1>1 DEF RInv, Writers
<1>4. Copies'
  BY <1>1, <1>2 DEF RInv, Copies
<1>5. Buried'
  BY <1>2 DEF RInv, Buried, RetiredKeyStaysDead
<1> QED BY <1>3, <1>4, <1>5

LEMMA ArriveKeepsWriters ==
  ASSUME RInv, WritesOverlap = FALSE, NEW r \in Requests, Arrive(r)
  PROVE  Writers' /\ Copies' /\ Buried'
<1>b. ASSUME NEW new, Begin(r, new), new.pc # "write",
             new.op \in {"edit", "rotate"} => ~Writing(new.project)
      PROVE  Writers' /\ Copies' /\ Buried'
  BY <1>b, RequestKeepsWriters DEF Begin, Writing
<1>1. CASE ArriveCreate(r)
  <2>1. PICK p \in FreshIds, n \in Names, k \in Generate :
          Begin(r, [Idle EXCEPT !.op = "create", !.pc = "create", !.project = p, !.name = n, !.key = k])
    BY <1>1 DEF ArriveCreate
  <2> QED BY <2>1, <1>b DEF Idle
<1>2. CASE ArriveEdit(r)
  <2>1. PICK p \in Born, n \in Names :
          Begin(r, [Idle EXCEPT !.op = "edit", !.pc = "get", !.project = p, !.name = n]) /\ ~Writing(p)
    BY <1>2 DEF ArriveEdit
  <2> QED BY <2>1, <1>b DEF Idle
<1>3. CASE ArriveRotate(r)
  <2>1. PICK p \in Born, k \in Generate :
          Begin(r, [Idle EXCEPT !.op = "rotate", !.pc = "get", !.project = p, !.key = k]) /\ ~Writing(p)
    BY <1>3 DEF ArriveRotate
  <2> QED BY <2>1, <1>b DEF Idle
<1>4. CASE ArriveDelete(r)
  <2>1. PICK p \in Born :
          Begin(r, [Idle EXCEPT !.op = "delete", !.pc = "get", !.project = p])
    BY <1>4 DEF ArriveDelete
  <2> QED BY <2>1, <1>b DEF Idle
<1>5. CASE ArriveTrack(r)
  <2>1. PICK p \in Born :
          Begin(r, [Idle EXCEPT !.op = "track", !.pc = "save", !.project = p])
    BY <1>5 DEF ArriveTrack
  <2> QED BY <2>1, <1>b DEF Idle
<1>6. CASE ArriveIdentify(r)
  <2>1. PICK p \in Born, v \in Visitors :
          Begin(r, [Idle EXCEPT !.op = "identify", !.pc = "upsert", !.project = p, !.visitor = v])
    BY <1>6 DEF ArriveIdentify
  <2> QED BY <2>1, <1>b DEF Idle
<1> QED BY <1>1, <1>2, <1>3, <1>4, <1>5, <1>6 DEF Arrive

\* Request r goes on to its next statement.
LEMMA ReadKeepsWriters ==
  ASSUME RInv, NEW r \in Requests, GetProject(r) \/ FindByID(r)
  PROVE  Writers' /\ Copies' /\ Buried'
<1>t. req[r] \in RequestType /\ projects \in [Ids -> RowType \cup {None}]
  BY DEF RInv, IInv, TypeOK
<1>1. UNCHANGED <<projects, issued, retired>>
  BY DEF GetProject, FindByID
<1>2. \A s \in Requests \ {r} : req[r].op \in {"edit", "rotate"} /\ req[s].op \in {"edit", "rotate"}
                               => req[s].project # req[r].project
  BY DEF RInv, Writers
<1>3. CASE End(r)
  BY <1>1, <1>3, RequestKeepsWriters DEF End, Idle
<1>4. ASSUME NEW pc \in {"delete", "find"}, Goto(r, pc) PROVE Writers' /\ Copies' /\ Buried'
  <2> DEFINE new == [req[r] EXCEPT !.pc = pc]
  <2>1. req' = [req EXCEPT ![r] = new]
    BY <1>4 DEF Goto
  <2>2. new.op = req[r].op /\ new.project = req[r].project /\ new.pc = pc
    BY <1>t DEF RequestType
  <2> HIDE DEF new
  <2> QED BY <1>1, <1>2, <2>1, <2>2, RequestKeepsWriters
<1>5. CASE FindByID(r) /\ req[r].project \in Live
  <2> DEFINE p == req[r].project
             row == IF req[r].op = "edit" THEN Edited(req[r]) ELSE Rotated(req[r])
             new == [req[r] EXCEPT !.pc = "write", !.row = row]
  <2>1. req' = [req EXCEPT ![r] = new]
    BY <1>5 DEF FindByID
  <2>2. new.op = req[r].op /\ new.project = req[r].project /\ new.row = row
    BY <1>t DEF RequestType
  <2>3. /\ req[r].op = "edit" => row.key = projects[p].key
        /\ req[r].op = "rotate" => row.name = projects[p].name
    <3>1. projects[p] \in RowType
      BY <1>5, <1>t DEF Live
    <3> QED BY <3>1 DEF Edited, Rotated, RowType
  <2> HIDE DEF new, row
  <2> QED BY <1>1, <1>2, <2>1, <2>2, <2>3, RequestKeepsWriters
<1> QED BY <1>3, <1>4, <1>5 DEF GetProject, FindByID

LEMMA EndKeepsWriters ==
  ASSUME RInv, NEW r \in Requests, End(r), UNCHANGED <<projects, issued, retired>>
  PROVE  Writers' /\ Copies' /\ Buried'
BY RequestKeepsWriters DEF End, Idle

LEMMA CreateKeepsWriters ==
  ASSUME RInv, NEW r \in Requests, CreateProject(r)
  PROVE  Writers' /\ Copies' /\ Buried'
<1> DEFINE p == req[r].project
           k == req[r].key
<1>1. /\ p \in Ids \ Born /\ k \in Keys /\ issued[k] = None
      /\ projects' = [projects EXCEPT ![p] = [name |-> req[r].name, key |-> k]]
      /\ Issue(k, p) /\ End(r) /\ retired' = retired
  BY ProjectAssumption DEF RInv, IInv, RequestInv, Fits, CreateProject
<1> HIDE DEF p, k
<1>2. \A s \in Requests : req'[s] = IF s = r THEN Idle ELSE req[s]
  BY <1>1 DEF RInv, IInv, TypeOK, End
<1>3. \A o \in Ids \ {p} : projects'[o] = projects[o]
  BY <1>1 DEF RInv, IInv, TypeOK
<1>4. projects'[p].key = k
  BY <1>1 DEF RInv, IInv, TypeOK
<1>5. Writers'
  BY <1>2 DEF RInv, Writers, Idle
<1>6. Copies'
  <2> SUFFICES ASSUME NEW s \in Requests, req'[s].pc = "write", req'[s].project \in Live'
               PROVE  /\ req'[s].op = "edit" => req'[s].row.key = projects'[req'[s].project].key
                      /\ req'[s].op = "rotate" => req'[s].row.name = projects'[req'[s].project].name
    BY DEF Copies
  <2>1. req'[s] = req[s] /\ Fits(req[s])
    BY <1>2 DEF RInv, IInv, RequestInv, Idle
  <2>2. req[s].project \in Ids /\ req[s].project # p
    BY <2>1, <1>1, ProjectAssumption DEF Fits
  <2> QED BY <2>1, <2>2, <1>3 DEF RInv, Copies, Live
<1>7. Buried'
  <2>1. k \notin retired
    BY <1>1 DEF RInv, Buried
  <2>2. \A j \in retired : issued'[j] # None
    BY <1>1, <2>1 DEF RInv, Buried, Issue, IInv, TypeOK
  <2> QED BY <1>1, <1>3, <1>4, <2>1, <2>2 DEF RInv, Buried, RetiredKeyStaysDead, Live
<1> QED BY <1>5, <1>6, <1>7

LEMMA UpdateKeepsWriters ==
  ASSUME RInv, NEW r \in Requests, Update(r)
  PROVE  Writers' /\ Copies' /\ Buried'
<1>1. CASE req[r].project \notin Live
  BY <1>1, EndKeepsWriters DEF Update
<1>2. CASE req[r].project \in Live
  <2> DEFINE p == req[r].project
             row == req[r].row
  <2>1. /\ p \in Ids /\ row \in RowType /\ req[r].op \in {"edit", "rotate"}
        /\ req[r].op = "rotate" => row.key = req[r].key /\ issued[row.key] = None
        /\ req[r].op = "edit" => row.key = projects[p].key
    <3>1. Fits(req[r]) /\ req[r].pc = "write"
      BY DEF RInv, IInv, RequestInv, Update
    <3>2. /\ p \in Ids /\ row \in RowType /\ req[r].op \in {"edit", "rotate"}
          /\ req[r].op = "rotate" => row.key = req[r].key
      BY <3>1 DEF Fits
    <3>3. req[r].op = "rotate" => issued[row.key] = None
      BY <3>1, <3>2, ProjectAssumption DEF Fits, RowType
    <3>4. req[r].op = "edit" => row.key = projects[p].key
      BY <3>1, <1>2 DEF RInv, Copies
    <3> QED BY <3>2, <3>3, <3>4
  <2>2. /\ projects' = [projects EXCEPT ![p] = row]
        /\ Issue(row.key, p) /\ End(r)
        /\ retired' = IF req[r].op = "rotate" THEN retired \cup {projects[p].key} ELSE retired
    BY <1>2 DEF Update
  <2>3. /\ \A o \in Live : projects[o] \in RowType /\ issued[projects[o].key] = o /\ o # None
        /\ Live \subseteq Ids
    <3>1. \A o \in Live : projects[o] \in RowType
      BY LiveWasBorn DEF RInv, IInv
    <3> QED BY <3>1, ProjectAssumption DEF RInv, IInv, KeyOpensItsProject, Live
  <2>4. \A s \in Requests : req'[s] = IF s = r THEN Idle ELSE req[s]
    BY <2>2 DEF RInv, IInv, TypeOK, End
  <2>5. p \in Live /\ \A s \in Requests \ {r} : req[s].op \in {"edit", "rotate"} => req[s].project # p
    BY <1>2, <2>1 DEF RInv, Writers
  <2> HIDE DEF p, row
  <2>6. Live' = Live /\ \A o \in Ids : projects'[o] = IF o = p THEN row ELSE projects[o]
    BY <2>1, <2>2, <2>5, ProjectAssumption DEF RInv, IInv, TypeOK, Live, RowType
  <2>7. Writers'
    BY <2>4 DEF RInv, Writers, Idle
  <2>8. Copies'
    BY <2>3, <2>4, <2>5, <2>6 DEF RInv, Copies, Idle
  <2>9. Buried'
    <3>1. row.key \in Keys /\ \A o \in Live : projects[o].key \in Keys
      BY <2>1, <2>3 DEF RowType
    <3>2. row.key \notin retired
      BY <2>1, <2>5 DEF RInv, Buried, RetiredKeyStaysDead
    <3>3. \A j \in Keys : issued'[j] = IF j = row.key /\ issued[j] = None THEN p ELSE issued[j]
      BY <2>2, <3>1 DEF Issue, RInv, IInv, TypeOK
    <3>4. \A j \in retired' : issued'[j] # None
      BY <2>2, <2>3, <2>5, <3>1, <3>2, <3>3 DEF RInv, Buried, IInv, TypeOK
    <3>5. req[r].op = "rotate" => row.key # projects[p].key
      BY <2>1, <2>3, <2>5
    <3>6. \A o \in Live \ {p} : projects[o].key # projects[p].key
      BY <2>3, <2>5
    <3>7. RetiredKeyStaysDead'
      BY <2>2, <2>3, <2>6, <3>2, <3>5, <3>6 DEF RInv, Buried, RetiredKeyStaysDead
    <3> QED BY <3>4, <3>7 DEF Buried
  <2> QED BY <2>7, <2>8, <2>9
<1> QED BY <1>1, <1>2

LEMMA DeleteKeepsWriters ==
  ASSUME RInv, NEW r \in Requests, DeleteProject(r)
  PROVE  Writers' /\ Copies' /\ Buried'
<1>1. /\ \A s \in Requests : req'[s] = IF s = r THEN Idle ELSE req[s]
      /\ \A o \in Live' : o \in Live /\ projects'[o] = projects[o]
      /\ UNCHANGED <<issued, retired>>
  BY DEF RInv, IInv, TypeOK, DeleteProject, End, Live
<1>2. Writers'
  BY <1>1 DEF RInv, Writers, Idle
<1>3. Copies'
  BY <1>1 DEF RInv, Copies, Idle
<1>4. Buried'
  BY <1>1 DEF RInv, Buried, RetiredKeyStaysDead
<1> QED BY <1>2, <1>3, <1>4

LEMMA StepKeepsRInv == WritesOverlap = FALSE /\ RInv /\ [Next]_vars => RInv'
<1> SUFFICES ASSUME WritesOverlap = FALSE, RInv, [Next]_vars PROVE RInv'
  OBVIOUS
<1>1. IInv'
  BY StepKeepsIInv DEF RInv
<1>2. CASE UNCHANGED vars
  <2>1. Live' = Live
    BY <1>2 DEF vars, Live
  <2> QED BY <2>1, <1>1, <1>2 DEF vars, RInv, Writers, Copies, Buried, RetiredKeyStaysDead
<1>3. ASSUME NEW r \in Requests, Arrive(r) PROVE Writers' /\ Copies' /\ Buried'
  BY <1>3, ArriveKeepsWriters
<1>4. ASSUME NEW r \in Requests, Handle(r) PROVE Writers' /\ Copies' /\ Buried'
  <2>1. CASE Save(r) \/ Upsert(r) \/ StatementFails(r)
    BY <2>1, EndKeepsWriters DEF Save, Upsert, StatementFails
  <2> QED BY <1>4, <2>1, CreateKeepsWriters, ReadKeepsWriters, UpdateKeepsWriters, DeleteKeepsWriters
          DEF Handle
<1> QED BY <1>1, <1>2, <1>3, <1>4 DEF Next, RInv

LEMMA InitRInv == Init => RInv
<1>1. Init => Writers /\ Copies /\ Buried
  BY DEF Init, Idle, Writers, Copies, Buried, RetiredKeyStaysDead, Live
<1> QED BY <1>1, InitIInv DEF RInv

(* RotateAPIKey "immediately invalidates the old one", for good: as long as no
   edit or rotation of a project overlaps another of the same project, no key
   that a rotation replaced comes back. *)
THEOREM RetiredKeysStayDeadWithoutOverlap ==
  ASSUME WritesOverlap = FALSE PROVE Spec => []RetiredKeyStaysDead
<1>1. RInv /\ [Next]_vars => RInv'
  BY StepKeepsRInv
<1>2. RInv => RetiredKeyStaysDead
  BY DEF RInv, Buried
<1> QED BY InitRInv, <1>1, <1>2, PTL DEF Spec

(* Edit and rotate, each a read and a write of a whole row, behave as the atomic
   renaming and rotation of ProjectDirectory, and the cascading deletion as its
   deletion, as long as no edit or rotation of a project overlaps another of the
   same project.  (Ids are UUIDs and keys 64 hexadecimal digits, so none is both.) *)
THEOREM RefinementWithoutOverlap ==
  ASSUME WritesOverlap = FALSE, Ids \cap Keys = {} PROVE Spec => ImplementsDirectory
<1> DEFINE used == Born \cup {k \in Keys : issued[k] # None}
<1>1. Init => Directory!Init
  <2> SUFFICES ASSUME Init PROVE Directory!Init
    OBVIOUS
  <2>1. Born = {} /\ {k \in Keys : issued[k] # None} = {}
    BY ProjectAssumption DEF Init, Born
  <2> QED BY <2>1 DEF Init, Directory!Init
<1>2. ASSUME RInv, [Next]_vars PROVE [Directory!Next]_<<projects, used>>
  <2>t. /\ projects \in [Ids -> RowType \cup {None}]
        /\ issued \in [Keys -> Ids \cup {None}]
        /\ Born \subseteq Ids
        /\ \A r \in Requests : Fits(req[r])
    BY <1>2 DEF RInv, IInv, TypeOK, RequestInv, Born
  <2>1. CASE UNCHANGED <<projects, issued>>
    BY <2>1 DEF Born
  <2>i. ASSUME NEW k \in Keys, NEW p \in Ids, Issue(k, p), issued[k] = None
        PROVE  used' = used \cup {p, k}
    <3>1. \A j \in Keys : issued'[j] = IF j = k THEN p ELSE issued[j]
      BY <2>i, <2>t DEF Issue
    <3> QED BY <3>1, <2>i, <2>t, ProjectAssumption DEF Born
  <2>c. ASSUME NEW p \in Ids \ Born, NEW n \in Names, NEW k \in Keys, issued[k] = None, Issue(k, p),
               projects' = [projects EXCEPT ![p] = [name |-> n, key |-> k]]
        PROVE  Directory!Next
    <3>1. used' = used \cup {p, k} /\ p \notin used /\ k \notin used
      BY <2>c, <2>i, <2>t
    <3>2. Directory!Create(p, n, k)
      BY <2>c, <3>1 DEF Directory!Create
    <3> QED BY <3>2 DEF Directory!Next
  <2>o. ASSUME NEW p \in Born, NEW k \in Keys, issued[k] = None, Issue(k, p), projects[p] # None,
               projects' = [projects EXCEPT ![p].key = k]
        PROVE  Directory!Next
    <3>1. used' = used \cup {k} /\ k \notin used /\ p \in Ids
      BY <2>o, <2>i, <2>t
    <3>2. Directory!Rotate(p, k)
      BY <2>o, <3>1 DEF Directory!Rotate
    <3> QED BY <3>1, <3>2 DEF Directory!Next
  <2>2. ASSUME NEW r \in Requests, CreateProject(r) PROVE Directory!Next
    <3> DEFINE p == req[r].project
               n == req[r].name
               k == req[r].key
    <3>1. p \in Ids \ Born /\ n \in Names /\ k \in Keys /\ issued[k] = None
      BY <2>2, <2>t, ProjectAssumption DEF Fits, CreateProject
    <3>2. projects' = [projects EXCEPT ![p] = [name |-> n, key |-> k]] /\ Issue(k, p)
      BY <2>2 DEF CreateProject
    <3> HIDE DEF p, n, k
    <3> QED BY <3>1, <3>2, <2>c
  <2>3. ASSUME NEW r \in Requests, Update(r), req[r].project \in Live PROVE Directory!Next
    <3> DEFINE p == req[r].project
               row == req[r].row
    <3>1. /\ Fits(req[r]) /\ req[r].pc = "write" /\ p \in Live /\ p \in Ids /\ row \in RowType
          /\ projects' = [projects EXCEPT ![p] = row] /\ Issue(row.key, p)
      BY <2>3, <2>t DEF Update, Fits
    <3>2. projects[p] \in RowType /\ row.name \in Names /\ row.key \in Keys /\ projects[p] # None
      BY <3>1, <2>t DEF Live, RowType
    <3>3. CASE req[r].op = "edit"
      <4>1. row.key = projects[p].key /\ issued[row.key] = p
        BY <3>1, <3>3, <1>2 DEF RInv, Copies, Fits
      <4>2. row = [projects[p] EXCEPT !.name = row.name]
        BY <3>1, <3>2, <4>1 DEF RowType
      <4>3. UNCHANGED used
        <5>1. \A j \in Keys : issued'[j] = issued[j]
          BY <3>1, <3>2, <4>1, <2>t, ProjectAssumption DEF Issue
        <5> QED BY <5>1 DEF Born
      <4>4. projects' = [projects EXCEPT ![p].name = row.name]
        <5> HIDE DEF row
        <5> QED BY <3>1, <4>2
      <4>5. Directory!Rename(p, row.name)
        BY <3>2, <4>3, <4>4 DEF Directory!Rename
      <4> QED BY <3>1, <3>2, <4>5 DEF Directory!Next
    <3>4. CASE req[r].op = "rotate"
      <4>1. row.name = projects[p].name /\ issued[row.key] = None
        BY <3>1, <3>2, <3>4, <1>2, ProjectAssumption DEF RInv, Copies, Fits
      <4>2. row = [projects[p] EXCEPT !.key = row.key]
        BY <3>1, <3>2, <4>1 DEF RowType
      <4>3. p \in Born
        BY <3>1, <1>2, LiveWasBorn DEF RInv, IInv
      <4>4. projects' = [projects EXCEPT ![p].key = row.key]
        <5> HIDE DEF row
        <5> QED BY <3>1, <4>2
      <4> HIDE DEF p, row
      <4> QED BY <3>1, <3>2, <4>1, <4>3, <4>4, <2>o
    <3> QED BY <3>1, <3>3, <3>4 DEF Fits
  <2>4. ASSUME NEW r \in Requests, DeleteProject(r) PROVE [Directory!Next]_<<projects, used>>
    <3> DEFINE p == req[r].project
    <3>1. p \in Ids /\ projects' = [projects EXCEPT ![p] = None] /\ UNCHANGED issued
      BY <2>4, <2>t DEF DeleteProject, Fits
    <3>2. UNCHANGED used
      BY <3>1 DEF Born
    <3>3. CASE projects[p] = None
      BY <3>1, <3>2, <3>3, <2>t
    <3>4. CASE projects[p] # None
      BY <3>1, <3>2, <3>4 DEF Directory!Next, Directory!Delete
    <3> QED BY <3>3, <3>4
  <2>5. ASSUME NEW r \in Requests, Update(r), req[r].project \notin Live
        PROVE  UNCHANGED <<projects, issued>>
    BY <2>5 DEF Update
  <2> QED BY <1>2, <2>1, <2>2, <2>3, <2>4, <2>5
          DEF Next, vars, Arrive, Handle, Begin, ArriveCreate, ArriveEdit, ArriveRotate,
              ArriveDelete, ArriveTrack, ArriveIdentify, GetProject, FindByID, Save,
              Upsert, StatementFails
<1>3. RInv /\ [Next]_vars => RInv'
  BY StepKeepsRInv
<1>4. [](RInv) /\ [][Next]_vars => [][Directory!Next]_<<projects, used>>
  BY <1>2, PTL
<1> QED BY InitRInv, <1>1, <1>3, <1>4, PTL DEF Spec, ImplementsDirectory, Directory!Spec
=============================================================================
