------------------------ MODULE AdminAccountsProofs ------------------------
(* What holds of the admin accounts for any number of concurrent requests,
   browsers, accounts and usernames.

   The inductive invariant says who may still bring an id to life: a request
   that creates an account holds an id that no row ever had and that no other
   request holds.  So an id whose row was deleted never has one again, and a
   session of it stays rejected. *)
EXTENDS AdminAccounts, FiniteSetTheorems, TLAPS

-----------------------------------------------------------------------------
(* The inductive invariant. *)

\* r will insert a row, unless it fails first.
Creating(r) == req[r].op \in {"setup", "add"} /\ req[r].pc \notin {"idle", "reply"}

CreatorInv == \A r \in Requests : Creating(r) =>
                /\ req[r].arg \in Ids \ born
                /\ req[r].name \in Names
                /\ \A q \in Requests : q # r => req[q].arg # req[r].arg

\* A program counter belongs to one handler, and what it works on was created.
HandlerOK(r) ==
                /\ req[r].pc \in {"setupCount", "setupInsert"} => req[r].op = "setup"
                /\ req[r].pc \in {"addFind", "addInsert"} => req[r].op = "add"
                /\ req[r].pc \in {"delFind", "delCount", "delDelete"} =>
                     req[r].op = "delete" /\ req[r].arg \in Ids
                /\ req[r].pc \in {"gateCount", "gateFind", "list"} => req[r].op \in Gated
                /\ req[r].op = "delete" => req[r].arg \in Ids
                /\ req[r].pc # "idle" => req[r].client \in Clients
                /\ req[r].answer = "set" => req[r].arg \in born

HandlerInv == \A r \in Requests : HandlerOK(r)

RevokedInv == \A r \in Requests : req[r].revoked =>
                /\ req[r].subject \in born \ Rows
                /\ req[r].pc \notin {"setupCount", "setupInsert", "loginFind"}
                /\ ~Inside(r)

IInv == TypeOK /\ CreatorInv /\ HandlerInv /\ RevokedInv

LEMMA InitIInv == Init => IInv
<1> SUFFICES ASSUME Init PROVE IInv
  OBVIOUS
<1>1. \A r \in Requests : req[r] = Idle
  BY DEF Init
<1>2. Idle \in RequestType
  BY DEF Idle, RequestType, PC, Gated
<1>3. TypeOK
  BY <1>1, <1>2 DEF Init, TypeOK, Rows
<1>4. CreatorInv /\ HandlerInv /\ RevokedInv
  BY <1>1 DEF Idle, CreatorInv, HandlerInv, HandlerOK, RevokedInv, Creating
<1> QED BY <1>3, <1>4 DEF IInv

\* pc is a place the handler r is in may go on to.
Onward(r, pc) ==
  /\ req[r].pc \notin {"idle", "reply"}
  /\ req[r].revoked => pc = "gateFind"
  /\ \/ pc \in {"gateFind", "list"} /\ req[r].op \in Gated
     \/ pc = "setupInsert" /\ req[r].op = "setup"
     \/ pc \in {"addFind", "addInsert"} /\ req[r].op = "add"
     \/ pc \in {"delFind", "delCount", "delDelete"} /\ req[r].op = "delete"

(* The steps that only move one request along: the table and every request's
   operands stay as they are. *)
LEMMA MoveKeepsIInv ==
  ASSUME IInv, NEW r \in Requests, NEW pc, NEW a \in {"keep", "clear"},
         UNCHANGED <<users, cookie, born>>,
         \/ Goto(r, pc) /\ Onward(r, pc)
         \/ Answer(r, a) /\ pc = "reply" /\ req[r].pc # "idle"
  PROVE  IInv'
<1>a. /\ req[r].pc # "idle" /\ pc \in PC
      /\ \/ req' = [req EXCEPT ![r].pc = pc]
         \/ req' = [req EXCEPT ![r] = [@ EXCEPT !.pc = pc, !.answer = a]]
      /\ pc = "reply" \/ Onward(r, pc)
  BY DEF Goto, Answer, Onward, PC
<1>0. /\ req[r] \in RequestType /\ DOMAIN req = Requests
      /\ \A q \in Requests : q # r => req'[q] = req[q]
      /\ req'[r].pc = pc /\ req'[r].op = req[r].op /\ req'[r].arg = req[r].arg
      /\ req'[r].name = req[r].name /\ req'[r].subject = req[r].subject
      /\ req'[r].client = req[r].client /\ req'[r].revoked = req[r].revoked
      /\ req'[r].answer \in {req[r].answer, "keep", "clear"}
      /\ Rows' = Rows /\ req'[r] \in RequestType
  <2>1. req \in [Requests -> RequestType] /\ Rows' = Rows
    BY DEF IInv, TypeOK, Rows
  <2>2. CASE req' = [req EXCEPT ![r].pc = pc]
    <3>1. req'[r] = [req[r] EXCEPT !.pc = pc] /\ \A q \in Requests : q # r => req'[q] = req[q]
      BY <2>1, <2>2
    <3>2. /\ req'[r].pc = pc /\ req'[r].op = req[r].op /\ req'[r].arg = req[r].arg
          /\ req'[r].name = req[r].name /\ req'[r].subject = req[r].subject
          /\ req'[r].client = req[r].client /\ req'[r].revoked = req[r].revoked
          /\ req'[r].answer \in {req[r].answer, "keep", "clear"}
          /\ req'[r] \in RequestType
      <4>1. req[r] \in RequestType /\ pc \in PC
        BY <1>a, <2>1
      <4> DEFINE old == req[r]
                 new == req'[r]
      <4>2. /\ old \in RequestType /\ pc \in PC
            /\ new = [old EXCEPT !.pc = pc]
        BY <3>1, <4>1
      <4> HIDE DEF old, new
      <4>3. /\ new.pc = pc /\ new.op = old.op /\ new.arg = old.arg
            /\ new.name = old.name /\ new.subject = old.subject
            /\ new.client = old.client /\ new.revoked = old.revoked
            /\ new.answer \in {old.answer, "keep", "clear"}
            /\ new \in RequestType
        BY <4>2 DEF RequestType
      <4> QED BY <4>3 DEF old, new
    <3> QED BY <2>1, <3>1, <3>2
  <2>3. CASE req' = [req EXCEPT ![r] = [@ EXCEPT !.pc = pc, !.answer = a]]
    <3>1. /\ req'[r] = [req[r] EXCEPT !.pc = pc, !.answer = a]
          /\ \A q \in Requests : q # r => req'[q] = req[q]
      BY <2>1, <2>3
    <3>2. /\ req'[r].pc = pc /\ req'[r].op = req[r].op /\ req'[r].arg = req[r].arg
          /\ req'[r].name = req[r].name /\ req'[r].subject = req[r].subject
          /\ req'[r].client = req[r].client /\ req'[r].revoked = req[r].revoked
          /\ req'[r].answer \in {req[r].answer, "keep", "clear"}
          /\ req'[r] \in RequestType
      <4>1. req[r] \in RequestType /\ pc \in PC
        BY <1>a, <2>1
      <4> DEFINE old == req[r]
                 new == req'[r]
      <4>2. /\ old \in RequestType /\ pc \in PC
            /\ new = [old EXCEPT !.pc = pc, !.answer = a]
        BY <3>1, <4>1
      <4> HIDE DEF old, new
      <4>3. /\ new.pc = pc /\ new.op = old.op /\ new.arg = old.arg
            /\ new.name = old.name /\ new.subject = old.subject
            /\ new.client = old.client /\ new.revoked = old.revoked
            /\ new.answer \in {old.answer, "keep", "clear"}
            /\ new \in RequestType
        BY <4>2 DEF RequestType
      <4> QED BY <4>3 DEF old, new
    <3> QED BY <2>1, <3>1, <3>2
  <2> QED BY <1>a, <2>2, <2>3
<1>1. TypeOK'
  <2>1. req' = [req EXCEPT ![r] = req'[r]]
    BY <1>a DEF IInv, TypeOK
  <2>2. req' \in [Requests -> RequestType]
    BY <1>0, <2>1 DEF IInv, TypeOK
  <2> QED BY <1>0, <2>2 DEF IInv, TypeOK
<1>2. CreatorInv'
  BY <1>0, <1>a DEF IInv, CreatorInv, Creating, Onward
<1>3. HandlerInv'
  BY <1>0, <1>a DEF IInv, HandlerInv, HandlerOK, Gated, Onward
<1>4. RevokedInv'
  BY <1>0, <1>a DEF IInv, RevokedInv, Inside, Onward
<1> QED BY <1>1, <1>2, <1>3, <1>4 DEF IInv

LEMMA AnswerKeepsIInv ==
  ASSUME IInv, NEW r \in Requests, NEW a \in {"keep", "clear"}, Answer(r, a),
         req[r].pc # "idle", UNCHANGED <<users, cookie, born>>
  PROVE  IInv'
BY MoveKeepsIInv

LEMMA GotoKeepsIInv ==
  ASSUME IInv, NEW r \in Requests, NEW pc, Goto(r, pc), Onward(r, pc),
         UNCHANGED <<users, cookie, born>>
  PROVE  IInv'
BY MoveKeepsIInv

\* A new request: its id, if it creates an account, is nobody else's.
LEMMA BeginKeepsIInv ==
  ASSUME IInv, NEW r \in Requests, NEW c \in Clients,
         NEW op \in {"setup", "login", "logout", "add", "delete", "list"},
         NEW i \in Ids \cup {None}, NEW n \in Names \cup {None},
         NEW pc \in {"setupCount", "loginFind", "reply", "gateCount"},
         Begin(r, op, c, i, n, pc),
         op \in {"setup", "add"} => i \in Fresh /\ n \in Names,
         op \notin {"setup", "add"} => i \in born \cup {None},
         op = "delete" => i \in Ids,
         pc = "setupCount" => op = "setup",
         pc = "gateCount" => op \in Gated,
         pc = "loginFind" => op = "login",
         pc = "reply" => op = "logout"
  PROVE  IInv'
<1> DEFINE new == [op |-> op, pc |-> pc, client |-> c, subject |-> cookie[c], arg |-> i,
                   name |-> n, answer |-> IF op = "logout" THEN "clear" ELSE "keep",
                   revoked |-> op \in Gated /\ cookie[c] \in born \ Rows]
<1>0. /\ req'[r] = new /\ req[r].pc = "idle"
      /\ \A q \in Requests : q # r => req'[q] = req[q]
      /\ users' = users /\ cookie' = cookie /\ born' = born /\ Rows' = Rows
      /\ cookie[c] \in born \cup {None} /\ born \subseteq Ids
  BY DEF Begin, IInv, TypeOK, Rows
<1>1. TypeOK'
  <2>1. new \in RequestType
    BY <1>0 DEF RequestType, PC, Gated
  <2>2. req' \in [Requests -> RequestType]
    BY <1>0, <2>1 DEF Begin, IInv, TypeOK
  <2> QED BY <1>0, <2>2 DEF IInv, TypeOK
<1>2. CreatorInv'
  <2>1. i \in Fresh => i \in Ids \ born /\ \A q \in Requests : req[q].arg # i
    BY DEF Fresh
  <2>2. ASSUME NEW q \in Requests, Creating(q)', q # r
        PROVE  /\ req'[q].arg \in Ids \ born'
               /\ req'[q].name \in Names
               /\ \A s \in Requests : s # q => req'[s].arg # req'[q].arg
    <3>1. Creating(q) /\ req'[q] = req[q]
      BY <1>0, <2>2 DEF Creating
    <3>2. req[q].arg \in Ids \ born
      BY <3>1 DEF IInv, CreatorInv
    <3>3. req'[r].arg # req[q].arg
      BY <1>0, <2>1, <3>2, AccountAssumption
    <3> QED BY <1>0, <3>1, <3>2, <3>3 DEF IInv, CreatorInv
  <2>3. ASSUME Creating(r)'
        PROVE  /\ req'[r].arg \in Ids \ born'
               /\ req'[r].name \in Names
               /\ \A s \in Requests : s # r => req'[s].arg # req'[r].arg
    BY <1>0, <2>1, <2>3 DEF Creating
  <2> QED BY <2>2, <2>3 DEF CreatorInv
<1>3. HandlerInv'
  <2>1. /\ new.op = op /\ new.pc = pc /\ new.client = c /\ new.arg = i
        /\ new.answer \in {"keep", "clear"}
    OBVIOUS
  <2> HIDE DEF new
  <2>2. HandlerOK(r)'
    BY <1>0, <2>1 DEF HandlerOK
  <2>3. ASSUME NEW q \in Requests, q # r PROVE HandlerOK(q)'
    BY <1>0, <2>3 DEF IInv, HandlerInv, HandlerOK
  <2> QED BY <2>2, <2>3 DEF HandlerInv
<1>4. RevokedInv'
  <2>1. /\ new.subject = cookie[c] /\ new.pc = pc
        /\ new.revoked <=> op \in Gated /\ cookie[c] \in born \ Rows
    OBVIOUS
  <2> HIDE DEF new
  <2>2. ASSUME req'[r].revoked
        PROVE  /\ req'[r].subject \in born' \ Rows'
               /\ req'[r].pc \notin {"setupCount", "setupInsert", "loginFind"}
               /\ ~Inside(r)'
    BY <1>0, <2>1, <2>2 DEF Inside, Gated
  <2>3. ASSUME NEW q \in Requests, q # r, req'[q].revoked
        PROVE  /\ req'[q].subject \in born' \ Rows'
               /\ req'[q].pc \notin {"setupCount", "setupInsert", "loginFind"}
               /\ ~Inside(q)'
    BY <1>0, <2>3 DEF IInv, RevokedInv, Inside
  <2> QED BY <2>2, <2>3 DEF RevokedInv
<1> QED BY <1>1, <1>2, <1>3, <1>4 DEF IInv

\* A new row: the id is the creator's own, and no deleted account returns.
LEMMA InsertKeepsIInv ==
  ASSUME IInv, NEW r \in Requests, Insert(r), Creating(r), cookie' = cookie,
         NEW a \in {"set", "keep"}, Answer(r, a)
  PROVE  IInv'
<1> DEFINE i == req[r].arg
<1>0. /\ req[r] \in RequestType /\ i \in Ids \ born /\ req[r].name \in Names
      /\ \A q \in Requests : q # r => req[q].arg # i
      /\ req[r].name # None
  BY AccountAssumption DEF IInv, TypeOK, CreatorInv
<1>1. /\ \A q \in Requests : q # r => req'[q] = req[q]
      /\ req'[r] = [req[r] EXCEPT !.pc = "reply", !.answer = a]
      /\ users' = [users EXCEPT ![i] = req[r].name] /\ born' = born \cup {i}
  BY DEF Answer, Insert, IInv, TypeOK
<1>2. Rows' = Rows \cup {i}
  BY <1>0, <1>1 DEF Rows, IInv, TypeOK
<1>3. /\ req'[r].pc = "reply" /\ req'[r].arg = i /\ req'[r].op = req[r].op
      /\ req'[r].subject = req[r].subject /\ req'[r].revoked = req[r].revoked
      /\ req'[r].client = req[r].client /\ req'[r].answer = a
      /\ req'[r] \in RequestType
  BY <1>0, <1>1 DEF RequestType, PC
<1>4. TypeOK'
  <2>1. req' \in [Requests -> RequestType]
    BY <1>0, <1>3 DEF Answer, IInv, TypeOK
  <2>2. users' \in [Ids -> Names \cup {None}]
    BY <1>0, <1>1 DEF IInv, TypeOK
  <2>3. cookie' \in [Clients -> born' \cup {None}]
    BY <1>1 DEF IInv, TypeOK
  <2> QED BY <1>0, <1>1, <1>2, <2>1, <2>2, <2>3 DEF IInv, TypeOK
<1>5. CreatorInv'
  <2> SUFFICES ASSUME NEW q \in Requests, Creating(q)'
               PROVE  /\ req'[q].arg \in Ids \ born'
                      /\ req'[q].name \in Names
                      /\ \A s \in Requests : s # q => req'[s].arg # req'[q].arg
    BY DEF CreatorInv
  <2>1. q # r /\ req'[q] = req[q] /\ Creating(q)
    BY <1>1, <1>3 DEF Creating
  <2>2. /\ req[q].arg \in Ids \ born /\ req[q].name \in Names
        /\ \A s \in Requests : s # q => req[s].arg # req[q].arg
    BY <2>1 DEF IInv, CreatorInv
  <2>3. req[q].arg # i
    BY <1>0, <2>1
  <2>4. \A s \in Requests : s # q => req'[s].arg # req'[q].arg
    <3> SUFFICES ASSUME NEW s \in Requests, s # q PROVE req'[s].arg # req'[q].arg
      OBVIOUS
    <3>1. req'[s].arg = req[s].arg
      <4>1. CASE s = r
        BY <1>3, <4>1
      <4>2. CASE s # r
        BY <1>1, <4>2
      <4> QED BY <4>1, <4>2
    <3>2. req[s].arg # req[q].arg
      BY <2>2
    <3> QED BY <2>1, <3>1, <3>2
  <2> QED BY <1>1, <2>1, <2>2, <2>3, <2>4
<1>6. HandlerInv'
  <2> SUFFICES ASSUME NEW q \in Requests PROVE HandlerOK(q)'
    BY DEF HandlerInv
  <2>1. CASE q = r
    <3>1. req[r].op \in {"setup", "add"} /\ req[r].pc # "idle" /\ HandlerOK(r)
      BY DEF Creating, IInv, HandlerInv
    <3>2. i \in born'
      BY <1>1
    <3> QED BY <1>3, <2>1, <3>1, <3>2 DEF HandlerOK
  <2>2. CASE q # r
    BY <1>1, <2>2 DEF IInv, HandlerInv, HandlerOK, Gated
  <2> QED BY <2>1, <2>2
<1>7. RevokedInv'
  <2> SUFFICES ASSUME NEW q \in Requests, req'[q].revoked
               PROVE  /\ req'[q].subject \in born' \ Rows'
                      /\ req'[q].pc \notin {"setupCount", "setupInsert", "loginFind"}
                      /\ ~Inside(q)'
    BY DEF RevokedInv
  <2>1. req[q].revoked /\ req'[q].subject = req[q].subject
    BY <1>1, <1>3
  <2>2. req[q].subject \in born \ Rows
    BY <2>1 DEF IInv, RevokedInv
  <2>3. req'[q].subject \in born' \ Rows'
    BY <1>0, <1>1, <1>2, <2>1, <2>2
  <2> QED BY <1>1, <1>3, <2>1, <2>3 DEF IInv, RevokedInv, Inside
<1> QED BY <1>4, <1>5, <1>6, <1>7 DEF IInv

\* A successful login: the answer names an account that has a row.
LEMMA LoginKeepsIInv ==
  ASSUME IInv, NEW r \in Requests, req[r].pc = "loginFind", NEW i \in Rows,
         req' = [req EXCEPT ![r] = [@ EXCEPT !.pc = "reply", !.answer = "set", !.arg = i]],
         UNCHANGED <<users, cookie, born>>
  PROVE  IInv'
<1>0. /\ req[r] \in RequestType /\ i \in born /\ i \in Ids /\ Rows' = Rows
      /\ \A q \in Requests : q # r => req'[q] = req[q]
      /\ req'[r] = [req[r] EXCEPT !.pc = "reply", !.answer = "set", !.arg = i]
      /\ ~req[r].revoked /\ HandlerOK(r) /\ born' = born
  BY DEF IInv, TypeOK, Rows, RevokedInv, HandlerInv
<1>1. /\ req'[r].pc = "reply" /\ req'[r].arg = i /\ req'[r].op = req[r].op
      /\ req'[r].revoked = req[r].revoked /\ req'[r].answer = "set"
      /\ req'[r].client = req[r].client /\ req'[r].subject = req[r].subject
      /\ req'[r].name = req[r].name
  <2> DEFINE old == req[r]
             new == req'[r]
  <2>1. old \in RequestType /\ new = [old EXCEPT !.pc = "reply", !.answer = "set", !.arg = i]
    BY <1>0
  <2> HIDE DEF old, new
  <2>2. /\ new.pc = "reply" /\ new.arg = i /\ new.op = old.op
        /\ new.revoked = old.revoked /\ new.answer = "set"
        /\ new.client = old.client /\ new.subject = old.subject /\ new.name = old.name
    BY <2>1 DEF RequestType
  <2> QED BY <2>2 DEF old, new
<1>1a. req'[r] \in RequestType
  <2> DEFINE x == [req[r] EXCEPT !.pc = "reply", !.answer = "set"]
  <2>1. x \in RequestType
    BY <1>0 DEF RequestType, PC
  <2>2. req'[r] = [x EXCEPT !.arg = i]
    BY <1>0
  <2> HIDE DEF x
  <2> QED BY <1>0, <2>1, <2>2 DEF RequestType
<1>2. TypeOK'
  <2>1. req' \in [Requests -> RequestType]
    BY <1>1a DEF IInv, TypeOK
  <2> QED BY <1>0, <2>1 DEF IInv, TypeOK
<1>3. CreatorInv'
  <2> SUFFICES ASSUME NEW q \in Requests, Creating(q)'
               PROVE  /\ req'[q].arg \in Ids \ born'
                      /\ req'[q].name \in Names
                      /\ \A s \in Requests : s # q => req'[s].arg # req'[q].arg
    BY DEF CreatorInv
  <2>1. q # r /\ req'[q] = req[q] /\ Creating(q)
    BY <1>0, <1>1 DEF Creating
  <2>2. /\ req[q].arg \in Ids \ born /\ req[q].name \in Names
        /\ \A s \in Requests : s # q => req[s].arg # req[q].arg
    BY <2>1 DEF IInv, CreatorInv
  <2>3. ASSUME NEW s \in Requests, s # q PROVE req'[s].arg # req'[q].arg
    <3>1. req'[s].arg = req[s].arg \/ req'[s].arg \in born
      BY <1>0, <1>1
    <3> QED BY <2>1, <2>2, <2>3, <3>1
  <2> QED BY <1>0, <2>1, <2>2, <2>3
<1>4. HandlerInv'
  <2>1. HandlerOK(r)'
    BY <1>0, <1>1 DEF HandlerOK
  <2>2. ASSUME NEW q \in Requests, q # r PROVE HandlerOK(q)'
    BY <1>0, <2>2 DEF IInv, HandlerInv, HandlerOK
  <2> QED BY <2>1, <2>2 DEF HandlerInv
<1>5. RevokedInv'
  BY <1>0, <1>1 DEF IInv, RevokedInv, Inside
<1> QED BY <1>2, <1>3, <1>4, <1>5 DEF IInv

\* A deletion: a revoked account stays revoked, another may become so.
LEMMA DeleteKeepsIInv ==
  ASSUME IInv, NEW r \in Requests, DelDelete(r)
  PROVE  IInv'
<1> DEFINE i == req[r].arg
<1>0. /\ req[r] \in RequestType /\ HandlerOK(r) /\ i \in Ids
      /\ req[r].op = "delete" /\ ~req[r].revoked /\ req[r].pc # "idle"
  BY DEF IInv, TypeOK, HandlerInv, HandlerOK, DelDelete, RevokedInv, Inside
<1>1. /\ \A q \in Requests : q # r => req'[q] = req[q]
      /\ req'[r] = [req[r] EXCEPT !.pc = "reply", !.answer = "keep"]
      /\ users' = [users EXCEPT ![i] = None] /\ cookie' = cookie /\ born' = born
  BY DEF DelDelete, Answer, IInv, TypeOK
<1>2. Rows' = Rows \ {i}
  BY <1>0, <1>1 DEF Rows, IInv, TypeOK
<1>3. /\ req'[r].pc = "reply" /\ req'[r].arg = i /\ req'[r].op = req[r].op
      /\ req'[r].revoked = req[r].revoked /\ req'[r].answer = "keep"
      /\ req'[r].client = req[r].client /\ req'[r] \in RequestType
  BY <1>0, <1>1 DEF RequestType, PC
<1>4. TypeOK'
  <2>1. req' \in [Requests -> RequestType]
    BY <1>3 DEF DelDelete, Answer, IInv, TypeOK
  <2>2. users' \in [Ids -> Names \cup {None}]
    BY <1>1 DEF IInv, TypeOK
  <2> QED BY <1>1, <1>2, <2>1, <2>2 DEF IInv, TypeOK
<1>5. CreatorInv'
  <2> SUFFICES ASSUME NEW q \in Requests, Creating(q)'
               PROVE  /\ req'[q].arg \in Ids \ born'
                      /\ req'[q].name \in Names
                      /\ \A s \in Requests : s # q => req'[s].arg # req'[q].arg
    BY DEF CreatorInv
  <2>1. q # r /\ req'[q] = req[q] /\ Creating(q)
    BY <1>1, <1>3 DEF Creating
  <2>2. /\ req[q].arg \in Ids \ born /\ req[q].name \in Names
        /\ \A s \in Requests : s # q => req[s].arg # req[q].arg
    BY <2>1 DEF IInv, CreatorInv
  <2>3. ASSUME NEW s \in Requests, s # q PROVE req'[s].arg # req'[q].arg
    <3>1. req'[s].arg = req[s].arg
      BY <1>1, <1>3
    <3> QED BY <2>1, <2>2, <2>3, <3>1
  <2> QED BY <1>1, <2>1, <2>2, <2>3
<1>6. HandlerInv'
  <2>1. HandlerOK(r)'
    BY <1>0, <1>3 DEF HandlerOK
  <2>2. ASSUME NEW q \in Requests, q # r PROVE HandlerOK(q)'
    BY <1>1, <2>2 DEF IInv, HandlerInv, HandlerOK
  <2> QED BY <2>1, <2>2 DEF HandlerInv
<1>7. RevokedInv'
  BY <1>0, <1>1, <1>2, <1>3 DEF IInv, RevokedInv, Inside
<1> QED BY <1>4, <1>5, <1>6, <1>7 DEF IInv

\* The end of a request: the slot is free, and a cookie may have changed.
LEMMA EndKeepsIInv ==
  ASSUME IInv, NEW r \in Requests, req' = [req EXCEPT ![r] = Idle],
         UNCHANGED <<users, born>>, cookie' \in [Clients -> born \cup {None}]
  PROVE  IInv'
<1>0. /\ Rows' = Rows /\ req'[r] = Idle /\ Idle \in RequestType
      /\ \A q \in Requests : q # r => req'[q] = req[q]
  BY DEF IInv, TypeOK, Rows, Idle, RequestType, PC, Gated
<1>1. TypeOK'
  BY <1>0 DEF IInv, TypeOK
<1>2. /\ Idle.pc = "idle" /\ Idle.op = "none" /\ Idle.arg = None /\ Idle.answer = "keep"
      /\ ~Idle.revoked
  BY DEF Idle
<1>3. CreatorInv'
  <2> SUFFICES ASSUME NEW q \in Requests, Creating(q)'
               PROVE  /\ req'[q].arg \in Ids \ born'
                      /\ req'[q].name \in Names
                      /\ \A s \in Requests : s # q => req'[s].arg # req'[q].arg
    BY DEF CreatorInv
  <2>1. q # r /\ req'[q] = req[q] /\ Creating(q)
    BY <1>0, <1>2 DEF Creating
  <2>2. /\ req[q].arg \in Ids \ born /\ req[q].name \in Names
        /\ \A s \in Requests : s # q => req[s].arg # req[q].arg
    BY <2>1 DEF IInv, CreatorInv
  <2>3. ASSUME NEW s \in Requests, s # q PROVE req'[s].arg # req'[q].arg
    BY <1>0, <1>2, <2>1, <2>2, <2>3, AccountAssumption
  <2> QED BY <2>1, <2>2, <2>3
<1>4. HandlerInv'
  <2>1. HandlerOK(r)'
    BY <1>0, <1>2 DEF HandlerOK
  <2>2. ASSUME NEW q \in Requests, q # r PROVE HandlerOK(q)'
    BY <1>0, <2>2 DEF IInv, HandlerInv, HandlerOK
  <2> QED BY <2>1, <2>2 DEF HandlerInv
<1>5. RevokedInv'
  BY <1>0, <1>2 DEF IInv, RevokedInv, Inside
<1> QED BY <1>1, <1>3, <1>4, <1>5 DEF IInv

LEMMA NextKeepsIInv == IInv /\ [Next]_vars => IInv'
<1> SUFFICES ASSUME IInv, [Next]_vars PROVE IInv'
  OBVIOUS
<1>0. \A r \in Requests : /\ HandlerOK(r)
                          /\ req[r].revoked => req[r].pc \in {"idle", "gateCount", "gateFind", "reply"}
  <2> SUFFICES ASSUME NEW r \in Requests
               PROVE  /\ HandlerOK(r)
                      /\ req[r].revoked => req[r].pc \in {"idle", "gateCount", "gateFind", "reply"}
    OBVIOUS
  <2>1. req[r].pc \in PC /\ HandlerOK(r)
    BY DEF IInv, TypeOK, RequestType, HandlerInv
  <2>2. req[r].revoked => /\ req[r].pc \notin {"setupCount", "setupInsert", "loginFind"}
                          /\ ~Inside(r)
    BY DEF IInv, RevokedInv
  <2> QED BY <2>1, <2>2 DEF Inside, PC
<1>1. ASSUME NEW r \in Requests, NEW c \in Clients, Arrive(r, c)
      PROVE  IInv'
  <2>0. born \subseteq Ids /\ Fresh \subseteq Ids
    BY DEF IInv, TypeOK, Fresh
  <2>1. CASE ArriveSetup(r, c)
    <3>1. PICK i \in Fresh, n \in Names : Begin(r, "setup", c, i, n, "setupCount")
      BY <2>1 DEF ArriveSetup
    <3> QED BY <2>0, <3>1, BeginKeepsIInv
  <2>2. CASE ArriveLogin(r, c)
    <3>1. PICK n \in Names : Begin(r, "login", c, None, n, "loginFind")
      BY <2>2 DEF ArriveLogin
    <3> QED BY <3>1, BeginKeepsIInv
  <2>3. CASE ArriveLogout(r, c)
    BY <2>3, BeginKeepsIInv DEF ArriveLogout
  <2>4. CASE ArriveAdd(r, c)
    <3>1. PICK i \in Fresh, n \in Names : Begin(r, "add", c, i, n, "gateCount")
      BY <2>4 DEF ArriveAdd
    <3> QED BY <2>0, <3>1, BeginKeepsIInv DEF Gated
  <2>5. CASE ArriveDelete(r, c)
    <3>1. PICK i \in born : Begin(r, "delete", c, i, None, "gateCount")
      BY <2>5 DEF ArriveDelete
    <3> QED BY <2>0, <3>1, BeginKeepsIInv DEF Gated
  <2>6. CASE ArriveList(r, c)
    BY <2>6, BeginKeepsIInv DEF ArriveList, Gated
  <2> QED BY <1>1, <2>1, <2>2, <2>3, <2>4, <2>5, <2>6 DEF Arrive
<1>2. ASSUME NEW r \in Requests, Handle(r)
      PROVE  IInv'
  <2>0. req[r].pc \in PC /\ HandlerOK(r) /\ "reply" \in PC
    BY <1>0 DEF IInv, TypeOK, RequestType, PC
  <2>1. CASE GateCount(r)
    <3>1. req[r].pc # "idle" /\ req[r].pc # "reply" /\ req[r].op \in Gated /\ "gateFind" \in PC
      BY <2>0, <2>1 DEF GateCount, HandlerOK, PC
    <3>2. CASE Answer(r, "keep")
      BY <2>0, <2>1, <3>1, <3>2, AnswerKeepsIInv DEF GateCount
    <3>3. CASE Goto(r, "gateFind")
      BY <2>1, <3>1, <3>3, GotoKeepsIInv DEF GateCount, Onward, Gated
    <3> QED BY <2>1, <3>2, <3>3 DEF GateCount
  <2>2. CASE GateFind(r)
    <3>1. req[r].pc # "idle" /\ req[r].pc # "reply" /\ req[r].op \in Gated
      BY <2>0, <2>2 DEF GateFind, HandlerOK
    <3>2. CASE req[r].subject \in Rows
      <4>1. ~req[r].revoked
        BY <3>2 DEF IInv, RevokedInv
      <4>2. /\ Body(req[r].op) \in PC
            /\ \/ Body(req[r].op) = "addFind" /\ req[r].op = "add"
               \/ Body(req[r].op) = "delFind" /\ req[r].op = "delete"
               \/ Body(req[r].op) = "list"
        BY <3>1 DEF Body, PC, Gated
      <4>3. Goto(r, Body(req[r].op)) /\ UNCHANGED <<users, cookie, born>>
        BY <2>2, <3>2 DEF GateFind
      <4>4. Onward(r, Body(req[r].op))
        BY <3>1, <4>1, <4>2 DEF Onward
      <4> QED BY <4>3, <4>4, GotoKeepsIInv
    <3>3. CASE req[r].subject \notin Rows
      BY <2>0, <2>2, <3>1, <3>3, AnswerKeepsIInv DEF GateFind
    <3> QED BY <3>2, <3>3
  <2>3. CASE SetupCount(r)
    <3>1. /\ req[r].pc # "idle" /\ req[r].pc # "reply" /\ req[r].op = "setup" /\ ~req[r].revoked
          /\ "setupInsert" \in PC
      BY <1>0, <2>0, <2>3 DEF SetupCount, HandlerOK, PC
    <3>2. CASE Answer(r, "keep")
      BY <2>0, <2>3, <3>1, <3>2, AnswerKeepsIInv DEF SetupCount
    <3>3. CASE Goto(r, "setupInsert")
      BY <2>3, <3>1, <3>3, GotoKeepsIInv DEF SetupCount, Onward, Gated
    <3> QED BY <2>3, <3>2, <3>3 DEF SetupCount
  <2>4. CASE SetupInsert(r)
    <3>1. PICK a \in {"set", "keep"} : Answer(r, a)
      BY <2>4 DEF SetupInsert
    <3>2. Creating(r)
      BY <2>0, <2>4 DEF SetupInsert, HandlerOK, Creating
    <3> QED BY <2>4, <3>1, <3>2, InsertKeepsIInv DEF SetupInsert
  <2>5. CASE LoginFind(r)
    <3>1. req[r].pc # "idle" /\ ~req[r].revoked
      BY <1>0, <2>5 DEF LoginFind
    <3>2. CASE Answer(r, "keep")
      BY <2>0, <2>5, <3>1, <3>2, AnswerKeepsIInv DEF LoginFind
    <3>3. ASSUME NEW i \in Rows,
                 req' = [req EXCEPT ![r] = [@ EXCEPT !.pc = "reply", !.answer = "set", !.arg = i]]
          PROVE  IInv'
      BY <2>5, <3>3, LoginKeepsIInv DEF LoginFind
    <3> QED BY <2>5, <3>2, <3>3 DEF LoginFind
  <2>6. CASE AddFind(r)
    <3>1. /\ req[r].pc # "idle" /\ req[r].pc # "reply" /\ req[r].op = "add" /\ ~req[r].revoked
          /\ "addInsert" \in PC
      BY <1>0, <2>0, <2>6 DEF AddFind, HandlerOK, PC
    <3>2. CASE Answer(r, "keep")
      BY <2>0, <2>6, <3>1, <3>2, AnswerKeepsIInv DEF AddFind
    <3>3. CASE Goto(r, "addInsert")
      BY <2>6, <3>1, <3>3, GotoKeepsIInv DEF AddFind, Onward, Gated
    <3> QED BY <2>6, <3>2, <3>3 DEF AddFind
  <2>7. CASE AddInsert(r)
    <3>1. Creating(r)
      BY <2>0, <2>7 DEF AddInsert, HandlerOK, Creating
    <3> QED BY <2>7, <3>1, InsertKeepsIInv DEF AddInsert
  <2>8. CASE DelFind(r)
    <3>1. /\ req[r].pc # "idle" /\ req[r].pc # "reply" /\ req[r].op = "delete" /\ ~req[r].revoked
          /\ "delCount" \in PC
      BY <1>0, <2>0, <2>8 DEF DelFind, HandlerOK, PC
    <3>2. CASE Answer(r, "keep")
      BY <2>0, <2>8, <3>1, <3>2, AnswerKeepsIInv DEF DelFind
    <3>3. CASE Goto(r, "delCount")
      BY <2>8, <3>1, <3>3, GotoKeepsIInv DEF DelFind, Onward, Gated
    <3> QED BY <2>8, <3>2, <3>3 DEF DelFind
  <2>9. CASE DelCount(r)
    <3>1. /\ req[r].pc # "idle" /\ req[r].pc # "reply" /\ req[r].op = "delete" /\ ~req[r].revoked
          /\ "delDelete" \in PC
      BY <1>0, <2>0, <2>9 DEF DelCount, HandlerOK, PC
    <3>2. CASE Answer(r, "keep")
      BY <2>0, <2>9, <3>1, <3>2, AnswerKeepsIInv DEF DelCount
    <3>3. CASE Goto(r, "delDelete")
      BY <2>9, <3>1, <3>3, GotoKeepsIInv DEF DelCount, Onward, Gated
    <3> QED BY <2>9, <3>2, <3>3 DEF DelCount
  <2>10. CASE DelDelete(r)
    BY <2>10, DeleteKeepsIInv
  <2>11. CASE List(r)
    <3>1. req[r].pc # "idle"
      BY <2>11 DEF List
    <3> QED BY <2>0, <2>11, <3>1, AnswerKeepsIInv DEF List
  <2>12. CASE StatementFails(r)
    <3>1. req[r].pc # "idle" /\ req[r].pc # "reply"
      BY <2>12 DEF StatementFails
    <3>2. CASE req[r].pc = "gateFind"
      BY <2>0, <2>12, <3>1, <3>2, AnswerKeepsIInv DEF StatementFails
    <3>3. CASE req[r].pc = "addFind"
      <4>1. req[r].op = "add" /\ ~req[r].revoked /\ "addInsert" \in PC
        BY <1>0, <2>0, <3>3 DEF HandlerOK, PC
      <4>2. Goto(r, "addInsert") /\ UNCHANGED <<users, cookie, born>>
        BY <2>12, <3>3 DEF StatementFails
      <4> QED BY <3>1, <4>1, <4>2, GotoKeepsIInv DEF Onward
    <3>4. CASE req[r].pc \notin {"gateFind", "addFind"}
      BY <2>0, <2>12, <3>1, <3>4, AnswerKeepsIInv DEF StatementFails
    <3> QED BY <3>2, <3>3, <3>4
  <2> QED BY <1>2, <2>1, <2>2, <2>3, <2>4, <2>5, <2>6, <2>7, <2>8, <2>9, <2>10, <2>11, <2>12
          DEF Handle
<1>3. ASSUME NEW r \in Requests, Respond(r)
      PROVE  IInv'
  <2>1. req[r].pc = "reply" /\ HandlerOK(r)
    BY <1>0, <1>3 DEF Respond
  <2>2. /\ req[r].client \in Clients
        /\ req[r].answer = "set" => req[r].arg \in born
    BY <2>1 DEF HandlerOK
  <2>3. cookie' \in [Clients -> born \cup {None}]
    BY <1>3, <2>2 DEF Respond, IInv, TypeOK
  <2> QED BY <1>3, <2>3, EndKeepsIInv DEF Respond
<1>4. ASSUME NEW r \in Requests, ResponseLost(r)
      PROVE  IInv'
  <2>1. cookie' \in [Clients -> born \cup {None}]
    BY <1>4 DEF ResponseLost, IInv, TypeOK
  <2> QED BY <1>4, <2>1, EndKeepsIInv DEF ResponseLost
<1>5. ASSUME NEW c \in Clients, CookieExpires(c)
      PROVE  IInv'
  <2>1. cookie' \in [Clients -> born \cup {None}] /\ UNCHANGED <<users, req, born>>
    BY <1>5 DEF CookieExpires, IInv, TypeOK
  <2> QED BY <2>1 DEF IInv, TypeOK, CreatorInv, HandlerInv, HandlerOK, RevokedInv, Rows, Creating, Inside
<1>6. CASE UNCHANGED vars
  BY <1>6 DEF vars, IInv, TypeOK, CreatorInv, HandlerInv, HandlerOK, RevokedInv, Rows, Creating, Inside
<1> QED BY <1>1, <1>2, <1>3, <1>4, <1>5, <1>6 DEF Next

-----------------------------------------------------------------------------
(* Theorems. *)

(* The table, the cookies and the request slots are well formed, and a cookie
   only ever names an account that was created (session.Manager.SetCookie is
   called with the id of a row that was inserted or found). *)
THEOREM TypeCorrect == Spec => []TypeOK
<1>1. IInv => TypeOK
  BY DEF IInv
<1> QED BY <1>1, InitIInv, NextKeepsIInv, PTL DEF Spec

(* A request sent with the session of a deleted account never passes
   requireAdminSession, for any number of requests, browsers and accounts. *)
THEOREM RevokedStaysOutAlways == Spec => []RevokedStaysOut
<1>1. IInv => RevokedStaysOut
  BY DEF IInv, RevokedInv, RevokedStaysOut
<1> QED BY <1>1, InitIInv, NextKeepsIInv, PTL DEF Spec

\* Only an insert and a deletion touch the table.
LEMMA TableSteps ==
  ASSUME IInv, [Next]_vars
  PROVE  \/ users' = users /\ born' = born
         \/ \E r \in Requests : /\ SetupInsert(r) \/ AddInsert(r)
                               /\ Insert(r) /\ Creating(r)
                               /\ \E a \in {"set", "keep"} : Answer(r, a)
         \/ \E r \in Requests : DelDelete(r)
<1> DEFINE Goal == \/ users' = users /\ born' = born
                   \/ \E r \in Requests : /\ SetupInsert(r) \/ AddInsert(r)
                                         /\ Insert(r) /\ Creating(r)
                                         /\ \E a \in {"set", "keep"} : Answer(r, a)
                   \/ \E r \in Requests : DelDelete(r)
<1>1. ASSUME NEW r \in Requests, NEW c \in Clients, Arrive(r, c) PROVE Goal
  BY <1>1 DEF Arrive, ArriveSetup, ArriveLogin, ArriveLogout, ArriveAdd, ArriveDelete, ArriveList, Begin
<1>2. ASSUME NEW r \in Requests, Handle(r) PROVE Goal
  <2>1. CASE SetupInsert(r) \/ AddInsert(r)
    <3>1. Creating(r)
      BY <2>1 DEF SetupInsert, AddInsert, IInv, HandlerInv, HandlerOK, Creating
    <3> QED BY <2>1, <3>1 DEF SetupInsert, AddInsert
  <2>2. CASE DelDelete(r)
    BY <2>2
  <2>3. CASE ~(SetupInsert(r) \/ AddInsert(r) \/ DelDelete(r))
    BY <1>2, <2>3 DEF Handle, GateCount, GateFind, SetupCount, LoginFind, AddFind, DelFind, DelCount,
                      List, StatementFails
  <2> QED BY <2>1, <2>2, <2>3
<1>3. ASSUME NEW r \in Requests, Respond(r) \/ ResponseLost(r) PROVE Goal
  BY <1>3 DEF Respond, ResponseLost
<1>4. ASSUME NEW c \in Clients, CookieExpires(c) PROVE Goal
  BY <1>4 DEF CookieExpires
<1>5. CASE UNCHANGED vars
  BY <1>5 DEF vars
<1> QED BY <1>1, <1>2, <1>3, <1>4, <1>5 DEF Next

\* No step makes two accounts share a username.
LEMMA StepKeepsUsernames ==
  ASSUME IInv, UsernamesUnique, [Next]_vars PROVE UsernamesUnique'
<1>1. CASE users' = users
  BY <1>1 DEF UsernamesUnique, Rows
<1>2. ASSUME NEW r \in Requests, Insert(r), Creating(r) PROVE UsernamesUnique'
  <2> DEFINE i == req[r].arg
  <2>1. /\ i \in Ids \ born /\ Rows \subseteq born /\ req[r].name # None
        /\ users' = [users EXCEPT ![i] = req[r].name]
    BY <1>2, AccountAssumption DEF IInv, TypeOK, CreatorInv, Insert
  <2>2. /\ users'[i] = req[r].name
        /\ \A j \in Ids : j # i => users'[j] = users[j]
        /\ Rows' = Rows \cup {i}
    BY <2>1 DEF Rows, IInv, TypeOK
  <2>3. \A j \in Rows : users[j] # req[r].name
    BY <1>2 DEF Insert, Taken
  <2>4. \A j \in Rows : j \in Ids /\ j # i
    BY <2>1 DEF Rows
  <2> QED BY <2>2, <2>3, <2>4 DEF UsernamesUnique
<1>3. ASSUME NEW r \in Requests, DelDelete(r) PROVE UsernamesUnique'
  <2>1. \A j \in Ids : users'[j] # None => users'[j] = users[j]
    BY <1>3 DEF DelDelete, IInv, TypeOK
  <2> QED BY <2>1 DEF UsernamesUnique, Rows
<1> QED BY <1>1, <1>2, <1>3, TableSteps

(* Usernames stay unique although AddAdminUser checks and inserts in two
   statements, and RegisterAdminUser does not check at all: for any number of
   concurrent requests, the constraint of the table decides. *)
THEOREM UsernamesStayUnique == Spec => []UsernamesUnique
<1>1. Init => UsernamesUnique
  BY DEF Init, UsernamesUnique, Rows
<1> QED BY <1>1, StepKeepsUsernames, InitIInv, NextKeepsIInv, PTL DEF Spec

-----------------------------------------------------------------------------
(* The last account, when deletions do not overlap. *)

OneDeletion == \A q, r \in Requests : req[q].op = "delete" /\ req[r].op = "delete" => q = r

(* Why the count of DeleteAdminUser is enough without overlap: between the
   count and the delete of the only deletion, accounts are only added. *)
LastAdminInv == /\ OneDeletion
                /\ \A r \in Requests : req[r].pc = "delDelete" => Cardinality(Rows) >= 2
                /\ LastAdminStays

LEMMA RowsFinite == IsFiniteSet(Rows) /\ Cardinality(Rows) \in Nat
<1>1. Rows \in SUBSET Ids
  BY DEF Rows
<1>2. IsFiniteSet(Rows)
  BY <1>1, FS_Subset, AccountAssumption
<1> QED BY <1>2, FS_CardinalityType

\* What a statement does to the request slots.
LEMMA HandleShape ==
  ASSUME IInv, NEW r \in Requests, Handle(r)
  PROVE  /\ req'[r].op = req[r].op
         /\ \A s \in Requests : s # r => req'[s] = req[s]
         /\ req'[r].pc = "delDelete" => DelCount(r) /\ Cardinality(Rows) > 1
<1>0. req \in [Requests -> RequestType] /\ req[r] \in RequestType
  BY DEF IInv, TypeOK
<1>1. ASSUME NEW pc, Goto(r, pc), pc = "delDelete" => DelCount(r) /\ Cardinality(Rows) > 1
      PROVE  /\ req'[r].op = req[r].op
             /\ \A s \in Requests : s # r => req'[s] = req[s]
             /\ req'[r].pc = "delDelete" => DelCount(r) /\ Cardinality(Rows) > 1
  BY <1>0, <1>1 DEF Goto, RequestType
<1>2. ASSUME NEW a, Answer(r, a)
      PROVE  /\ req'[r].op = req[r].op
             /\ \A s \in Requests : s # r => req'[s] = req[s]
             /\ req'[r].pc = "delDelete" => DelCount(r) /\ Cardinality(Rows) > 1
  BY <1>0, <1>2 DEF Answer, RequestType
<1>3. CASE GateCount(r)
  BY <1>1, <1>2, <1>3 DEF GateCount
<1>4. CASE GateFind(r)
  <2>1. Body(req[r].op) # "delDelete"
    BY DEF Body
  <2> QED BY <1>1, <1>2, <1>4, <2>1 DEF GateFind
<1>5. CASE SetupCount(r)
  BY <1>1, <1>2, <1>5 DEF SetupCount
<1>6. CASE SetupInsert(r) \/ AddInsert(r) \/ DelDelete(r) \/ List(r)
  BY <1>2, <1>6 DEF SetupInsert, AddInsert, DelDelete, List
<1>7. CASE LoginFind(r)
  <2>1. ASSUME NEW i,
               req' = [req EXCEPT ![r] = [@ EXCEPT !.pc = "reply", !.answer = "set", !.arg = i]]
        PROVE  /\ req'[r].op = req[r].op /\ req'[r].pc = "reply"
               /\ \A s \in Requests : s # r => req'[s] = req[s]
    <3>1. /\ req'[r] = [req[r] EXCEPT !.pc = "reply", !.answer = "set", !.arg = i]
          /\ \A s \in Requests : s # r => req'[s] = req[s]
      BY <1>0, <2>1
    <3> QED BY <1>0, <3>1 DEF RequestType
  <2> QED BY <1>2, <1>7, <2>1 DEF LoginFind
<1>8. CASE AddFind(r) \/ DelFind(r)
  BY <1>1, <1>2, <1>8 DEF AddFind, DelFind
<1>9. CASE DelCount(r)
  BY <1>1, <1>2, <1>9 DEF DelCount
<1>10. CASE StatementFails(r)
  BY <1>1, <1>2, <1>10 DEF StatementFails
<1> QED BY <1>3, <1>4, <1>5, <1>6, <1>7, <1>8, <1>9, <1>10 DEF Handle

\* A slot turns into a deletion only by ArriveDelete, ...
LEMMA DeletionArrives ==
  ASSUME IInv, [Next]_vars, NEW q \in Requests, req'[q].op = "delete", req[q].op # "delete"
  PROVE  /\ \E c \in Clients : ArriveDelete(q, c)
         /\ req'[q].pc = "gateCount"
         /\ \A r \in Requests : r # q => req'[r] = req[r]
<1> DEFINE Goal == /\ \E c \in Clients : ArriveDelete(q, c)
                   /\ req'[q].pc = "gateCount"
                   /\ \A r \in Requests : r # q => req'[r] = req[r]
<1>0. req \in [Requests -> RequestType]
  BY DEF IInv, TypeOK
<1>1. ASSUME NEW r \in Requests, NEW c \in Clients, Arrive(r, c) PROVE Goal
  <2>1. CASE ArriveDelete(r, c)
    <3>1. req'[r].pc = "gateCount" /\ \A s \in Requests : s # r => req'[s] = req[s]
      BY <1>0, <2>1 DEF ArriveDelete, Begin
    <3>2. q = r
      BY <3>1
    <3> QED BY <2>1, <3>1, <3>2
  <2>2. CASE ~ArriveDelete(r, c)
    <3>1. PICK op \in {"setup", "login", "logout", "add", "list"},
               i \in Ids \cup {None}, n \in Names \cup {None}, pc \in PC : Begin(r, op, c, i, n, pc)
      BY <1>1, <2>2 DEF Arrive, ArriveSetup, ArriveLogin, ArriveLogout, ArriveAdd, ArriveList, Fresh, PC
    <3>2. req'[r].op = op /\ \A s \in Requests : s # r => req'[s] = req[s]
      BY <1>0, <3>1 DEF Begin
    <3> QED BY <3>2
  <2> QED BY <2>1, <2>2
<1>2. ASSUME NEW r \in Requests, Handle(r) PROVE Goal
  <2>1. req'[r].op = req[r].op /\ \A s \in Requests : s # r => req'[s] = req[s]
    BY <1>2, HandleShape
  <2> QED BY <2>1
<1>3. ASSUME NEW r \in Requests, Respond(r) \/ ResponseLost(r) PROVE Goal
  <2>1. req'[r].op = "none" /\ \A s \in Requests : s # r => req'[s] = req[s]
    BY <1>0, <1>3 DEF Respond, ResponseLost, Idle
  <2> QED BY <2>1
<1>4. ASSUME NEW c \in Clients, CookieExpires(c) PROVE Goal
  BY <1>4 DEF CookieExpires
<1>5. CASE UNCHANGED vars
  BY <1>5 DEF vars
<1> QED BY <1>1, <1>2, <1>3, <1>4, <1>5 DEF Next

\* ... and comes to its last statement only by DelCount.
LEMMA DeletionCounted ==
  ASSUME IInv, [Next]_vars, NEW q \in Requests, req'[q].pc = "delDelete"
  PROVE  \/ req[q].pc = "delDelete" /\ req'[q] = req[q]
         \/ DelCount(q) /\ Cardinality(Rows) > 1
<1> DEFINE Goal == \/ req[q].pc = "delDelete" /\ req'[q] = req[q]
                   \/ DelCount(q) /\ Cardinality(Rows) > 1
<1>0. req \in [Requests -> RequestType]
  BY DEF IInv, TypeOK
<1>1. ASSUME NEW r \in Requests, NEW c \in Clients, Arrive(r, c) PROVE Goal
  <2>1. req'[r].pc # "delDelete" /\ \A s \in Requests : s # r => req'[s] = req[s]
    BY <1>0, <1>1 DEF Arrive, ArriveSetup, ArriveLogin, ArriveLogout, ArriveAdd, ArriveDelete, ArriveList,
                      Begin
  <2> QED BY <2>1
<1>2. ASSUME NEW r \in Requests, Handle(r) PROVE Goal
  <2>1. /\ \A s \in Requests : s # r => req'[s] = req[s]
        /\ req'[r].pc = "delDelete" => DelCount(r) /\ Cardinality(Rows) > 1
    BY <1>2, HandleShape
  <2> QED BY <2>1
<1>3. ASSUME NEW r \in Requests, Respond(r) \/ ResponseLost(r) PROVE Goal
  <2>1. req'[r].pc = "idle" /\ \A s \in Requests : s # r => req'[s] = req[s]
    BY <1>0, <1>3 DEF Respond, ResponseLost, Idle
  <2> QED BY <2>1
<1>4. ASSUME NEW c \in Clients, CookieExpires(c) PROVE Goal
  BY <1>4 DEF CookieExpires
<1>5. CASE UNCHANGED vars
  BY <1>5 DEF vars
<1> QED BY <1>1, <1>2, <1>3, <1>4, <1>5 DEF Next

LEMMA InitLastAdmin == Init => LastAdminInv
<1> SUFFICES ASSUME Init PROVE LastAdminInv
  OBVIOUS
<1>1. \A r \in Requests : req[r].op = "none" /\ req[r].pc = "idle"
  BY DEF Init, Idle
<1> QED BY <1>1 DEF Init, LastAdminInv, OneDeletion, LastAdminStays

\* Without overlapping deletions every step keeps it.
LEMMA StepKeepsLastAdmin ==
  ASSUME ~DeletesOverlap, IInv, LastAdminInv, [Next]_vars PROVE LastAdminInv'
<1>1. OneDeletion'
  <2> SUFFICES ASSUME NEW q \in Requests, NEW r \in Requests, q # r,
                      req'[q].op = "delete", req'[r].op = "delete"
               PROVE  FALSE
    BY DEF OneDeletion
  <2>1. CASE req[q].op = "delete" /\ req[r].op = "delete"
    BY <2>1 DEF LastAdminInv, OneDeletion
  <2>2. CASE req[q].op # "delete"
    <3>1. PICK c \in Clients : ArriveDelete(q, c)
      BY <2>2, DeletionArrives
    <3>2. req'[r] = req[r]
      BY <2>2, DeletionArrives
    <3> QED BY <3>1, <3>2 DEF ArriveDelete
  <2>3. CASE req[r].op # "delete"
    <3>1. PICK c \in Clients : ArriveDelete(r, c)
      BY <2>3, DeletionArrives
    <3>2. req'[q] = req[q]
      BY <2>3, DeletionArrives
    <3> QED BY <3>1, <3>2 DEF ArriveDelete
  <2> QED BY <2>1, <2>2, <2>3
<1>2. ASSUME users' = users, born' = born PROVE LastAdminInv'
  <2>1. Rows' = Rows
    BY <1>2 DEF Rows
  <2>2. ASSUME NEW r \in Requests, req'[r].pc = "delDelete" PROVE Cardinality(Rows') >= 2
    BY <2>1, <2>2, DeletionCounted, RowsFinite DEF LastAdminInv
  <2> QED BY <1>1, <1>2, <2>1, <2>2 DEF LastAdminInv, LastAdminStays
<1>3. ASSUME NEW r \in Requests, Insert(r), Creating(r), NEW a, Answer(r, a) PROVE LastAdminInv'
  <2> DEFINE i == req[r].arg
  <2>1. i \in Ids \ born /\ Rows \subseteq born /\ req[r].name # None
        /\ users' = [users EXCEPT ![i] = req[r].name]
    BY <1>3, AccountAssumption DEF IInv, TypeOK, CreatorInv, Insert
  <2>2. Rows' = Rows \cup {i} /\ i \notin Rows
    BY <2>1 DEF Rows, IInv, TypeOK
  <2>3. Cardinality(Rows') = Cardinality(Rows) + 1
    BY <2>2, RowsFinite, FS_AddElement
  <2>4. ASSUME NEW q \in Requests, req'[q].pc = "delDelete" PROVE Cardinality(Rows') >= 2
    BY <2>3, <2>4, DeletionCounted, RowsFinite DEF LastAdminInv
  <2> QED BY <1>1, <2>2, <2>4 DEF LastAdminInv, LastAdminStays
<1>4. ASSUME NEW r \in Requests, DelDelete(r) PROVE LastAdminInv'
  <2>1. req[r].pc = "delDelete" /\ req[r].op = "delete" /\ req[r].arg \in Ids
    BY <1>4 DEF DelDelete, IInv, HandlerInv, HandlerOK
  <2>2. Rows' = Rows \ {req[r].arg}
    BY <1>4, <2>1 DEF DelDelete, Rows, IInv, TypeOK
  <2>3. Cardinality(Rows) >= 2
    BY <2>1 DEF LastAdminInv
  <2>4. Cardinality(Rows') >= 1 /\ IsFiniteSet(Rows')
    <3>1. /\ IsFiniteSet(Rows \ {req[r].arg})
          /\ Cardinality(Rows \ {req[r].arg}) =
               IF req[r].arg \in Rows THEN Cardinality(Rows) - 1 ELSE Cardinality(Rows)
      BY RowsFinite, FS_RemoveElement
    <3> QED BY <2>2, <2>3, <3>1, RowsFinite
  <2>5. Rows' # {}
    BY <2>4, FS_EmptySet
  <2>6. ASSUME NEW q \in Requests, req'[q].pc = "delDelete" PROVE FALSE
    <3>1. req'[r].pc = "reply"
      BY <1>4 DEF DelDelete, Answer, IInv, TypeOK, RequestType
    <3>2. q # r /\ req'[q] = req[q]
      BY <1>4, <2>6, <3>1 DEF DelDelete, Answer, IInv, TypeOK
    <3>3. req[q].op = "delete"
      BY <2>6, <3>2 DEF IInv, HandlerInv, HandlerOK
    <3> QED BY <2>1, <3>2, <3>3 DEF LastAdminInv, OneDeletion
  <2> QED BY <1>1, <2>5, <2>6 DEF LastAdminInv, LastAdminStays
<1> QED BY <1>2, <1>3, <1>4, TableSteps

(* As long as no two deletions overlap -- and whatever else runs concurrently
   -- DeleteAdminUser keeps its promise: once set up, the panel always has an
   account.  With overlap it does not (run last_admin_lost). *)
THEOREM LastAdminStaysWithoutOverlap ==
  ASSUME ~DeletesOverlap PROVE Spec => []LastAdminStays
<1>1. IInv /\ LastAdminInv /\ [Next]_vars => LastAdminInv'
  BY StepKeepsLastAdmin
<1>2. LastAdminInv => LastAdminStays
  BY DEF LastAdminInv
<1> QED BY <1>1, <1>2, InitLastAdmin, InitIInv, NextKeepsIInv, PTL DEF Spec

-----------------------------------------------------------------------------
(* The one-time setup and the atomic directory, when neither setup submissions
   nor deletions overlap. *)

OneSetup == \A q, r \in Requests : req[q].op = "setup" /\ req[r].op = "setup" => q = r

(* Why the count of RegisterAdminUser is enough without overlap: whoever else
   could insert is past the gate, and nobody passes the gate before the first
   account exists. *)
SetupInv == /\ OneSetup
            /\ \A r \in Requests : req[r].pc = "setupInsert" => born = {}
            /\ \A r \in Requests : Inside(r) => born # {}

\* A statement opens the way to an insert or past the gate only on the rows it saw.
LEMMA HandleEnters ==
  ASSUME IInv, NEW r \in Requests, Handle(r)
  PROVE  /\ req'[r].op = req[r].op
         /\ \A s \in Requests : s # r => req'[s] = req[s]
         /\ req'[r].pc = "setupInsert" => Rows = {}
         /\ Inside(r)' => Inside(r) \/ Rows # {}
<1> DEFINE Goal == /\ req'[r].pc = "setupInsert" => Rows = {}
                   /\ Inside(r)' => Inside(r) \/ Rows # {}
<1>0. req \in [Requests -> RequestType] /\ req[r] \in RequestType
  BY DEF IInv, TypeOK
<1>a. SUFFICES Goal
  BY HandleShape
<1>1. ASSUME NEW pc, Goto(r, pc), pc = "setupInsert" => Rows = {},
             Inside(r) \/ Rows # {} \/ pc = "setupInsert" \/ pc = "gateFind"
      PROVE  Goal
  BY <1>0, <1>1 DEF Goto, RequestType, Inside
<1>2. ASSUME NEW a, Answer(r, a) PROVE Goal
  <2>1. req'[r].pc = "reply"
    BY <1>0, <1>2 DEF Answer, RequestType
  <2> QED BY <2>1 DEF Inside
<1>3. CASE GateCount(r)
  BY <1>1, <1>2, <1>3 DEF GateCount
<1>4. CASE GateFind(r)
  <2>1. Body(req[r].op) # "setupInsert"
    BY DEF Body
  <2> QED BY <1>1, <1>2, <1>4, <2>1 DEF GateFind
<1>5. CASE SetupCount(r)
  BY <1>1, <1>2, <1>5 DEF SetupCount
<1>6. CASE SetupInsert(r) \/ AddInsert(r) \/ DelDelete(r) \/ List(r)
  BY <1>2, <1>6 DEF SetupInsert, AddInsert, DelDelete, List
<1>7. CASE LoginFind(r)
  <2>1. ASSUME NEW i,
               req' = [req EXCEPT ![r] = [@ EXCEPT !.pc = "reply", !.answer = "set", !.arg = i]]
        PROVE  req'[r].pc = "reply"
    <3>1. req'[r] = [req[r] EXCEPT !.pc = "reply", !.answer = "set", !.arg = i]
      BY <1>0, <2>1
    <3> QED BY <1>0, <3>1 DEF RequestType
  <2> QED BY <1>2, <1>7, <2>1 DEF LoginFind, Inside
<1>8. CASE AddFind(r) \/ DelFind(r) \/ DelCount(r)
  <2>1. Inside(r)
    BY <1>8 DEF AddFind, DelFind, DelCount, Inside
  <2> QED BY <1>1, <1>2, <1>8, <2>1 DEF AddFind, DelFind, DelCount
<1>9. CASE StatementFails(r)
  <2>1. req[r].pc = "addFind" => Inside(r)
    BY DEF Inside
  <2> QED BY <1>1, <1>2, <1>9, <2>1 DEF StatementFails
<1> QED BY <1>3, <1>4, <1>5, <1>6, <1>7, <1>8, <1>9 DEF Handle

\* What one step does to the operation and the place of a request.
LEMMA RequestMoves ==
  ASSUME IInv, [Next]_vars, NEW q \in Requests
  PROVE  /\ req'[q].pc = "setupInsert" => req[q].pc = "setupInsert" \/ Rows = {}
         /\ Inside(q)' => Inside(q) \/ Rows # {}
         /\ req'[q].op = "setup" => \/ req[q].op = "setup"
                                    \/ /\ \E c \in Clients : ArriveSetup(q, c)
                                       /\ \A r \in Requests : r # q => req'[r] = req[r]
<1> DEFINE Goal ==
      /\ req'[q].pc = "setupInsert" => req[q].pc = "setupInsert" \/ Rows = {}
      /\ Inside(q)' => Inside(q) \/ Rows # {}
      /\ req'[q].op = "setup" => \/ req[q].op = "setup"
                                 \/ /\ \E c \in Clients : ArriveSetup(q, c)
                                    /\ \A r \in Requests : r # q => req'[r] = req[r]
<1>0. req \in [Requests -> RequestType]
  BY DEF IInv, TypeOK
<1>a. req'[q] = req[q] => Goal
  BY DEF Inside
<1>1. ASSUME NEW r \in Requests, NEW c \in Clients, Arrive(r, c) PROVE Goal
  <2>1. PICK op \in {"setup", "login", "logout", "add", "delete", "list"},
             i \in Ids \cup {None}, n \in Names \cup {None},
             pc \in {"setupCount", "loginFind", "reply", "gateCount"} :
               Begin(r, op, c, i, n, pc) /\ (op = "setup" => ArriveSetup(r, c))
    <3>1. CASE ArriveSetup(r, c)
      BY <3>1 DEF ArriveSetup, Fresh
    <3>2. CASE ArriveLogin(r, c) \/ ArriveLogout(r, c) \/ ArriveList(r, c)
      BY <3>2 DEF ArriveLogin, ArriveLogout, ArriveList
    <3>3. CASE ArriveAdd(r, c)
      BY <3>3 DEF ArriveAdd, Fresh
    <3>4. CASE ArriveDelete(r, c)
      <4>1. PICK i \in born : Begin(r, "delete", c, i, None, "gateCount")
        BY <3>4 DEF ArriveDelete
      <4>2. i \in Ids
        BY <4>1 DEF IInv, TypeOK
      <4> QED BY <4>1, <4>2
    <3> QED BY <1>1, <3>1, <3>2, <3>3, <3>4 DEF Arrive
  <2>2. /\ req'[r].op = op /\ req'[r].pc = pc
        /\ \A s \in Requests : s # r => req'[s] = req[s]
    BY <1>0, <2>1 DEF Begin
  <2>3. CASE q = r
    BY <2>1, <2>2, <2>3 DEF Inside
  <2> QED BY <1>a, <2>2, <2>3
<1>2. ASSUME NEW r \in Requests, Handle(r) PROVE Goal
  BY <1>a, <1>2, HandleEnters
<1>3. ASSUME NEW r \in Requests, Respond(r) \/ ResponseLost(r) PROVE Goal
  <2>1. /\ req'[r].pc = "idle" /\ req'[r].op = "none"
        /\ \A s \in Requests : s # r => req'[s] = req[s]
    BY <1>0, <1>3 DEF Respond, ResponseLost, Idle
  <2>2. CASE q = r
    BY <2>1, <2>2 DEF Inside
  <2> QED BY <1>a, <2>1, <2>2
<1>4. ASSUME NEW c \in Clients, CookieExpires(c) PROVE Goal
  BY <1>4, <1>a DEF CookieExpires
<1>5. CASE UNCHANGED vars
  BY <1>5, <1>a DEF vars
<1> QED BY <1>1, <1>2, <1>3, <1>4, <1>5 DEF Next

AloneInv == IInv /\ LastAdminInv /\ UsernamesUnique /\ SetupInv

LEMMA InitAlone == Init => AloneInv
<1> SUFFICES ASSUME Init PROVE AloneInv
  OBVIOUS
<1>1. \A r \in Requests : req[r].op = "none" /\ req[r].pc = "idle"
  BY DEF Init, Idle
<1>2. SetupInv
  BY <1>1 DEF SetupInv, OneSetup, Inside
<1>3. UsernamesUnique
  BY DEF Init, UsernamesUnique, Rows
<1> QED BY <1>2, <1>3, InitIInv, InitLastAdmin DEF AloneInv

LEMMA StepKeepsAlone ==
  ASSUME ~SetupsOverlap, ~DeletesOverlap, AloneInv, [Next]_vars PROVE AloneInv'
<1> USE DEF AloneInv
<1>1. OneSetup'
  <2> SUFFICES ASSUME NEW q \in Requests, NEW r \in Requests, q # r,
                      req'[q].op = "setup", req'[r].op = "setup"
               PROVE  FALSE
    BY DEF OneSetup
  <2>1. CASE req[q].op = "setup" /\ req[r].op = "setup"
    BY <2>1 DEF SetupInv, OneSetup
  <2>2. CASE req[q].op # "setup"
    <3>1. (\E c \in Clients : ArriveSetup(q, c)) /\ req'[r] = req[r]
      BY <2>2, RequestMoves
    <3> QED BY <3>1 DEF ArriveSetup
  <2>3. CASE req[r].op # "setup"
    <3>1. (\E c \in Clients : ArriveSetup(r, c)) /\ req'[q] = req[q]
      BY <2>3, RequestMoves
    <3> QED BY <3>1 DEF ArriveSetup
  <2> QED BY <2>1, <2>2, <2>3
<1>2. ASSUME NEW q \in Requests, req'[q].pc = "setupInsert" PROVE born' = {}
  <2>1. born = {}
    <3>1. Rows = {} => born = {}
      BY DEF LastAdminInv, LastAdminStays
    <3> QED BY <1>2, <3>1, RequestMoves DEF SetupInv
  <2>2. ASSUME NEW r \in Requests, SetupInsert(r) \/ AddInsert(r),
               NEW a \in {"set", "keep"}, Answer(r, a)
        PROVE  FALSE
    <3>1. SetupInsert(r)
      BY <2>1, <2>2 DEF AddInsert, SetupInv, Inside
    <3>2. req'[r].pc = "reply" /\ \A s \in Requests : s # r => req'[s] = req[s]
      BY <2>2 DEF Answer, IInv, TypeOK, RequestType
    <3>3. q # r /\ req[q].pc = "setupInsert"
      BY <1>2, <3>2
    <3>4. req[q].op = "setup" /\ req[r].op = "setup"
      BY <3>1, <3>3 DEF SetupInsert, IInv, HandlerInv, HandlerOK
    <3> QED BY <3>3, <3>4 DEF SetupInv, OneSetup
  <2>3. born' = born
    BY <2>2, TableSteps DEF DelDelete
  <2> QED BY <2>1, <2>3
<1>3. ASSUME NEW q \in Requests, Inside(q)' PROVE born' # {}
  <2>1. born # {}
    BY <1>3, RequestMoves DEF SetupInv, IInv, TypeOK
  <2>2. born \subseteq born'
    BY TableSteps DEF Insert, DelDelete
  <2> QED BY <2>1, <2>2
<1> QED BY <1>1, <1>2, <1>3, NextKeepsIInv, StepKeepsLastAdmin, StepKeepsUsernames DEF SetupInv

(* "only a one-time setup" (register_admin_user.go): as long as no two setup
   submissions overlap, the form creates an account only while none has ever
   existed.  With overlap it does not (run setup_twice). *)
THEOREM SetupOnceWithoutOverlap ==
  ASSUME ~SetupsOverlap, ~DeletesOverlap PROVE Spec => SetupOnce
<1> DEFINE Once == \A r \in Requests :
                     req[r].op = "setup" /\ req[r].arg \in born' \ born => born = {}
<1>1. AloneInv /\ [Next]_vars => [Once]_vars
  <2> SUFFICES ASSUME AloneInv, [Next]_vars, NEW r \in Requests,
                      req[r].op = "setup", req[r].arg \in born' \ born
               PROVE  born = {}
    OBVIOUS
  <2>1. PICK q \in Requests : (SetupInsert(q) \/ AddInsert(q)) /\ Insert(q) /\ Creating(q)
    BY TableSteps DEF AloneInv, DelDelete
  <2>2. r = q
    BY <2>1 DEF Insert, AloneInv, IInv, CreatorInv
  <2>3. SetupInsert(r)
    BY <2>1, <2>2 DEF AddInsert, AloneInv, IInv, HandlerInv, HandlerOK
  <2> QED BY <2>3 DEF SetupInsert, AloneInv, SetupInv
<1>2. AloneInv /\ [Next]_vars => AloneInv'
  BY StepKeepsAlone
<1> QED BY <1>1, <1>2, InitAlone, PTL DEF Spec, SetupOnce

(* The table is the atomic directory as long as neither setup submissions nor
   deletions overlap: the setup form's insert is the directory's Setup, the
   insert of AddAdminUser an Add, a delete a Remove, and every other statement
   and every cookie a stutter. *)
THEOREM AccountsRefineTheDirectory ==
  ASSUME ~SetupsOverlap, ~DeletesOverlap PROVE Spec => ImplementsDirectory
<1> DEFINE accounts == {users[i] : i \in Rows}
<1>1. Init => Directory!Init
  BY DEF Init, Directory!Init, Rows
<1>2. AloneInv /\ [Next]_vars => [Directory!Next]_accounts
  <2> SUFFICES ASSUME AloneInv, [Next]_vars PROVE Directory!Next \/ accounts' = accounts
    OBVIOUS
  <2>0. IInv /\ SetupInv /\ LastAdminStays /\ UsernamesUnique
    BY DEF AloneInv, LastAdminInv
  <2>1. CASE users' = users
    BY <2>1 DEF Rows
  <2>2. ASSUME NEW r \in Requests, SetupInsert(r) \/ AddInsert(r), Insert(r), Creating(r)
        PROVE  Directory!Next
    <3> DEFINE i == req[r].arg
               n == req[r].name
    <3>1. /\ i \in Ids \ born /\ Rows \subseteq born /\ n \in Names /\ n # None
          /\ users' = [users EXCEPT ![i] = n]
      BY <2>0, <2>2, AccountAssumption DEF IInv, TypeOK, CreatorInv, Insert
    <3>2. Rows' = Rows \cup {i} /\ i \notin Rows /\ users'[i] = n
          /\ \A j \in Rows : users'[j] = users[j]
      BY <2>0, <3>1 DEF Rows, IInv, TypeOK
    <3>3. accounts' = accounts \cup {n} /\ n \notin accounts
      <4>1. n \notin accounts
        BY <2>2 DEF Insert, Taken
      <4>2. accounts' = {users'[j] : j \in Rows \cup {i}}
        BY <3>2
      <4>3. {users'[j] : j \in Rows \cup {i}} = accounts \cup {n}
        BY <3>2
      <4> QED BY <4>1, <4>2, <4>3
    <3>4. CASE SetupInsert(r)
      <4>1. Rows = {}
        BY <2>0, <3>1, <3>4 DEF SetupInsert, SetupInv
      <4>2. accounts = {}
        BY <4>1
      <4>3. Directory!Setup(n)
        BY <3>3, <4>2 DEF Directory!Setup
      <4> QED BY <3>1, <4>3 DEF Directory!Next, Directory!Setup
    <3>5. CASE AddInsert(r)
      <4>1. Rows # {}
        BY <2>0, <3>5 DEF AddInsert, SetupInv, Inside, LastAdminStays
      <4>2. accounts # {}
        BY <4>1
      <4>3. Directory!Add(n)
        BY <3>3, <4>2 DEF Directory!Add
      <4> QED BY <3>1, <4>3 DEF Directory!Next, Directory!Add
    <3> QED BY <2>2, <3>4, <3>5
  <2>3. ASSUME NEW r \in Requests, DelDelete(r) PROVE Directory!Next \/ accounts' = accounts
    <3> DEFINE i == req[r].arg
    <3>1. i \in Ids /\ users' = [users EXCEPT ![i] = None] /\ born' = born /\ born # {}
      BY <2>0, <2>3 DEF DelDelete, IInv, HandlerInv, HandlerOK, SetupInv, Inside
    <3>2. Rows' = Rows \ {i} /\ \A j \in Rows \ {i} : users'[j] = users[j]
      BY <2>0, <3>1 DEF Rows, IInv, TypeOK
    <3>3. accounts' = {users[j] : j \in Rows \ {i}}
      BY <3>2
    <3>4. CASE i \notin Rows
      BY <3>3, <3>4
    <3>5. CASE i \in Rows
      <4> DEFINE n == users[i]
      <4>1. n \in accounts /\ n \in Names
        BY <2>0, <3>5 DEF IInv, TypeOK, Rows
      <4>2. \A j \in Rows : users[j] = n => j = i
        BY <2>0, <3>5 DEF UsernamesUnique
      <4>3. accounts' = accounts \ {n}
        BY <3>3, <4>2
      <4>4. Rows' # {}
        BY <3>1, StepKeepsAlone DEF AloneInv, LastAdminInv, LastAdminStays
      <4>5. accounts' # {}
        BY <4>4
      <4>6. Directory!Remove(n)
        BY <4>1, <4>3, <4>5 DEF Directory!Remove
      <4> QED BY <4>1, <4>6 DEF Directory!Next, Directory!Remove
    <3> QED BY <3>4, <3>5
  <2> QED BY <2>0, <2>1, <2>2, <2>3, TableSteps
<1>3. AloneInv /\ [Next]_vars => AloneInv'
  BY StepKeepsAlone
<1> QED BY <1>1, <1>2, <1>3, InitAlone, PTL DEF Spec, ImplementsDirectory, Directory!Spec

=============================================================================
