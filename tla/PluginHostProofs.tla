-------------------------- MODULE PluginHostProofs --------------------------
(* What holds of the plugin host for any number of concurrent events, any
   number of plugins and whatever their scripts do.

   The inductive invariant says where an event is in its chain: the plugins
   before it have answered for it, those from it on have not; a plugin's mutex
   keeps the others out of the call, so what the script read is still stored;
   and the object a script holds has no edits but its own beyond the event's.
   For the interrupts it counts: a raised flag is paid for by a timer that ran out. *)
EXTENDS PluginHost, WellFoundedInduction, FiniteSetTheorems, TLAPS

-----------------------------------------------------------------------------
(* The inductive invariant. *)

Calling(q) == q.pc \in {"js", "kvget", "kvset"}

\* The plugins request q has passed have answered, those it has come to have not.
Placed(q) ==
  /\ q.pc = "idle" => q.at = 1
  /\ q.pc = "lock" \/ Calling(q) => q.at \in Hooked
  /\ q.pc = "save" => q.at = PluginCount + 1
  /\ q.pc # "done" => /\ q.out = "none"
                      /\ \A p \in Plugins : p >= q.at => q.said[p] = "none"
                      /\ \A p \in Hooked : p < q.at => q.said[p] \notin {"none", "null"}
  /\ q.got = "unread" \/ q.pc \in {"js", "kvset"}

\* What request q carries is what was returned, and what its script has edited.
Owed(q) ==
  /\ \A p \in q.ev.scalars : q.said[p] = "object"
  /\ Calling(q) => q.js.scalars \subseteq q.ev.scalars \cup {q.at}

\* At most one request is in a plugin's call.
Exclusive == \A r, s \in Requests :
  Calling(req[r]) /\ Calling(req[s]) /\ req[r].at = req[s].at => r = s

\* DropsAreExplicit, of one request.
Explicit(q) ==
  /\ q.out = "dropped" => \E p \in Hooked : /\ q.said[p] = "null"
                                            /\ \A x \in Plugins : x > p => q.said[x] = "none"
  /\ q.out = "saved" => \A p \in Hooked : q.said[p] \notin {"none", "null"}

ChainInv == \A r \in Requests : Placed(req[r]) /\ Owed(req[r]) /\ Explicit(req[r])

IInv == /\ TypeOK
        /\ ChainInv
        /\ Exclusive
        /\ ReadsStayCurrent

-----------------------------------------------------------------------------
(* The chain. *)

\* A set of natural numbers that is not empty has a least one.
LEMMA LeastNumber == ASSUME NEW S, S \subseteq Nat, S # {}
                     PROVE  \E n \in S : \A k \in S : n <= k
<1> DEFINE R == OpToRel(<, Nat)
<1>1. \A x, y \in Nat : y < x => <<y, x>> \in R
  BY DEF OpToRel
<1>2. IsWellFoundedOn(R, Nat)
  BY NatLessThanWellFounded
<1> HIDE DEF R
<1>3. PICK n \in S : \A k \in S : ~(<<k, n>> \in R)
  BY <1>2, WFMin
<1>4. \A k \in S : ~(k < n)
  BY <1>1, <1>3
<1> QED BY <1>4

\* NextHook finds the first hook from p on, past the last plugin if there is none.
LEMMA NextHookFinds ==
  ASSUME NEW p \in 1..(PluginCount + 1)
  PROVE  /\ NextHook(p) \in 1..(PluginCount + 1)
         /\ NextHook(p) >= p
         /\ NextHook(p) <= PluginCount => NextHook(p) \in Hooked
         /\ NextHook(p) > PluginCount => NextHook(p) = PluginCount + 1
         /\ \A q \in Hooked : q >= p => q >= NextHook(p)
<1> DEFINE later == {q \in Hooked : q >= p}
<1>1. \A q \in Hooked : q \in 1..PluginCount /\ q \in Nat
  BY HostAssumption
<1>2. CASE later = {}
  <2>1. NextHook(p) = PluginCount + 1
    BY <1>2 DEF NextHook
  <2>2. \A q \in Hooked : ~(q >= p)
    BY <1>2
  <2> QED BY <2>1, <2>2, HostAssumption
<1>3. CASE later # {}
  <2>1. later \in SUBSET Nat
    BY <1>1
  <2>2. PICK n \in later : \A m \in later : n <= m
    BY <1>3, <2>1, LeastNumber
  <2>3. NextHook(p) = CHOOSE q \in later : \A x \in later : q <= x
    BY <1>3 DEF NextHook
  <2>4. NextHook(p) \in later /\ \A x \in later : NextHook(p) <= x
    BY <2>2, <2>3
  <2>5. NextHook(p) \in Hooked /\ NextHook(p) >= p
    BY <2>4
  <2>6. \A q \in Hooked : q >= p => NextHook(p) <= q
    BY <2>4
  <2>7. NextHook(p) \in 1..PluginCount
    BY <2>5, <1>1
  <2>8. \A q \in Hooked : q >= p => q >= NextHook(p)
    BY <2>6, <2>7, <1>1
  <2> QED BY <2>5, <2>7, <2>8, HostAssumption
<1> QED BY <1>2, <1>3

\* Going on from place p, where all hooks before p have answered and none from p
\* on has, with an event whose scalars were returned.
LEMMA OnwardFits ==
  ASSUME NEW s \in Request, NEW p \in 1..(PluginCount + 1), NEW ev \in Event,
         s.out = "none",
         \A q \in Plugins : q >= p => s.said[q] = "none",
         \A q \in Hooked : q < p => s.said[q] \notin {"none", "null"},
         \A q \in ev.scalars : s.said[q] = "object"
  PROVE  /\ Onward(s, p, ev) \in Request
         /\ Onward(s, p, ev).pc \in {"lock", "save"}
         /\ Onward(s, p, ev).got = "unread"
         /\ Onward(s, p, ev).out = "none"
         /\ Placed(Onward(s, p, ev))
         /\ Owed(Onward(s, p, ev))
<1> DEFINE o == Onward(s, p, ev)
<1>1. /\ o.pc = (IF NextHook(p) > PluginCount THEN "save" ELSE "lock")
      /\ o.at = NextHook(p) /\ o.ev = ev /\ o.js = Blank /\ o.got = "unread" /\ o.val = 0
      /\ o.said = s.said /\ o.out = s.out /\ o.nil = s.nil
  BY DEF Onward, Request
<1>2. o \in Request
  <2>1. Blank \in Event
    BY DEF Blank, Event
  <2> QED BY <2>1, NextHookFinds DEF Onward, Request
<1>3. Placed(o)
  <2>1. o.pc = "lock" => o.at \in Hooked
    BY <1>1, NextHookFinds, HostAssumption
  <2>2. o.pc = "save" => o.at = PluginCount + 1
    BY <1>1, NextHookFinds, HostAssumption
  <2>3. \A q \in Plugins : q >= o.at => q >= p
    BY <1>1, NextHookFinds, HostAssumption DEF Plugins
  <2>4. \A q \in Hooked : q < o.at => q < p
    <3>1. \A q \in Hooked : q >= p => q >= o.at
      BY <1>1, NextHookFinds
    <3>2. o.at \in Nat /\ p \in Nat /\ Hooked \subseteq Nat
      BY <1>1, NextHookFinds, HostAssumption
    <3> HIDE DEF o
    <3> QED BY <3>1, <3>2
  <2> QED BY <1>1, <2>1, <2>2, <2>3, <2>4 DEF Placed, Calling
<1>4. Owed(o)
  BY <1>1 DEF Owed, Calling
<1> QED BY <1>1, <1>2, <1>3, <1>4

-----------------------------------------------------------------------------
(* What a step does, by where it leaves the request. *)

LEMMA InitIInv == Init => IInv
<1> SUFFICES ASSUME Init PROVE IInv
  OBVIOUS
<1>1. \A r \in Requests : req[r] =
        [pc |-> "idle", at |-> 1, ev |-> Blank, nil |-> FALSE, js |-> Blank, got |-> "unread",
         val |-> 0, said |-> [p \in Plugins |-> "none"], out |-> "none"]
  BY DEF Init
<1>2. 1 \in 1..(PluginCount + 1) /\ Blank \in Event
  BY HostAssumption DEF Blank, Event
<1>3. req \in [Requests -> Request]
  BY <1>2 DEF Init, Request, Ends
<1>4. TypeOK
  <2>1. holder = [p \in Plugins |-> {r \in Requests : InCall(r, p)}]
    BY <1>1 DEF Init, InCall
  <2> QED BY <1>3, <2>1 DEF Init, TypeOK, Timers
<1>5. ChainInv
  <2> SUFFICES ASSUME NEW r \in Requests PROVE Placed(req[r]) /\ Owed(req[r]) /\ Explicit(req[r])
    BY DEF ChainInv
  <2>1. \A p \in Hooked : ~(p < 1)
    <3>1. \A p \in Hooked : p \in 1..PluginCount
      BY HostAssumption
    <3> QED BY <3>1, HostAssumption
  <2>2. Placed(req[r])
    BY <1>1, <2>1 DEF Placed, Calling
  <2> QED BY <1>1, <2>2 DEF Owed, Explicit, Calling, Blank
<1>6. Exclusive /\ ReadsStayCurrent
  BY <1>1 DEF Exclusive, ReadsStayCurrent, Calling
<1> QED BY <1>4, <1>5, <1>6 DEF IInv

\* Request r changes to s, the others stay.
LEMMA OneChanges ==
  ASSUME IInv, NEW r \in Requests, NEW s \in Request, req' = [req EXCEPT ![r] = s],
         Placed(s), Owed(s), Explicit(s)
  PROVE  /\ req' \in [Requests -> Request]
         /\ req'[r] = s
         /\ \A x \in Requests : x # r => req'[x] = req[x]
         /\ ChainInv'
<1>1. req \in [Requests -> Request] /\ ChainInv
  BY DEF IInv, TypeOK
<1>2. /\ req' \in [Requests -> Request]
      /\ req'[r] = s
      /\ \A x \in Requests : x # r => req'[x] = req[x]
  BY <1>1
<1>3. \A x \in Requests : Placed(req'[x]) /\ Owed(req'[x]) /\ Explicit(req'[x])
  BY <1>1, <1>2 DEF ChainInv
<1>4. ChainInv'
  BY <1>3 DEF ChainInv, Placed, Owed, Explicit, Calling, Plugins
<1> QED BY <1>2, <1>4

\* Inside its call, request r goes on to s.
LEMMA InsideStep ==
  ASSUME IInv, NEW r \in Requests, NEW s \in Request, req' = [req EXCEPT ![r] = s],
         Placed(s), Owed(s), Explicit(s), Calling(req[r]), Calling(s), s.at = req[r].at,
         UNCHANGED <<holder, flag, timer>>
  PROVE  /\ req' \in [Requests -> Request]
         /\ req'[r] = s
         /\ \A x \in Requests : x # r => req'[x] = req[x]
         /\ ChainInv' /\ Exclusive'
         /\ holder' = [p \in Plugins |-> {x \in Requests : InCall(x, p)'}]
<1>1. /\ req' \in [Requests -> Request]
      /\ req'[r] = s
      /\ \A x \in Requests : x # r => req'[x] = req[x]
      /\ ChainInv'
  BY OneChanges
<1>2. \A x \in Requests : (Calling(req'[x]) <=> Calling(req[x])) /\ req'[x].at = req[x].at
  BY <1>1
<1>3. Exclusive'
  BY <1>2 DEF IInv, Exclusive, Calling
<1>4. \A p \in Plugins, x \in Requests : InCall(x, p)' <=> InCall(x, p)
  BY <1>2 DEF InCall, Calling
<1>5. holder' = [p \in Plugins |-> {x \in Requests : InCall(x, p)'}]
  BY <1>4 DEF IInv, TypeOK
<1> QED BY <1>1, <1>3, <1>5

\* Outside every call before and after, request r goes on to s.
LEMMA OutsideStep ==
  ASSUME IInv, NEW r \in Requests, NEW s \in Request, req' = [req EXCEPT ![r] = s],
         Placed(s), Owed(s), Explicit(s), ~Calling(req[r]), ~Calling(s),
         UNCHANGED <<holder, flag, timer, kv>>
  PROVE  IInv'
<1>1. /\ req' \in [Requests -> Request]
      /\ req'[r] = s
      /\ \A x \in Requests : x # r => req'[x] = req[x]
      /\ ChainInv'
  BY OneChanges
<1>2. \A x \in Requests : Calling(req'[x]) => Calling(req[x]) /\ req'[x] = req[x]
  BY <1>1
<1>3. Exclusive'
  BY <1>2 DEF IInv, Exclusive, Calling
<1>4. \A p \in Plugins, x \in Requests : InCall(x, p)' <=> InCall(x, p)
  BY <1>1 DEF InCall, Calling
<1>5. TypeOK'
  BY <1>1, <1>4 DEF IInv, TypeOK
<1>6. ReadsStayCurrent'
  BY <1>2 DEF IInv, ReadsStayCurrent, Calling
<1> QED BY <1>1, <1>3, <1>5, <1>6 DEF IInv

\* Request r leaves its call as s, and callOnEvent's deferred calls are made.
LEMMA LeaveStep ==
  ASSUME IInv, NEW r \in Requests, NEW s \in Request, req' = [req EXCEPT ![r] = s],
         Placed(s), Owed(s), Explicit(s), Calling(req[r]), ~Calling(s), Finish(r)
  PROVE  IInv'
<1> PICK p \in Plugins : p = req[r].at
  BY HostAssumption DEF IInv, ChainInv, Placed, Plugins
<1>1. /\ req' \in [Requests -> Request]
      /\ req'[r] = s
      /\ \A x \in Requests : x # r => req'[x] = req[x]
      /\ ChainInv'
  BY OneChanges
<1>2. \A x \in Requests : Calling(req'[x]) => Calling(req[x]) /\ req'[x] = req[x]
  BY <1>1
<1>3. Exclusive'
  BY <1>2 DEF IInv, Exclusive, Calling
<1>4. holder' = [q \in Plugins |-> {x \in Requests : InCall(x, q)'}]
  <2>1. \A x \in Requests : ~InCall(x, p)'
    <3>1. \A x \in Requests : Calling(req'[x]) => req'[x].at # p
      BY <1>1, <1>2 DEF IInv, Exclusive
    <3> QED BY <3>1 DEF InCall, Calling
  <2>2. \A q \in Plugins : q # p => \A x \in Requests : InCall(x, q)' <=> InCall(x, q)
    BY <1>1 DEF InCall, Calling
  <2>3. holder = [q \in Plugins |-> {x \in Requests : InCall(x, q)}]
    BY DEF IInv, TypeOK
  <2>4. holder' = [holder EXCEPT ![p] = {}]
    BY DEF Finish
  <2>5. ASSUME NEW q \in Plugins PROVE holder'[q] = {x \in Requests : InCall(x, q)'}
    <3>1. CASE q = p
      <4>1. holder'[q] = {}
        BY <2>3, <2>4, <3>1
      <4> QED BY <2>1, <3>1, <4>1
    <3>2. CASE q # p
      <4>1. holder'[q] = {x \in Requests : InCall(x, q)}
        BY <2>3, <2>4, <3>2
      <4> QED BY <2>2, <3>2, <4>1
    <3> QED BY <3>1, <3>2
  <2> QED BY <2>3, <2>4, <2>5
<1>5. TypeOK'
  <2>1. flag' \in [Plugins -> BOOLEAN] /\ kv' \in [Plugins -> Nat]
    BY DEF IInv, TypeOK, Finish
  <2>2. timer' \in [Requests -> [Plugins -> Timers]]
    BY DEF IInv, TypeOK, Finish, Timers
  <2> QED BY <1>1, <1>4, <2>1, <2>2 DEF TypeOK
<1>6. ReadsStayCurrent'
  BY <1>2 DEF IInv, ReadsStayCurrent, Calling, Finish
<1> QED BY <1>1, <1>3, <1>5, <1>6 DEF IInv

-----------------------------------------------------------------------------
(* One lemma per action. *)

LEMMA ArriveKeepsIInv == ASSUME IInv, NEW r \in Requests, Arrive(r) PROVE IInv'
<1>1. PICK nil \in Nils : req' = [req EXCEPT ![r] = [Onward(req[r], 1, Blank) EXCEPT !.nil = nil]]
  BY DEF Arrive
<1> DEFINE o == Onward(req[r], 1, Blank)
           s == [o EXCEPT !.nil = nil]
<1>2. req[r] \in Request /\ Placed(req[r]) /\ req[r].pc = "idle"
  BY DEF IInv, TypeOK, ChainInv, Arrive
<1>3. o \in Request /\ o.pc \in {"lock", "save"} /\ o.out = "none" /\ Placed(o) /\ Owed(o)
  <2>1. Blank \in Event /\ Blank.scalars = {} /\ 1 \in 1..(PluginCount + 1)
    BY HostAssumption DEF Blank, Event
  <2> QED BY <1>2, <2>1, OnwardFits DEF Placed
<1>4. s \in Request /\ s.pc = o.pc /\ s.out = o.out
  <2>1. nil \in BOOLEAN
    BY HostAssumption
  <2> HIDE DEF o
  <2> QED BY <1>3, <2>1 DEF Request
<1>5. Placed(s) /\ Owed(s) /\ Explicit(s)
  <2> HIDE DEF o
  <2> QED BY <1>3 DEF Request, Placed, Owed, Explicit, Calling
<1>6. ~Calling(req[r]) /\ ~Calling(s)
  BY <1>2, <1>3, <1>4 DEF Calling
<1> HIDE DEF o, s
<1>7. UNCHANGED <<holder, flag, timer, kv>>
  BY DEF Arrive
<1>8. req' = [req EXCEPT ![r] = s]
  BY <1>1 DEF s, o
<1> QED BY <1>4, <1>5, <1>6, <1>7, <1>8, OutsideStep

LEMMA SaveKeepsIInv == ASSUME IInv, NEW r \in Requests, Save(r) PROVE IInv'
<1> DEFINE s == [req[r] EXCEPT !.pc = "done", !.out = "saved", !.ev = Blank]
<1>1. req[r] \in Request /\ Placed(req[r]) /\ req[r].pc = "save"
  BY DEF IInv, TypeOK, ChainInv, Save
<1>2. s \in Request
  BY <1>1 DEF Request, Blank, Event
<1>3. s.pc = "done" /\ s.out = "saved" /\ s.ev = Blank /\ s.said = req[r].said /\ s.got = req[r].got
  BY <1>1 DEF Request
<1>4. Explicit(s)
  <2>1. \A p \in Hooked : p < req[r].at
    BY <1>1, HostAssumption DEF Placed
  <2> QED BY <1>1, <1>3, <2>1 DEF Placed, Explicit
<1>5. Placed(s) /\ Owed(s)
  BY <1>1, <1>3 DEF Placed, Owed, Calling, Blank
<1> QED BY <1>1, <1>2, <1>3, <1>4, <1>5, OutsideStep DEF Calling, Save

LEMMA CallKeepsIInv == ASSUME IInv, NEW r \in Requests, CallOnEvent(r) PROVE IInv'
<1> DEFINE s == [req[r] EXCEPT !.pc = "js", !.js = req[r].ev]
<1>1. req[r] \in Request /\ Placed(req[r]) /\ Owed(req[r]) /\ req[r].pc = "lock"
  BY DEF IInv, TypeOK, ChainInv, CallOnEvent
<1> PICK p \in Plugins : p = req[r].at /\ p \in Hooked
  BY <1>1, HostAssumption DEF Placed, Plugins
<1>2. s \in Request
  BY <1>1 DEF Request
<1>3. /\ s.pc = "js" /\ s.js = req[r].ev /\ s.ev = req[r].ev /\ s.at = p /\ s.out = req[r].out
      /\ s.said = req[r].said /\ s.got = req[r].got /\ s.got = "unread"
  BY <1>1 DEF Request, Placed
<1>4. Placed(s) /\ Owed(s) /\ Explicit(s)
  BY <1>1, <1>3 DEF Placed, Owed, Explicit, Calling
<1>5. req' = [req EXCEPT ![r] = s]
  BY DEF CallOnEvent
<1> HIDE DEF s
<1>6. /\ req' \in [Requests -> Request]
      /\ req'[r] = s
      /\ \A x \in Requests : x # r => req'[x] = req[x]
      /\ ChainInv'
  BY <1>2, <1>4, <1>5, OneChanges
<1>7. holder = [q \in Plugins |-> {x \in Requests : InCall(x, q)}]
  BY DEF IInv, TypeOK
<1>8. holder[p] = {} /\ holder' = [holder EXCEPT ![p] = {r}]
  BY DEF CallOnEvent
<1>9. \A x \in Requests : ~InCall(x, p)
  BY <1>7, <1>8
<1>10. holder' = [q \in Plugins |-> {x \in Requests : InCall(x, q)'}]
  <2>1. InCall(r, p)'
    BY <1>3, <1>6 DEF InCall
  <2>2. \A x \in Requests : x # r => ~InCall(x, p)'
    BY <1>6, <1>9 DEF InCall
  <2>3. \A q \in Plugins, x \in Requests : q # p => (InCall(x, q)' <=> InCall(x, q))
    BY <1>1, <1>3, <1>6 DEF InCall
  <2>4. ASSUME NEW q \in Plugins PROVE holder'[q] = {x \in Requests : InCall(x, q)'}
    <3>1. CASE q = p
      <4>1. holder'[q] = {r}
        BY <1>7, <1>8, <3>1
      <4> QED BY <2>1, <2>2, <3>1, <4>1
    <3>2. CASE q # p
      <4>1. holder'[q] = {x \in Requests : InCall(x, q)}
        BY <1>7, <1>8, <3>2
      <4> QED BY <2>3, <3>2, <4>1
    <3> QED BY <3>1, <3>2
  <2> QED BY <1>7, <1>8, <2>4
<1>11. Exclusive'
  BY <1>3, <1>6, <1>9 DEF IInv, Exclusive, InCall, Calling
<1>12. TypeOK'
  <2>1. flag' \in [Plugins -> BOOLEAN] /\ kv' \in [Plugins -> Nat]
    BY DEF IInv, TypeOK, CallOnEvent
  <2>2. timer' \in [Requests -> [Plugins -> Timers]]
    BY DEF IInv, TypeOK, CallOnEvent, Timers
  <2> QED BY <1>6, <1>10, <2>1, <2>2 DEF TypeOK
<1>13. ReadsStayCurrent'
  BY <1>3, <1>6 DEF IInv, ReadsStayCurrent, CallOnEvent
<1> QED BY <1>6, <1>11, <1>12, <1>13 DEF IInv

\* What is known of a request in its call.
LEMMA InCallFacts ==
  ASSUME IInv, NEW r \in Requests, Calling(req[r])
  PROVE  /\ req[r] \in Request /\ Placed(req[r]) /\ Owed(req[r]) /\ Explicit(req[r])
         /\ req[r].at \in Hooked /\ req[r].at \in Plugins
         /\ req[r].out = "none"
         /\ req[r].said[req[r].at] = "none"
<1>1. req[r] \in Request /\ Placed(req[r]) /\ Owed(req[r]) /\ Explicit(req[r])
  BY DEF IInv, TypeOK, ChainInv
<1>2. req[r].at \in Hooked /\ req[r].at \in Plugins /\ req[r].pc # "done"
  BY <1>1, HostAssumption DEF Placed, Calling, Plugins
<1>3. req[r].at >= req[r].at
  BY <1>2, HostAssumption DEF Plugins
<1> QED BY <1>1, <1>2, <1>3 DEF Placed

LEMMA EditKeepsIInv == ASSUME IInv, NEW r \in Requests, NEW f \in Fields, Edit(r, f) PROVE IInv'
<1> DEFINE q == req[r]
           m == IF f = "metadata" /\ ~q.nil THEN {q.at} ELSE {}
           s == [q EXCEPT !.js[f] = @ \cup {q.at}, !.ev.metadata = @ \cup m]
<1>1. q.pc = "js" /\ req' = [req EXCEPT ![r] = s] /\ UNCHANGED <<holder, flag, timer, kv>>
  BY DEF Edit, Running
<1>2. Calling(q)
  BY <1>1 DEF Calling
<1>3. q \in Request /\ Placed(q) /\ Owed(q) /\ q.at \in Plugins /\ q.out = "none"
  BY <1>2, InCallFacts
<1>4. /\ s \in Request
      /\ s.pc = q.pc /\ s.at = q.at /\ s.got = q.got /\ s.val = q.val /\ s.said = q.said
      /\ s.out = q.out /\ s.ev.scalars = q.ev.scalars
      /\ s.js.scalars \subseteq q.js.scalars \cup {q.at}
  <2>1. CASE f = "scalars"
    BY <1>3, <2>1 DEF Request, Event
  <2>2. CASE f = "metadata"
    BY <1>3, <2>2 DEF Request, Event
  <2> QED BY <2>1, <2>2 DEF Fields
<1> HIDE DEF s
<1>5. Placed(s) /\ Owed(s) /\ Explicit(s) /\ Calling(s)
  BY <1>2, <1>3, <1>4 DEF Placed, Owed, Explicit, Calling
<1>6. /\ req' \in [Requests -> Request]
      /\ req'[r] = s
      /\ \A x \in Requests : x # r => req'[x] = req[x]
      /\ ChainInv' /\ Exclusive'
      /\ holder' = [p \in Plugins |-> {x \in Requests : InCall(x, p)'}]
  BY <1>1, <1>2, <1>4, <1>5, InsideStep
<1>7. TypeOK'
  BY <1>1, <1>6 DEF IInv, TypeOK
<1>8. ReadsStayCurrent'
  BY <1>1, <1>4, <1>6 DEF IInv, ReadsStayCurrent
<1> QED BY <1>6, <1>7, <1>8 DEF IInv

\* The four steps of the kv store change pc, got and val, and kv.set the store.
LEMMA StoreStep ==
  ASSUME IInv, NEW r \in Requests, Calling(req[r]),
         NEW pc \in {"js", "kvget", "kvset"}, NEW got \in {"unread", "read", "missed", "written"},
         NEW val \in Nat, got = "unread" \/ pc \in {"js", "kvset"},
         req' = [req EXCEPT ![r] = [@ EXCEPT !.pc = pc, !.got = got, !.val = val]],
         kv' \in [Plugins -> Nat], \A p \in Plugins : p # req[r].at => kv'[p] = kv[p],
         pc \in {"js", "kvset"} /\ got = "read" => val = kv'[req[r].at],
         UNCHANGED <<holder, flag, timer>>
  PROVE  IInv'
<1> DEFINE q == req[r]
           s == [q EXCEPT !.pc = pc, !.got = got, !.val = val]
<1>1. /\ q \in Request /\ Placed(q) /\ Owed(q) /\ q.at \in Hooked /\ q.at \in Plugins
      /\ q.out = "none"
  BY InCallFacts
<1>2. /\ s \in Request
      /\ s.pc = pc /\ s.got = got /\ s.val = val /\ s.at = q.at /\ s.said = q.said
      /\ s.out = q.out /\ s.ev = q.ev /\ s.js = q.js
  BY <1>1 DEF Request
<1>3. req' = [req EXCEPT ![r] = s]
  OBVIOUS
<1> HIDE DEF s
<1>4. Placed(s) /\ Owed(s) /\ Explicit(s) /\ Calling(s)
  BY <1>1, <1>2 DEF Placed, Owed, Explicit, Calling
<1>5. /\ req' \in [Requests -> Request]
      /\ req'[r] = s
      /\ \A x \in Requests : x # r => req'[x] = req[x]
      /\ ChainInv' /\ Exclusive'
      /\ holder' = [p \in Plugins |-> {x \in Requests : InCall(x, p)'}]
  BY <1>2, <1>3, <1>4, InsideStep
<1>6. TypeOK'
  BY <1>5 DEF IInv, TypeOK
<1>7. ReadsStayCurrent'
  <2> SUFFICES ASSUME NEW x \in Requests, req'[x].pc \in {"js", "kvset"}, req'[x].got = "read"
               PROVE  req'[x].val = kv'[req'[x].at]
    BY DEF ReadsStayCurrent
  <2>1. CASE x = r
    BY <1>2, <1>5, <2>1
  <2>2. CASE x # r
    <3>1. req'[x] = req[x] /\ Calling(req[x])
      BY <1>5, <2>2 DEF Calling
    <3>2. req[x].at # q.at /\ req[x].at \in Plugins
      BY <2>2, <3>1, InCallFacts DEF IInv, Exclusive
    <3>3. req[x].val = kv[req[x].at]
      BY <3>1 DEF IInv, ReadsStayCurrent
    <3> QED BY <3>1, <3>2, <3>3
  <2> QED BY <2>1, <2>2
<1> QED BY <1>5, <1>6, <1>7 DEF IInv

LEMMA KvKeepsIInv ==
  ASSUME IInv, NEW r \in Requests,
         KvGet(r) \/ KvGetReturns(r) \/ KvSet(r) \/ KvSetReturns(r)
  PROVE  IInv'
<1> DEFINE q == req[r]
<1>1. Calling(q)
  BY DEF KvGet, KvGetReturns, KvSet, KvSetReturns, Running, Calling
<1>2. q \in Request /\ Placed(q) /\ q.at \in Plugins
  BY <1>1, InCallFacts
<1>3. kv \in [Plugins -> Nat] /\ req \in [Requests -> Request]
  BY DEF IInv, TypeOK
<1>4. q.got \in {"unread", "read", "missed", "written"} /\ q.val \in Nat
  BY <1>2 DEF Request
<1>5. q = [q EXCEPT !.pc = q.pc, !.got = q.got, !.val = q.val]
  BY <1>2 DEF Request
<1>6. CASE KvGet(r)
  <2>1. req' = [req EXCEPT ![r] = [@ EXCEPT !.pc = "kvget", !.got = q.got, !.val = q.val]]
    BY <1>2, <1>3, <1>6 DEF KvGet, Request
  <2>2. q.got = "unread" /\ UNCHANGED <<holder, flag, timer, kv>>
    BY <1>6 DEF KvGet
  <2> QED BY <1>1, <1>3, <1>4, <2>1, <2>2, StoreStep
<1>7. CASE KvGetReturns(r)
  <2>1. UNCHANGED <<holder, flag, timer, kv>>
    BY <1>7 DEF KvGetReturns
  <2>2. CASE req' = [req EXCEPT ![r] = [@ EXCEPT !.pc = "js", !.got = "read", !.val = kv[req[r].at]]]
    BY <1>1, <1>2, <1>3, <2>1, <2>2, StoreStep
  <2>3. CASE req' = [req EXCEPT ![r] = [@ EXCEPT !.pc = "js", !.got = "missed", !.val = 0]]
    BY <1>1, <1>2, <1>3, <2>1, <2>3, StoreStep
  <2> QED BY <1>7, <2>2, <2>3 DEF KvGetReturns
<1>8. CASE KvSet(r)
  <2>1. req' = [req EXCEPT ![r] = [@ EXCEPT !.pc = "kvset", !.got = q.got, !.val = q.val]]
    BY <1>2, <1>3, <1>8 DEF KvSet, Request
  <2>2. q.got = "read" => q.val = kv[q.at]
    BY <1>8 DEF IInv, ReadsStayCurrent, KvSet, Running
  <2>3. UNCHANGED <<holder, flag, timer, kv>>
    BY <1>8 DEF KvSet
  <2> QED BY <1>1, <1>3, <1>4, <2>1, <2>2, <2>3, StoreStep
<1>9. CASE KvSetReturns(r)
  <2>1. req' = [req EXCEPT ![r] = [@ EXCEPT !.pc = "js", !.got = "written", !.val = q.val]]
    BY <1>2, <1>3, <1>9 DEF KvSetReturns, Request
  <2>2. kv' \in [Plugins -> Nat] /\ \A p \in Plugins : p # q.at => kv'[p] = kv[p]
    BY <1>3, <1>4, <1>9 DEF KvSetReturns
  <2>3. UNCHANGED <<holder, flag, timer>>
    BY <1>9 DEF KvSetReturns
  <2> QED BY <1>1, <1>4, <2>1, <2>2, <2>3, StoreStep
<1> QED BY <1>6, <1>7, <1>8, <1>9

(* A call that ends without dropping the event hands it on to the next hook, with
   scalars that were returned before or, of an object, by this call. *)
LEMMA HandsOn ==
  ASSUME IInv, NEW r \in Requests, Calling(req[r]), NEW ev \in Event, NEW nil \in BOOLEAN,
         NEW end \in {"object", "threw", "interrupted"},
         \A p \in ev.scalars : p \in req[r].ev.scalars \/ (p = req[r].at /\ end = "object"),
         req' = [req EXCEPT ![r] =
                   [Onward(req[r], req[r].at + 1, ev) EXCEPT !.said[req[r].at] = end, !.nil = nil]],
         Finish(r)
  PROVE  IInv'
<1> DEFINE q == req[r]
           t == [q EXCEPT !.said[q.at] = end, !.nil = nil]
           s == [Onward(q, q.at + 1, ev) EXCEPT !.said[q.at] = end, !.nil = nil]
<1>1. /\ q \in Request /\ Placed(q) /\ Owed(q) /\ q.at \in Hooked /\ q.at \in Plugins
      /\ q.out = "none" /\ q.said[q.at] = "none"
  BY InCallFacts
<1>2. /\ t \in Request
      /\ t.out = "none"
      /\ t.said[q.at] = end
      /\ \A p \in Plugins : p # q.at => t.said[p] = q.said[p]
  BY <1>1 DEF Request, Ends
<1>3. q.at + 1 \in 1..(PluginCount + 1) /\ Hooked \subseteq Plugins /\ Plugins \subseteq Nat
  BY <1>1, HostAssumption DEF Plugins
<1>4. \A p \in Plugins : p >= q.at + 1 => t.said[p] = "none"
  <2>1. \A p \in Plugins : p >= q.at + 1 => p >= q.at /\ p # q.at
    BY <1>1, <1>3
  <2> QED BY <1>1, <1>2, <2>1 DEF Placed, Calling
<1>5. \A p \in Hooked : p < q.at + 1 => t.said[p] \notin {"none", "null"}
  <2>1. \A p \in Hooked : p < q.at + 1 => p = q.at \/ p < q.at
    BY <1>1, <1>3
  <2> QED BY <1>1, <1>2, <1>3, <2>1 DEF Placed, Calling
<1>6. \A p \in ev.scalars : t.said[p] = "object"
  <2>1. \A p \in q.ev.scalars : p \in Plugins /\ q.said[p] = "object"
    BY <1>1 DEF Owed, Request, Event
  <2> QED BY <1>1, <1>2, <2>1
<1>7. s = Onward(t, q.at + 1, ev)
  BY <1>1 DEF Onward, Request
<1>8. /\ s \in Request /\ s.pc \in {"lock", "save"} /\ s.out = "none" /\ Placed(s) /\ Owed(s)
  <2> HIDE DEF t, s, q
  <2> QED BY <1>2, <1>3, <1>4, <1>5, <1>6, <1>7, OnwardFits
<1>9. req' = [req EXCEPT ![r] = s]
  OBVIOUS
<1> HIDE DEF s, t
<1> QED BY <1>8, <1>9, LeaveStep DEF Explicit, Calling

LEMMA ReturnObjectKeepsIInv == ASSUME IInv, NEW r \in Requests, ReturnObject(r) PROVE IInv'
<1> DEFINE q == req[r]
<1>1. Calling(q)
  BY DEF ReturnObject, Running, Calling
<1>2. q \in Request /\ Owed(q)
  BY <1>1, InCallFacts
<1>3. PICK fields \in SUBSET Fields :
        req' = [req EXCEPT ![r] =
          [Onward(q, q.at + 1, [f \in Fields |-> IF f \in fields THEN q.js[f] ELSE q.ev[f]])
           EXCEPT !.said[q.at] = "object", !.nil = q.nil /\ "metadata" \notin fields]]
  <2>1. PICK fields \in SUBSET Fields :
        req' = [req EXCEPT ![r] =
          [Onward(q, q.at + 1, [f \in Fields |-> IF f \in fields THEN q.js[f] ELSE q.ev[f]])
           EXCEPT !.said[q.at] = "object", !.nil = @ /\ "metadata" \notin fields]]
    BY DEF ReturnObject
  <2>2. Onward(q, q.at + 1, [f \in Fields |-> IF f \in fields THEN q.js[f] ELSE q.ev[f]]).nil = q.nil
    BY <1>2 DEF Onward, Request
  <2> QED BY <2>1, <2>2
<1> DEFINE ev == [f \in Fields |-> IF f \in fields THEN q.js[f] ELSE q.ev[f]]
<1>4. ev \in Event /\ (ev.scalars = q.js.scalars \/ ev.scalars = q.ev.scalars)
  <2>1. /\ DOMAIN ev = {"scalars", "metadata"}
        /\ ev = [scalars |-> ev["scalars"], metadata |-> ev["metadata"]]
    BY DEF Fields
  <2>2. ev["scalars"] \in SUBSET Plugins /\ ev["metadata"] \in SUBSET Plugins
    BY <1>2 DEF Request, Event, Fields
  <2>3. ev["scalars"] = q.js.scalars \/ ev["scalars"] = q.ev.scalars
    BY DEF Fields
  <2> QED BY <2>1, <2>2, <2>3 DEF Event
<1>5. \A p \in ev.scalars : p \in q.ev.scalars \/ p = q.at
  BY <1>1, <1>2, <1>4 DEF Owed
<1>6. (q.nil /\ "metadata" \notin fields) \in BOOLEAN
  OBVIOUS
<1>7. Finish(r)
  BY DEF ReturnObject
<1> HIDE DEF ev
<1>8. req' = [req EXCEPT ![r] =
          [Onward(q, q.at + 1, ev) EXCEPT !.said[q.at] = "object",
                                          !.nil = q.nil /\ "metadata" \notin fields]]
  BY <1>3 DEF ev
<1> QED BY <1>1, <1>4, <1>5, <1>6, <1>7, <1>8, HandsOn

LEMMA ErrorKeepsIInv ==
  ASSUME IInv, NEW r \in Requests, Throw(r) \/ Interrupted(r)
  PROVE  IInv'
<1> DEFINE q == req[r]
<1>1. Calling(q) /\ Finish(r)
  BY DEF Throw, Interrupted, Running, Calling
<1>2. q \in Request
  BY <1>1, InCallFacts
<1>3. PICK end \in {"threw", "interrupted"} :
        req' = [req EXCEPT ![r] = [Onward(q, q.at + 1, q.ev) EXCEPT !.said[q.at] = end]]
  BY DEF Throw, Interrupted, Keep
<1>4. [Onward(q, q.at + 1, q.ev) EXCEPT !.said[q.at] = end]
        = [Onward(q, q.at + 1, q.ev) EXCEPT !.said[q.at] = end, !.nil = q.nil]
  BY <1>2 DEF Onward, Request
<1>5. q.ev \in Event /\ q.nil \in BOOLEAN
  BY <1>2 DEF Request
<1> QED BY <1>1, <1>3, <1>4, <1>5, HandsOn

LEMMA ReturnNullKeepsIInv == ASSUME IInv, NEW r \in Requests, ReturnNull(r) PROVE IInv'
<1> DEFINE q == req[r]
           s == [q EXCEPT !.pc = "done", !.out = "dropped", !.said[q.at] = "null",
                          !.js = Blank, !.ev = Blank, !.got = "unread", !.val = 0]
<1>1. Calling(q) /\ Finish(r) /\ req' = [req EXCEPT ![r] = s]
  BY DEF ReturnNull, Running, Calling
<1>2. q \in Request /\ Placed(q) /\ q.at \in Hooked /\ q.at \in Plugins
  BY <1>1, InCallFacts
<1>3. /\ s \in Request
      /\ s.pc = "done" /\ s.out = "dropped" /\ s.ev = Blank /\ s.got = "unread"
      /\ s.said[q.at] = "null"
      /\ \A p \in Plugins : p # q.at => s.said[p] = q.said[p]
  BY <1>2 DEF Request, Ends, Blank, Event
<1> HIDE DEF s
<1>4. \A p \in Plugins : p > q.at => s.said[p] = "none"
  <2>1. \A p \in Plugins : p > q.at => p >= q.at /\ p # q.at
    BY <1>2, HostAssumption DEF Plugins
  <2> QED BY <1>1, <1>2, <1>3, <2>1 DEF Placed, Calling
<1>5. Placed(s) /\ Owed(s) /\ Explicit(s) /\ ~Calling(s)
  BY <1>2, <1>3, <1>4 DEF Placed, Owed, Explicit, Calling, Blank
<1> QED BY <1>1, <1>3, <1>5, LeaveStep

LEMMA TimerKeepsIInv ==
  ASSUME IInv, NEW r \in Requests, NEW p \in Plugins, TimerFires(r, p) \/ Interrupt(r, p)
  PROVE  IInv'
<1>1. UNCHANGED <<req, holder, kv>>
  BY DEF TimerFires, Interrupt
<1>2. timer' \in [Requests -> [Plugins -> Timers]] /\ flag' \in [Plugins -> BOOLEAN]
  <2>1. timer \in [Requests -> [Plugins -> Timers]] /\ flag \in [Plugins -> BOOLEAN]
    BY DEF IInv, TypeOK
  <2>2. "fired" \in Timers /\ "delivered" \in Timers
    BY DEF Timers
  <2>3. CASE TimerFires(r, p)
    BY <2>1, <2>2, <2>3 DEF TimerFires
  <2>4. CASE Interrupt(r, p)
    <3>1. timer' \in [Requests -> [Plugins -> Timers]]
      BY <2>1, <2>2, <2>4 DEF Interrupt
    <3>2. flag' \in [Plugins -> BOOLEAN]
      BY <2>1, <2>4, Zenon DEF Interrupt
    <3> QED BY <3>1, <3>2
  <2> QED BY <2>3, <2>4
<1>3. TypeOK'
  <2>1. \A q \in Plugins, x \in Requests : InCall(x, q)' <=> InCall(x, q)
    BY <1>1 DEF InCall
  <2> QED BY <1>1, <1>2, <2>1 DEF IInv, TypeOK
<1>4. ChainInv'
  BY <1>1 DEF IInv, ChainInv, Placed, Owed, Explicit, Calling, Plugins
<1> QED BY <1>1, <1>3, <1>4 DEF IInv, Exclusive, ReadsStayCurrent, Calling

-----------------------------------------------------------------------------
LEMMA StepKeepsIInv == IInv /\ [Next]_vars => IInv'
<1> SUFFICES ASSUME IInv, [Next]_vars PROVE IInv'
  OBVIOUS
<1>1. CASE UNCHANGED vars
  <2>1. UNCHANGED <<req, holder, flag, timer, kv>>
    BY <1>1 DEF vars
  <2>2. TypeOK'
    <3>1. \A q \in Plugins, x \in Requests : InCall(x, q)' <=> InCall(x, q)
      BY <2>1 DEF InCall
    <3> QED BY <2>1, <3>1 DEF IInv, TypeOK
  <2>3. ChainInv'
    BY <2>1 DEF IInv, ChainInv, Placed, Owed, Explicit, Calling, Plugins
  <2> QED BY <2>1, <2>2, <2>3 DEF IInv, Exclusive, ReadsStayCurrent, Calling
<1>2. ASSUME NEW r \in Requests, Arrive(r) PROVE IInv'
  BY <1>2, ArriveKeepsIInv
<1>3. ASSUME NEW r \in Requests, CallOnEvent(r) PROVE IInv'
  BY <1>3, CallKeepsIInv
<1>4. ASSUME NEW r \in Requests, Script(r) PROVE IInv'
  BY <1>4, EditKeepsIInv, KvKeepsIInv, ReturnObjectKeepsIInv, ReturnNullKeepsIInv, ErrorKeepsIInv
     DEF Script
<1>5. ASSUME NEW r \in Requests, KvGetReturns(r) \/ KvSetReturns(r) PROVE IInv'
  BY <1>5, KvKeepsIInv
<1>6. ASSUME NEW r \in Requests, Interrupted(r) PROVE IInv'
  BY <1>6, ErrorKeepsIInv
<1>7. ASSUME NEW r \in Requests, Save(r) PROVE IInv'
  BY <1>7, SaveKeepsIInv
<1>8. ASSUME NEW r \in Requests, NEW p \in Plugins, TimerFires(r, p) \/ Interrupt(r, p)
      PROVE  IInv'
  BY <1>8, TimerKeepsIInv
<1> QED BY <1>1, <1>2, <1>3, <1>4, <1>5, <1>6, <1>7, <1>8 DEF Next, AllAnswered

LEMMA AlwaysIInv == Spec => []IInv
BY InitIInv, StepKeepsIInv, PTL DEF Spec

(* Requests, runtimes and timers are well formed, and a plugin's mutex is held
   exactly while a call of its hook is in progress (callOnEvent), for any number
   of events and plugins. *)
THEOREM TypeCorrect == Spec => []TypeOK
<1>1. IInv => TypeOK
  BY DEF IInv
<1> QED BY <1>1, AlwaysIInv, PTL

(* A script's read-modify-write of its kv store is atomic across events, because
   callOnEvent holds the plugin's mutex over both statements. *)
THEOREM ReadsStayCurrentAlways == Spec => []ReadsStayCurrent
<1>1. IInv => ReadsStayCurrent
  BY DEF IInv
<1> QED BY <1>1, AlwaysIInv, PTL

(* An event is dropped only by a plugin that returned null or undefined, and one
   that is saved was seen by every hook (RunOnEvent, callOnEvent). *)
THEOREM DropsStayExplicit == Spec => []DropsAreExplicit
<1>1. IInv => DropsAreExplicit
  BY DEF IInv, ChainInv, Explicit, DropsAreExplicit
<1> QED BY <1>1, AlwaysIInv, PTL

(* A call that threw or timed out leaves no edit of name, path or referrer behind
   (callOnEvent's error branch, jsValueToEvent). *)
THEOREM ScalarsAreReturned == Spec => []ScalarsComeFromReturns
<1>1. IInv => ScalarsComeFromReturns
  BY DEF IInv, ChainInv, Owed, ScalarsComeFromReturns
<1> QED BY <1>1, AlwaysIInv, PTL

-----------------------------------------------------------------------------
(* Interrupts and timers.  An event's timers of the calls still ahead are not set,
   so a delivered one is never armed again; and a raised flag is paid for by a
   delivered timer that no interrupted call has used up yet. *)

Hit(p) == {r \in Requests : req[r].said[p] = "interrupted"}

RanOut(p) == {r \in Requests : timer[r][p] = "delivered"}

Raised(p) == IF flag[p] THEN 1 ELSE 0

\* Plugin p's call for request q is still to come.
Ahead(q, p) == q.pc # "done" /\ (p > q.at \/ (p = q.at /\ ~Calling(q)))

TimersAhead == \A r \in Requests, p \in Plugins : Ahead(req[r], p) => timer[r][p] = "unset"

Paid(p) == Cardinality(Hit(p)) + Raised(p) <= Cardinality(RanOut(p))

TimerInv == TimersAhead /\ \A p \in Plugins : Paid(p)

LEMMA InitTimerInv == Init => TimerInv
<1> SUFFICES ASSUME Init PROVE TimerInv
  OBVIOUS
<1>1. TimersAhead
  BY DEF Init, TimersAhead
<1>2. ASSUME NEW p \in Plugins PROVE Paid(p)
  <2>1. Hit(p) = {} /\ RanOut(p) = {} /\ Raised(p) = 0
    BY DEF Init, Hit, RanOut, Raised
  <2> QED BY <2>1, FS_EmptySet DEF Paid
<1> QED BY <1>1, <1>2 DEF TimerInv

\* Neither sets nor flag of plugin p change, or they only get better.
LEMMA PaidStays ==
  ASSUME IInv, IsFiniteSet(Requests), NEW p \in Plugins, Paid(p),
         Hit(p)' = Hit(p), RanOut(p)' = RanOut(p), flag'[p] \in {flag[p], FALSE}
  PROVE  Paid(p)'
<1>1. Cardinality(Hit(p)) \in Nat /\ Cardinality(RanOut(p)) \in Nat
  <2>1. IsFiniteSet(Hit(p)) /\ IsFiniteSet(RanOut(p))
    BY FS_Subset DEF Hit, RanOut
  <2> QED BY <2>1, FS_CardinalityType
<1>2. Raised(p)' <= Raised(p) /\ Raised(p) \in Nat /\ Raised(p)' \in Nat
  <2>1. Raised(p) \in {0, 1}
    BY DEF Raised
  <2>2. CASE flag'[p] = FALSE
    <3>1. Raised(p)' = 0
      BY <2>2 DEF Raised
    <3> QED BY <2>1, <3>1
  <2>3. CASE flag'[p] = flag[p]
    <3>1. Raised(p)' = Raised(p)
      BY <2>3 DEF Raised
    <3> QED BY <2>1, <3>1
  <2> QED BY <2>2, <2>3
<1>3. Cardinality(Hit(p))' = Cardinality(Hit(p)) /\ Cardinality(RanOut(p))' = Cardinality(RanOut(p))
  BY SMT
<1> QED BY <1>1, <1>2, <1>3 DEF Paid

\* Request r goes on, in or out of its call, with the same answers behind it.
LEMMA MoveKeepsTimers ==
  ASSUME IInv, TimerInv, IsFiniteSet(Requests), NEW r \in Requests, NEW s \in Request,
         req' = [req EXCEPT ![r] = s], s.said = req[r].said,
         \A p \in Plugins : Ahead(s, p) => Ahead(req[r], p),
         UNCHANGED <<flag, timer>>
  PROVE  TimerInv'
<1>1. req'[r] = s /\ \A x \in Requests : x # r => req'[x] = req[x]
  BY DEF IInv, TypeOK
<1>2. TimersAhead'
  <2> SUFFICES ASSUME NEW x \in Requests, NEW p \in Plugins, Ahead(req'[x], p)
               PROVE  timer[x][p] = "unset"
    BY DEF TimersAhead, Ahead, Calling, Plugins
  <2>1. Ahead(req[x], p)
    BY <1>1
  <2> QED BY <2>1 DEF TimerInv, TimersAhead
<1>3. ASSUME NEW p \in Plugins PROVE Paid(p)'
  <2>1. Hit(p)' = Hit(p) /\ RanOut(p)' = RanOut(p)
    BY <1>1 DEF Hit, RanOut
  <2> QED BY <2>1, PaidStays DEF TimerInv
<1> QED BY <1>2, <1>3 DEF TimerInv, Plugins

LEMMA CallKeepsTimers ==
  ASSUME IInv, TimerInv, IsFiniteSet(Requests), NEW r \in Requests, CallOnEvent(r)
  PROVE  TimerInv'
<1> DEFINE q == req[r]
           p == q.at
           s == [q EXCEPT !.pc = "js", !.js = q.ev]
<1>1. q \in Request /\ Placed(q) /\ q.pc = "lock"
  BY DEF IInv, TypeOK, ChainInv, CallOnEvent
<1>2. p \in Plugins
  BY <1>1, HostAssumption DEF Placed, Plugins
<1>3. s.pc = "js" /\ s.said = q.said /\ s.at = p
  BY <1>1 DEF Request
<1>4. req'[r] = s /\ \A x \in Requests : x # r => req'[x] = req[x]
  BY DEF IInv, TypeOK, CallOnEvent
<1>5. /\ timer' = [timer EXCEPT ![r][p] = "armed"] /\ flag' = flag
      /\ timer \in [Requests -> [Plugins -> Timers]]
  BY DEF IInv, TypeOK, CallOnEvent
<1>6. timer[r][p] = "unset"
  BY <1>1, <1>2 DEF TimerInv, TimersAhead, Ahead, Calling
<1> HIDE DEF s
<1>7. \A x \in Requests, y \in Plugins :
        timer'[x][y] = IF x = r /\ y = p THEN "armed" ELSE timer[x][y]
  BY <1>2, <1>5
<1>8. TimersAhead'
  <2> SUFFICES ASSUME NEW x \in Requests, NEW y \in Plugins, Ahead(req'[x], y)
               PROVE  timer'[x][y] = "unset"
    BY DEF TimersAhead, Ahead, Calling, Plugins
  <2>1. CASE x = r
    <3>1. y > p
      BY <2>1, <1>3, <1>4 DEF Ahead, Calling
    <3>2. Ahead(q, y) /\ y # p
      BY <3>1, <1>1, <1>2 DEF Ahead, Plugins
    <3> QED BY <3>2, <2>1, <1>7 DEF TimerInv, TimersAhead
  <2>2. CASE x # r
    BY <2>2, <1>4, <1>7 DEF TimerInv, TimersAhead
  <2> QED BY <2>1, <2>2
<1>9. ASSUME NEW y \in Plugins PROVE Paid(y)'
  <2>1. Hit(y)' = Hit(y)
    BY <1>3, <1>4 DEF Hit
  <2>2. RanOut(y)' = RanOut(y)
    BY <1>6, <1>7 DEF RanOut
  <2> QED BY <1>5, <2>1, <2>2, PaidStays DEF TimerInv
<1> QED BY <1>8, <1>9 DEF TimerInv, Plugins

LEMMA FinishKeepsTimers ==
  ASSUME IInv, TimerInv, IsFiniteSet(Requests), NEW r \in Requests, NEW s \in Request,
         NEW end \in Ends, Calling(req[r]), Finish(r),
         req' = [req EXCEPT ![r] = s], s.said = [req[r].said EXCEPT ![req[r].at] = end],
         s.pc = "done" \/ s.at > req[r].at,
         end = "interrupted" => flag[req[r].at]
  PROVE  TimerInv'
<1> DEFINE q == req[r]
           p == q.at
<1>1. q \in Request /\ Placed(q)
  BY DEF IInv, TypeOK, ChainInv
<1>2. p \in Plugins
  BY <1>1, HostAssumption DEF Placed, Plugins
<1>3. q.said[p] = "none" /\ q.said \in [Plugins -> Ends]
  BY <1>1, <1>2 DEF Placed, Calling, Request, Plugins
<1>4. req'[r] = s /\ \A x \in Requests : x # r => req'[x] = req[x]
  BY DEF IInv, TypeOK
<1>5. /\ timer' = [timer EXCEPT ![r][p] = IF @ = "armed" THEN "stopped" ELSE @]
      /\ flag' = [flag EXCEPT ![p] = FALSE]
      /\ timer \in [Requests -> [Plugins -> Timers]] /\ flag \in [Plugins -> BOOLEAN]
  BY DEF IInv, TypeOK, Finish
<1>6. \A x \in Requests, y \in Plugins : \/ timer'[x][y] = timer[x][y]
                                         \/ /\ x = r /\ y = p
                                            /\ timer[x][y] = "armed" /\ timer'[x][y] = "stopped"
  BY <1>2, <1>5
<1>7. TimersAhead'
  <2> SUFFICES ASSUME NEW x \in Requests, NEW y \in Plugins, Ahead(req'[x], y)
               PROVE  timer'[x][y] = "unset"
    BY DEF TimersAhead, Ahead, Calling, Plugins
  <2>1. Ahead(req[x], y)
    <3>1. CASE x = r
      <4>1. s.at > p /\ y >= s.at
        BY <3>1, <1>4 DEF Ahead, Request, Plugins
      <4>2. y > p /\ q.pc # "done"
        BY <4>1, <1>2 DEF Calling, Request, Plugins
      <4> QED BY <3>1, <4>2 DEF Ahead
    <3>2. CASE x # r
      BY <3>2, <1>4
    <3> QED BY <3>1, <3>2
  <2>2. timer[x][y] = "unset"
    BY <2>1 DEF TimerInv, TimersAhead
  <2> QED BY <2>2, <1>6
<1>8. ASSUME NEW y \in Plugins PROVE Paid(y)'
  <2>1. RanOut(y)' = RanOut(y)
    BY <1>6 DEF RanOut
  <2>2. \A x \in Requests : \/ req'[x].said[y] = req[x].said[y]
                            \/ x = r /\ y = p /\ req'[x].said[y] = end
    BY <1>3, <1>4
  <2>3. CASE y # p \/ end # "interrupted"
    <3>1. Hit(y)' = Hit(y)
      BY <2>2, <2>3, <1>3 DEF Hit
    <3>2. flag'[y] \in {flag[y], FALSE}
      BY <1>2, <1>5
    <3> QED BY <2>1, <3>1, <3>2, PaidStays DEF TimerInv
  <2>4. CASE y = p /\ end = "interrupted"
    <3>1. Hit(y)' = Hit(y) \cup {r} /\ r \notin Hit(y)
      BY <2>2, <2>4, <1>3, <1>4 DEF Hit
    <3>2. IsFiniteSet(Hit(y)) /\ IsFiniteSet(RanOut(y))
      BY FS_Subset DEF Hit, RanOut
    <3>3. /\ Cardinality(Hit(y) \cup {r}) = Cardinality(Hit(y)) + 1
          /\ Cardinality(Hit(y)) \in Nat /\ Cardinality(RanOut(y)) \in Nat
      BY <3>1, <3>2, FS_AddElement, FS_CardinalityType
    <3>4. Raised(y) = 1 /\ Raised(y)' = 0
      BY <2>4, <1>2, <1>5 DEF Raised
    <3>5. Cardinality(Hit(y)) + 1 <= Cardinality(RanOut(y))
      BY <3>4 DEF TimerInv, Paid
    <3>6. Cardinality(Hit(y)') + 0 <= Cardinality(RanOut(y)')
      BY <2>1, <3>1, <3>3, <3>5
    <3> QED BY <3>4, <3>6 DEF Paid
  <2> QED BY <2>3, <2>4
<1> QED BY <1>7, <1>8 DEF TimerInv, Plugins

LEMMA TimerKeepsTimers ==
  ASSUME IInv, TimerInv, IsFiniteSet(Requests), NEW r \in Requests, NEW p \in Plugins,
         TimerFires(r, p) \/ Interrupt(r, p)
  PROVE  TimerInv'
<1>1. timer \in [Requests -> [Plugins -> Timers]] /\ flag \in [Plugins -> BOOLEAN] /\ req' = req
  BY DEF IInv, TypeOK, TimerFires, Interrupt
<1>2. \A x \in Requests, y \in Plugins :
        \/ timer'[x][y] = timer[x][y]
        \/ x = r /\ y = p /\ timer[x][y] \in {"armed", "fired"} /\ timer'[x][y] # "unset"
  BY <1>1 DEF TimerFires, Interrupt
<1>3. TimersAhead'
  <2> SUFFICES ASSUME NEW x \in Requests, NEW y \in Plugins, Ahead(req[x], y)
               PROVE  timer'[x][y] = "unset"
    BY <1>1 DEF TimersAhead, Ahead, Calling, Plugins
  <2>1. timer[x][y] = "unset"
    BY DEF TimerInv, TimersAhead
  <2> QED BY <2>1, <1>2
<1>4. ASSUME NEW y \in Plugins PROVE Hit(y)' = Hit(y)
  BY <1>1 DEF Hit
<1>5. ASSUME NEW y \in Plugins PROVE Paid(y)'
  <2>1. CASE TimerFires(r, p)
    <3>1. RanOut(y)' = RanOut(y)
      BY <2>1, <1>1 DEF TimerFires, RanOut
    <3>2. flag' = flag
      BY <2>1 DEF TimerFires
    <3> QED BY <1>4, <3>1, <3>2, PaidStays DEF TimerInv
  <2>2. CASE Interrupt(r, p) /\ y # p
    <3>1. RanOut(y)' = RanOut(y)
      BY <2>2, <1>1 DEF Interrupt, RanOut
    <3>2. flag'[y] = flag[y]
      BY <2>2, <1>1, Zenon DEF Interrupt
    <3> QED BY <1>4, <3>1, <3>2, PaidStays DEF TimerInv
  <2>3. CASE Interrupt(r, p) /\ y = p
    <3>1. RanOut(y)' = RanOut(y) \cup {r} /\ r \notin RanOut(y)
      BY <2>3, <1>1 DEF Interrupt, RanOut
    <3>2. IsFiniteSet(Hit(y)) /\ IsFiniteSet(RanOut(y))
      BY FS_Subset DEF Hit, RanOut
    <3>3. /\ Cardinality(RanOut(y) \cup {r}) = Cardinality(RanOut(y)) + 1
          /\ Cardinality(Hit(y)) \in Nat /\ Cardinality(RanOut(y)) \in Nat
      BY <3>1, <3>2, FS_AddElement, FS_CardinalityType
    <3>4. Raised(y)' <= 1 /\ Raised(y) >= 0 /\ Raised(y) \in Nat /\ Raised(y)' \in Nat
      BY DEF Raised
    <3>5. Cardinality(Hit(y)) <= Cardinality(RanOut(y))
      BY <3>3, <3>4 DEF TimerInv, Paid
    <3>6. Cardinality(Hit(y)') + Raised(y)' <= Cardinality(RanOut(y)')
      BY <1>4, <3>1, <3>3, <3>4, <3>5
    <3> QED BY <3>6 DEF Paid
  <2> QED BY <2>1, <2>2, <2>3
<1> QED BY <1>3, <1>5 DEF TimerInv, Plugins

LEMMA OnwardGoesOn ==
  ASSUME NEW q \in Request, NEW p \in 1..(PluginCount + 1), NEW ev \in Event
  PROVE  /\ Onward(q, p, ev) \in Request
         /\ Onward(q, p, ev).at = NextHook(p)
         /\ Onward(q, p, ev).said = q.said
         /\ NextHook(p) \in 1..(PluginCount + 1) /\ NextHook(p) >= p
<1>1. NextHook(p) \in 1..(PluginCount + 1) /\ NextHook(p) >= p
  BY NextHookFinds
<1>2. Blank \in Event
  BY DEF Blank, Event
<1> QED BY <1>1, <1>2 DEF Onward, Request

\* A call that ends takes the event to a later place in the chain.
LEMMA EndKeepsTimers ==
  ASSUME IInv, TimerInv, IsFiniteSet(Requests), NEW r \in Requests, Calling(req[r]), Finish(r),
         NEW ev \in Event, NEW end \in Ends, NEW nil \in BOOLEAN,
         end = "interrupted" => flag[req[r].at],
         req' = [req EXCEPT ![r] =
                   [Onward(req[r], req[r].at + 1, ev) EXCEPT !.said[req[r].at] = end, !.nil = nil]]
  PROVE  TimerInv'
<1> DEFINE q == req[r]
           t == [q EXCEPT !.said[q.at] = end, !.nil = nil]
           s == [Onward(q, q.at + 1, ev) EXCEPT !.said[q.at] = end, !.nil = nil]
<1>1. q \in Request /\ q.at \in Plugins
  BY InCallFacts
<1>2. q.at + 1 \in 1..(PluginCount + 1)
  BY <1>1, HostAssumption DEF Plugins
<1>3. t \in Request /\ t.said = [q.said EXCEPT ![q.at] = end]
  BY <1>1 DEF Request
<1>4. s = Onward(t, q.at + 1, ev)
  BY <1>1 DEF Onward, Request
<1>5. req' = [req EXCEPT ![r] = s]
  OBVIOUS
<1> HIDE DEF s, t
<1>6. s \in Request /\ s.at = NextHook(q.at + 1) /\ s.said = t.said /\ NextHook(q.at + 1) >= q.at + 1
      /\ NextHook(q.at + 1) \in 1..(PluginCount + 1)
  <2> HIDE DEF q
  <2> QED BY <1>2, <1>3, <1>4, OnwardGoesOn
<1>7. s.at > q.at
  BY <1>1, <1>6, HostAssumption DEF Plugins
<1> QED BY <1>3, <1>5, <1>6, <1>7, FinishKeepsTimers

LEMMA ScriptKeepsTimers ==
  ASSUME IInv, TimerInv, IsFiniteSet(Requests), NEW r \in Requests,
         Script(r) \/ KvGetReturns(r) \/ KvSetReturns(r) \/ Interrupted(r)
  PROVE  TimerInv'
<1> DEFINE q == req[r]
<1>1. Calling(q)
  BY DEF Script, Edit, KvGet, KvSet, KvGetReturns, KvSetReturns, ReturnObject, ReturnNull, Throw,
         Interrupted, Running, Calling
<1>2. q \in Request /\ q.at \in Plugins
  BY <1>1, InCallFacts
<1>3. ASSUME NEW s \in Request, req' = [req EXCEPT ![r] = s], s.said = q.said, s.at = q.at,
             Calling(s), UNCHANGED <<flag, timer>>
      PROVE  TimerInv'
  <2>1. \A p \in Plugins : Ahead(s, p) => Ahead(q, p)
    BY <1>1, <1>3 DEF Ahead, Calling
  <2> QED BY <1>3, <2>1, MoveKeepsTimers
<1>4. ASSUME NEW f \in Fields, Edit(r, f) PROVE TimerInv'
  <2> DEFINE m == IF f = "metadata" /\ ~q.nil THEN {q.at} ELSE {}
             s == [q EXCEPT !.js[f] = @ \cup {q.at}, !.ev.metadata = @ \cup m]
  <2>1. req' = [req EXCEPT ![r] = s] /\ UNCHANGED <<flag, timer>>
    BY <1>4 DEF Edit
  <2>2. s \in Request /\ s.said = q.said /\ s.at = q.at /\ s.pc = q.pc
    <3>1. CASE f = "scalars"
      BY <1>2, <3>1 DEF Request, Event
    <3>2. CASE f = "metadata"
      BY <1>2, <3>2 DEF Request, Event
    <3> QED BY <3>1, <3>2 DEF Fields
  <2> HIDE DEF s
  <2> QED BY <1>1, <1>3, <2>1, <2>2 DEF Calling
<1>5. ASSUME NEW pc \in {"js", "kvget", "kvset"}, NEW got \in {"unread", "read", "missed", "written"},
             NEW val \in Nat, req' = [req EXCEPT ![r] = [q EXCEPT !.pc = pc, !.got = got, !.val = val]],
             UNCHANGED <<flag, timer>>
      PROVE  TimerInv'
  <2> DEFINE s == [q EXCEPT !.pc = pc, !.got = got, !.val = val]
  <2>1. s \in Request /\ s.said = q.said /\ s.at = q.at /\ s.pc = pc
    BY <1>2 DEF Request
  <2> HIDE DEF s
  <2>2. req' = [req EXCEPT ![r] = s]
    BY <1>5 DEF s
  <2> QED BY <1>3, <1>5, <2>1, <2>2 DEF Calling
<1>6. CASE KvGet(r) \/ KvSet(r) \/ KvGetReturns(r) \/ KvSetReturns(r)
  <2>1. UNCHANGED <<flag, timer>>
    BY <1>6 DEF KvGet, KvSet, KvGetReturns, KvSetReturns
  <2>2. \E pc \in {"js", "kvget", "kvset"}, got \in {"unread", "read", "missed", "written"}, val \in Nat :
          req' = [req EXCEPT ![r] = [q EXCEPT !.pc = pc, !.got = got, !.val = val]]
    <3>1. /\ q.got \in {"unread", "read", "missed", "written"} /\ q.val \in Nat
          /\ kv[q.at] \in Nat /\ req \in [Requests -> Request]
      BY <1>2 DEF Request, IInv, TypeOK
    <3>2. CASE KvGet(r)
      <4>1. req' = [req EXCEPT ![r] = [q EXCEPT !.pc = "kvget", !.got = q.got, !.val = q.val]]
        BY <1>2, <3>1, <3>2 DEF KvGet, Request
      <4> QED BY <3>1, <4>1
    <3>3. CASE KvSet(r)
      <4>1. req' = [req EXCEPT ![r] = [q EXCEPT !.pc = "kvset", !.got = q.got, !.val = q.val]]
        BY <1>2, <3>1, <3>3 DEF KvSet, Request
      <4> QED BY <3>1, <4>1
    <3>4. CASE KvGetReturns(r)
      BY <3>1, <3>4 DEF KvGetReturns
    <3>5. CASE KvSetReturns(r)
      <4>1. req' = [req EXCEPT ![r] = [q EXCEPT !.pc = "js", !.got = "written", !.val = q.val]]
        BY <1>2, <3>1, <3>5 DEF KvSetReturns, Request
      <4> QED BY <3>1, <4>1
    <3> QED BY <1>6, <3>2, <3>3, <3>4, <3>5
  <2> QED BY <1>5, <2>1, <2>2
<1>7. CASE ReturnObject(r)
  <2>1. PICK fields \in SUBSET Fields :
          req' = [req EXCEPT ![r] =
            [Onward(q, q.at + 1, [f \in Fields |-> IF f \in fields THEN q.js[f] ELSE q.ev[f]])
             EXCEPT !.said[q.at] = "object", !.nil = q.nil /\ "metadata" \notin fields]]
    <3>1. PICK fields \in SUBSET Fields :
            req' = [req EXCEPT ![r] =
              [Onward(q, q.at + 1, [f \in Fields |-> IF f \in fields THEN q.js[f] ELSE q.ev[f]])
               EXCEPT !.said[q.at] = "object", !.nil = @ /\ "metadata" \notin fields]]
      BY <1>7 DEF ReturnObject
    <3>2. Onward(q, q.at + 1, [f \in Fields |-> IF f \in fields THEN q.js[f] ELSE q.ev[f]]).nil = q.nil
      BY <1>2 DEF Onward, Request
    <3> QED BY <3>1, <3>2
  <2> DEFINE ev == [f \in Fields |-> IF f \in fields THEN q.js[f] ELSE q.ev[f]]
  <2>2. ev \in Event
    <3>1. /\ DOMAIN ev = {"scalars", "metadata"}
          /\ ev = [scalars |-> ev["scalars"], metadata |-> ev["metadata"]]
      BY DEF Fields
    <3>2. ev["scalars"] \in SUBSET Plugins /\ ev["metadata"] \in SUBSET Plugins
      BY <1>2 DEF Request, Event, Fields
    <3> QED BY <3>1, <3>2 DEF Event
  <2>3. req' = [req EXCEPT ![r] =
          [Onward(q, q.at + 1, ev) EXCEPT !.said[q.at] = "object",
                                          !.nil = q.nil /\ "metadata" \notin fields]]
    BY <2>1
  <2>4. Finish(r) /\ "object" \in Ends /\ (q.nil /\ "metadata" \notin fields) \in BOOLEAN
    BY <1>7 DEF ReturnObject, Ends
  <2> HIDE DEF ev
  <2> QED BY <1>1, <2>2, <2>3, <2>4, EndKeepsTimers
<1>8. CASE Throw(r) \/ Interrupted(r)
  <2>1. PICK end \in {"threw", "interrupted"} :
          /\ req' = [req EXCEPT ![r] = [Onward(q, q.at + 1, q.ev) EXCEPT !.said[q.at] = end]]
          /\ end = "interrupted" => flag[q.at]
    BY <1>8 DEF Throw, Interrupted, Keep
  <2>2. [Onward(q, q.at + 1, q.ev) EXCEPT !.said[q.at] = end]
          = [Onward(q, q.at + 1, q.ev) EXCEPT !.said[q.at] = end, !.nil = q.nil]
    BY <1>2 DEF Onward, Request
  <2>3. q.ev \in Event /\ q.nil \in BOOLEAN /\ end \in Ends /\ Finish(r)
    BY <1>2, <1>8 DEF Request, Ends, Throw, Interrupted
  <2>4. req' = [req EXCEPT ![r] = [Onward(q, q.at + 1, q.ev) EXCEPT !.said[q.at] = end, !.nil = q.nil]]
    BY <2>1, <2>2
  <2>5. end = "interrupted" => flag[q.at]
    BY <2>1
  <2> DEFINE ev == q.ev
             nil == q.nil
  <2>6. /\ ev \in Event /\ nil \in BOOLEAN
        /\ req' = [req EXCEPT ![r] = [Onward(q, q.at + 1, ev) EXCEPT !.said[q.at] = end, !.nil = nil]]
    BY <2>3, <2>4
  <2> HIDE DEF ev, nil
  <2> QED BY <1>1, <2>3, <2>5, <2>6, EndKeepsTimers
<1>9. CASE ReturnNull(r)
  <2> DEFINE s == [q EXCEPT !.pc = "done", !.out = "dropped", !.said[q.at] = "null",
                            !.js = Blank, !.ev = Blank, !.got = "unread", !.val = 0]
  <2>1. req' = [req EXCEPT ![r] = s] /\ Finish(r) /\ "null" \in Ends
    BY <1>9 DEF ReturnNull, Ends
  <2>2. s \in Request /\ s.pc = "done" /\ s.said = [q.said EXCEPT ![q.at] = "null"]
    BY <1>2 DEF Request, Ends, Blank, Event
  <2> HIDE DEF s
  <2> QED BY <1>1, <2>1, <2>2, FinishKeepsTimers
<1> QED BY <1>4, <1>6, <1>7, <1>8, <1>9 DEF Script

LEMMA StepKeepsTimers ==
  ASSUME IInv, TimerInv, IsFiniteSet(Requests), [Next]_vars PROVE TimerInv'
<1>1. CASE UNCHANGED vars
  <2>1. UNCHANGED <<req, flag, timer>>
    BY <1>1 DEF vars
  <2>2. TimersAhead'
    BY <2>1 DEF TimerInv, TimersAhead, Ahead, Calling, Plugins
  <2>3. ASSUME NEW p \in Plugins PROVE Paid(p)'
    <3>1. Hit(p)' = Hit(p) /\ RanOut(p)' = RanOut(p) /\ flag'[p] = flag[p]
      BY <2>1 DEF Hit, RanOut
    <3> QED BY <3>1, PaidStays DEF TimerInv
  <2> QED BY <2>2, <2>3 DEF TimerInv, Plugins
<1>2. ASSUME NEW r \in Requests, Arrive(r) PROVE TimerInv'
  <2> DEFINE q == req[r]
  <2>1. PICK nil \in Nils : req' = [req EXCEPT ![r] = [Onward(q, 1, Blank) EXCEPT !.nil = nil]]
    BY <1>2 DEF Arrive
  <2> DEFINE s == [Onward(q, 1, Blank) EXCEPT !.nil = nil]
  <2>2. q \in Request /\ q.pc = "idle" /\ q.at = 1 /\ UNCHANGED <<flag, timer>>
    BY <1>2 DEF IInv, TypeOK, ChainInv, Placed, Arrive
  <2>3. NextHook(1) \in 1..(PluginCount + 1) /\ Blank \in Event /\ nil \in BOOLEAN
    BY NextHookFinds, HostAssumption DEF Blank, Event
  <2>4. s \in Request /\ s.said = q.said /\ s.at = NextHook(1)
    <3> DEFINE o == Onward(q, 1, Blank)
    <3>1. o \in Request /\ o.said = q.said /\ o.at = NextHook(1)
      BY <2>2, <2>3 DEF Onward, Request
    <3> HIDE DEF o
    <3>2. s = [o EXCEPT !.nil = nil]
      BY DEF o
    <3> HIDE DEF s, q
    <3> QED BY <2>3, <3>1, <3>2 DEF Request
  <2>5. req' = [req EXCEPT ![r] = s]
    BY <2>1
  <2> HIDE DEF s
  <2>6. \A p \in Plugins : Ahead(s, p) => Ahead(q, p)
    BY <2>2, <2>3, <2>4, HostAssumption DEF Ahead, Calling, Plugins
  <2> QED BY <2>2, <2>4, <2>5, <2>6, MoveKeepsTimers
<1>3. ASSUME NEW r \in Requests, Save(r) PROVE TimerInv'
  <2> DEFINE s == [req[r] EXCEPT !.pc = "done", !.out = "saved", !.ev = Blank]
  <2>1. req[r] \in Request /\ UNCHANGED <<flag, timer>> /\ req' = [req EXCEPT ![r] = s]
    BY <1>3 DEF IInv, TypeOK, Save
  <2>2. s \in Request /\ s.said = req[r].said /\ s.pc = "done"
    BY <2>1 DEF Request, Blank, Event
  <2> HIDE DEF s
  <2> QED BY <2>1, <2>2, MoveKeepsTimers DEF Ahead
<1> QED BY <1>1, <1>2, <1>3, CallKeepsTimers, ScriptKeepsTimers, TimerKeepsTimers
        DEF Next, AllAnswered

(* A plugin has no more interrupted calls than timers that ran out, however late
   their goroutines get to run: callOnEvent clears the flag at the end of every
   call, also of one that a late timer hits.  For any finite number of events. *)
THEOREM InterruptsArePaid ==
  ASSUME IsFiniteSet(Requests) PROVE Spec => []OneInterruptPerTimer
<1>1. IInv /\ TimerInv => OneInterruptPerTimer
  <2> SUFFICES ASSUME TimerInv, NEW p \in Plugins
               PROVE  Cardinality(Hit(p)) <= Cardinality(RanOut(p))
    BY DEF OneInterruptPerTimer, Hit, RanOut
  <2>1. Cardinality(Hit(p)) \in Nat /\ Cardinality(RanOut(p)) \in Nat
    <3>1. IsFiniteSet(Hit(p)) /\ IsFiniteSet(RanOut(p))
      BY FS_Subset DEF Hit, RanOut
    <3> QED BY <3>1, FS_CardinalityType
  <2>2. Raised(p) \in {0, 1}
    BY DEF Raised
  <2> QED BY <2>1, <2>2 DEF TimerInv, Paid
<1>2. IInv /\ TimerInv /\ [Next]_vars => TimerInv'
  BY StepKeepsTimers
<1> QED BY <1>1, <1>2, InitTimerInv, AlwaysIInv, PTL DEF Spec
=============================================================================
