--------------------------- MODULE TrackingProofs ---------------------------
(* What holds of the tracking calls for any number of tabs, ids, pages, calls
   and losses of the cookie, in whatever order the calls arrive.

   The inductive invariant says of a load that its last page view is of the page
   its tab shows, of a row what the last identify applied to it gave, and of
   the cookie that it is the one id of its era, unless first loads raced.  What
   the statistics make of it rests on StatisticsProofs, about the rows of Table. *)
EXTENDS Tracking, SequenceTheorems, FiniteSetTheorems, TLAPS

-----------------------------------------------------------------------------
(* The inductive invariant. *)

\* The last page view of a load is of page p.
LastView(load, p) ==
  \E i \in Views(load) : sent[i].path = p /\ \A k \in Views(load) : k <= i

TabOK(t) ==
  /\ tab[t].pc # "closed" => tab[t].id \in Visitors /\ tab[t].path \in Paths
  /\ tab[t].pc = "loading" => tab[t].last = None
  /\ tab[t].pc = "ready" => /\ tab[t].last = tab[t].path
                            /\ tab[t].load \in 1..Len(sent)
                            /\ LastView(tab[t].load, tab[t].path)

\* Every load has a number of its own, that of its first call.
TabInv == /\ \A t \in Tabs : TabOK(t)
          /\ \A t, u \in Tabs : /\ tab[t].pc = "ready" /\ tab[u].pc = "ready"
                                /\ tab[t].load = tab[u].load
                                => t = u
          /\ \A i \in DOMAIN sent : sent[i].load <= i

\* Two page views of one load with none between them are of different pages.
ViewInv ==
  \A i, j \in DOMAIN sent :
    /\ i < j /\ i \in Views(sent[j].load) /\ j \in Views(sent[j].load)
    /\ \A k \in Views(sent[j].load) : k <= i \/ k >= j
    => sent[i].path # sent[j].path

\* value is the last call at positions S of log, 0 if there is none.
LastAt(S, value) == \/ S = {} /\ value = 0
                    \/ \E n \in S : value = log[n] /\ \A m \in S : m <= n

ForVisitor(v) == {n \in DOMAIN log : sent[log[n]].op = "identify" /\ sent[log[n]].visitor = v}
NameCalls(v) == {n \in ForVisitor(v) : sent[log[n]].named}
TraitCalls(v, x) == {n \in ForVisitor(v) : x \in sent[log[n]].traits}

\* A row has what the last calls gave.
RowInv == \A v \in Visitors : /\ LastAt(NameCalls(v), Row(v).name)
                              /\ \A x \in Traits : LastAt(TraitCalls(v, x), Row(v).traits[x])

\* The ids that calls of era e were sent with.
IdsOf(e) == {sent[i].visitor : i \in {j \in DOMAIN sent : sent[j].era = e}}

\* Tabs that read no cookie and have not written theirs yet.
Pending == {t \in Tabs : tab[t].pc = "loading" /\ ~tab[t].found}

Established(t) == tab[t].pc = "ready" \/ (tab[t].pc = "loading" /\ tab[t].found)

\* Only a pending tab brings a new id, and none turns pending while there is a cookie.
EraInv ==
  /\ \A t \in Tabs : Established(t) => tab[t].id \in IdsOf(tab[t].era)
  /\ cookie # None => cookie \in IdsOf(era)
  /\ cookie = None => IdsOf(era) = {}
  /\ \A i \in DOMAIN sent : sent[i].era <= era
  /\ \A e \in 0..MaxEras : IsFiniteSet(IdsOf(e)) /\ Cardinality(IdsOf(e)) <= Cardinality(Tabs)
  /\ ~raced => \A e \in 0..MaxEras : Cardinality(IdsOf(e)) <= 1
  /\ cookie # None => Cardinality(IdsOf(era)) + Cardinality(Pending) <= Cardinality(Tabs)

IInv == TypeOK /\ TabInv /\ ViewInv /\ RowInv /\ EraInv

-----------------------------------------------------------------------------
(* Facts about sequences and sets that the steps rest on. *)

LEMMA SeqGrows ==
  ASSUME NEW S, NEW T, S \subseteq T, NEW s \in Seq(S) PROVE s \in Seq(T)
<1>1. Len(s) \in Nat /\ s \in [1..Len(s) -> S]
  BY LenProperties
<1>2. s \in [1..Len(s) -> T]
  BY <1>1
<1> QED BY <1>1, <1>2, IsASeq

LEMMA Appended ==
  ASSUME NEW S, NEW s \in Seq(S), NEW e \in S
  PROVE  /\ Append(s, e) \in Seq(S) /\ Len(s) \in Nat
         /\ Len(Append(s, e)) = Len(s) + 1
         /\ DOMAIN s = 1..Len(s)
         /\ DOMAIN Append(s, e) = DOMAIN s \cup {Len(s) + 1}
         /\ Len(s) + 1 \notin DOMAIN s
         /\ \A i \in DOMAIN s : Append(s, e)[i] = s[i] /\ s[i] \in S
         /\ Append(s, e)[Len(s) + 1] = e
<1>1. Len(s) \in Nat /\ DOMAIN s = 1..Len(s) /\ \A i \in DOMAIN s : s[i] \in S
  BY LenProperties, ElementOfSeq
<1>2. /\ Append(s, e) \in Seq(S)
      /\ Len(Append(s, e)) = Len(s) + 1
      /\ \A i \in 1..Len(s) : Append(s, e)[i] = s[i]
      /\ Append(s, e)[Len(s) + 1] = e
  BY AppendProperties
<1>3. DOMAIN Append(s, e) = 1..(Len(s) + 1)
  BY <1>2, LenProperties
<1> QED BY <1>1, <1>2, <1>3

LEMMA TabsFinite == IsFiniteSet(Tabs) /\ Cardinality(Tabs) \in Nat
BY TrackingAssumption, FS_CardinalityType

LEMMA PendingFinite ==
  IsFiniteSet(Pending) /\ Cardinality(Pending) \in Nat /\ Cardinality(Pending) <= Cardinality(Tabs)
<1>1. Pending \subseteq Tabs
  BY DEF Pending
<1> QED BY <1>1, TabsFinite, FS_Subset, FS_CardinalityType

LEMMA InitIInv == Init => IInv
<1> SUFFICES ASSUME Init PROVE IInv
  OBVIOUS
<1>1. /\ sent = <<>> /\ DOMAIN sent = {} /\ Len(sent) = 0 /\ log = <<>> /\ DOMAIN log = {}
      /\ \A t \in Tabs : tab[t] = Closed
      /\ sent \in Seq(CallType) /\ log \in Seq(DOMAIN sent \ flying)
  BY EmptySeq DEF Init
<1>2. Closed \in TabType /\ Closed.pc = "closed"
  BY TrackingAssumption DEF Closed, TabType
<1>3. TypeOK
  <2>1. tab \in [Tabs -> TabType]
    BY <1>2 DEF Init
  <2>2. visitors \in [Visitors -> [name : 0..MaxSends, traits : [Traits -> 0..MaxSends]] \cup {None}]
    BY DEF Init
  <2>3. cookie = None /\ flying = {} /\ blanked = {} /\ era = 0 /\ raced = FALSE
    BY DEF Init
  <2>4. 0 \in 0..MaxEras /\ 0 <= MaxSends
    BY TrackingAssumption
  <2> QED BY <1>1, <2>1, <2>2, <2>3, <2>4 DEF TypeOK
<1>4. TabInv /\ ViewInv
  BY <1>1, <1>2 DEF TabInv, ViewInv, TabOK
<1>5. RowInv
  <2>1. \A v \in Visitors : NameCalls(v) = {} /\ \A x \in Traits : TraitCalls(v, x) = {}
    BY <1>1 DEF NameCalls, TraitCalls, ForVisitor
  <2>2. \A v \in Visitors : Row(v).name = 0 /\ \A x \in Traits : Row(v).traits[x] = 0
    BY DEF Row, Init
  <2> QED BY <2>1, <2>2 DEF RowInv, LastAt
<1>6. EraInv
  <2>1. \A e : IdsOf(e) = {}
    BY <1>1 DEF IdsOf
  <2>2. \A t \in Tabs : ~Established(t)
    BY <1>1, <1>2 DEF Established
  <2>3. \A e : IsFiniteSet(IdsOf(e)) /\ Cardinality(IdsOf(e)) = 0
    BY <2>1, FS_EmptySet
  <2>4. cookie = None
    BY DEF Init
  <2> QED BY <1>1, <2>1, <2>2, <2>3, <2>4, TabsFinite DEF EraInv
<1> QED BY <1>3, <1>4, <1>5, <1>6 DEF IInv

-----------------------------------------------------------------------------
(* A send: one more call, and the tab that sent it in a new state. *)

CallShape == [op : {"track", "identify"}, kind : {"pageview", "custom", "error"},
              named : BOOLEAN, traits : SUBSET Traits, meta : Metas \cup {"absent"},
              auto : BOOLEAN]

\* The state in which a tab that shows a page sends a call.
Sender(q) == /\ q \in TabType /\ q.pc = "ready" /\ q.id \in Visitors /\ q.path \in Paths
             /\ q.last = q.path /\ q.load \in 1..(Len(sent) + 1)

\* What a send does, field by field.
OneMore(t, q, c) ==
  LET n == Len(sent) + 1 IN
  /\ Len(sent) \in Nat /\ n \in 1..MaxSends
  /\ tab' \in [Tabs -> TabType] /\ tab'[t] = q /\ \A u \in Tabs : u # t => tab'[u] = tab[u]
  /\ sent' \in Seq(CallType) /\ Len(sent') = n
  /\ DOMAIN sent = 1..Len(sent) /\ n \notin DOMAIN sent /\ DOMAIN sent' = DOMAIN sent \cup {n}
  /\ \A i \in DOMAIN sent : sent'[i] = sent[i]
  /\ sent'[n].op = c.op /\ sent'[n].auto = c.auto
  /\ sent'[n].path = (IF c.op = "track" THEN q.path ELSE None)
  /\ sent'[n].visitor = q.id /\ sent'[n].load = q.load /\ sent'[n].era = q.era
  /\ flying' = flying \cup {n}
  /\ log' = log /\ blanked' = blanked /\ visitors' = visitors /\ era' = era

LEMMA SendIsOneMore ==
  ASSUME TypeOK, NEW t \in Tabs, NEW q, Sender(q), NEW c \in CallShape, Send(t, q, c)
  PROVE  OneMore(t, q, c)
<1> DEFINE n == Len(sent) + 1
           new == [op |-> c.op, kind |-> c.kind, named |-> c.named,
                   traits |-> c.traits, meta |-> c.meta, auto |-> c.auto,
                   visitor |-> q.id, path |-> IF c.op = "track" THEN q.path ELSE None,
                   load |-> q.load, era |-> q.era]
<1>1. Len(sent) \in Nat /\ n \in 1..MaxSends
  BY LenProperties, TrackingAssumption DEF TypeOK, Send
<1>2. new \in CallType
  BY <1>1 DEF CallType, CallShape, Sender, TabType
<1>3. /\ new.op = c.op /\ new.auto = c.auto /\ new.visitor = q.id
      /\ new.path = (IF c.op = "track" THEN q.path ELSE None)
      /\ new.load = q.load /\ new.era = q.era
  OBVIOUS
<1>4. sent' = Append(sent, new) /\ flying' = flying \cup {n}
  BY DEF Send
<1> HIDE DEF new
<1>5. /\ sent' \in Seq(CallType) /\ Len(sent') = n
      /\ DOMAIN sent = 1..Len(sent) /\ n \notin DOMAIN sent /\ DOMAIN sent' = DOMAIN sent \cup {n}
      /\ \A i \in DOMAIN sent : sent'[i] = sent[i]
      /\ sent'[n] = new
  BY <1>2, <1>4, Appended DEF TypeOK
<1>6. tab' \in [Tabs -> TabType] /\ tab'[t] = q /\ \A u \in Tabs : u # t => tab'[u] = tab[u]
  BY DEF Send, TypeOK, Sender
<1> QED BY <1>1, <1>3, <1>4, <1>5, <1>6 DEF OneMore, Send

LEMMA OneMoreKeepsTypeOK ==
  ASSUME TypeOK, NEW t \in Tabs, NEW q, NEW c, OneMore(t, q, c),
         cookie' \in Visitors \cup {None}, raced' \in BOOLEAN
  PROVE  TypeOK'
<1>1. DOMAIN sent' \ flying' = DOMAIN sent \ flying
  BY DEF OneMore, TypeOK
<1>2. log' \in Seq(DOMAIN sent' \ flying')
  BY <1>1 DEF OneMore, TypeOK
<1>3. flying' \subseteq DOMAIN sent' /\ Len(sent') <= MaxSends
  BY DEF OneMore, TypeOK
<1> QED BY <1>2, <1>3 DEF OneMore, TypeOK

\* No row and no entry of the log is about a call not sent yet.
LEMMA OneMoreKeepsRowInv ==
  ASSUME TypeOK, RowInv, NEW t \in Tabs, NEW q, NEW c, OneMore(t, q, c)
  PROVE  RowInv'
<1>1. \A n \in DOMAIN log : log[n] \in DOMAIN sent
  BY ElementOfSeq, LenProperties DEF TypeOK
<1>2. \A n \in DOMAIN log : sent'[log'[n]] = sent[log[n]]
  BY <1>1 DEF OneMore
<1>3. \A v : ForVisitor(v)' = ForVisitor(v)
  BY <1>2 DEF ForVisitor, OneMore
<1>4. \A n, v : n \in ForVisitor(v) => n \in DOMAIN log
  BY DEF ForVisitor
<1>5. \A v : NameCalls(v)' = NameCalls(v) /\ \A x : TraitCalls(v, x)' = TraitCalls(v, x)
  BY <1>2, <1>3, <1>4 DEF NameCalls, TraitCalls
<1>6. \A v : Row(v)' = Row(v)
  BY DEF Row, OneMore
<1>7. log' = log
  BY DEF OneMore
<1> QED BY <1>5, <1>6, <1>7 DEF RowInv, LastAt

-----------------------------------------------------------------------------
(* What a send does to the page views of the loads. *)

\* Another call from the same page, the view of another page, the first view of a load.
SamePage(t, q, c) == ~c.auto /\ tab[t].pc = "ready" /\ q.load = tab[t].load /\ q.path = tab[t].path
NextPage(t, q, c) == /\ c.auto /\ c.op = "track" /\ tab[t].pc = "ready"
                     /\ q.load = tab[t].load /\ q.path # tab[t].path
FirstPage(q, c) == c.auto /\ c.op = "track" /\ q.load = Len(sent) + 1

LEMMA ViewsAfter ==
  ASSUME TypeOK, NEW t \in Tabs, NEW q, NEW c, OneMore(t, q, c), NEW load
  PROVE  /\ c.auto /\ q.load = load => Views(load)' = Views(load) \cup {Len(sent) + 1}
         /\ ~(c.auto /\ q.load = load) => Views(load)' = Views(load)
         /\ \A i \in Views(load) : i \in DOMAIN sent /\ i <= Len(sent) /\ sent'[i] = sent[i]
<1> DEFINE n == Len(sent) + 1
<1>1. \A i \in DOMAIN sent : i \in DOMAIN sent' /\ sent'[i] = sent[i]
  BY DEF OneMore
<1>2. sent'[n].auto = c.auto /\ sent'[n].load = q.load /\ n \in DOMAIN sent'
  BY DEF OneMore
<1>3. DOMAIN sent' = DOMAIN sent \cup {n}
  BY DEF OneMore
<1>4. \A i \in DOMAIN sent : i <= Len(sent)
  BY DEF OneMore
<1> QED BY <1>1, <1>2, <1>3, <1>4 DEF Views

LEMMA OneMoreKeepsTabs ==
  ASSUME TypeOK, TabInv, NEW t \in Tabs, NEW q, Sender(q), NEW c \in CallShape, OneMore(t, q, c),
         SamePage(t, q, c) \/ NextPage(t, q, c) \/ FirstPage(q, c)
  PROVE  TabInv'
<1> DEFINE n == Len(sent) + 1
<1>1. n \in Nat /\ Len(sent') = n /\ Len(sent) \in Nat
  BY DEF OneMore
<1>2. LastView(q.load, q.path)'
  <2>1. CASE SamePage(t, q, c)
    <3>1. LastView(q.load, q.path) /\ Views(q.load)' = Views(q.load)
      BY <2>1, ViewsAfter DEF SamePage, TabInv, TabOK
    <3>2. \A i \in Views(q.load) : sent'[i] = sent[i]
      BY ViewsAfter
    <3> QED BY <3>1, <3>2 DEF LastView
  <2>2. CASE NextPage(t, q, c) \/ FirstPage(q, c)
    <3>0. c.auto /\ sent'[n].path = q.path
      BY <2>2 DEF NextPage, FirstPage, OneMore
    <3>1. Views(q.load)' = Views(q.load) \cup {n}
      BY <3>0, ViewsAfter
    <3>2. \A i \in Views(q.load)' : i <= n
      <4>1. \A i \in Views(q.load) : i \in DOMAIN sent /\ i <= Len(sent)
        BY ViewsAfter
      <4>2. DOMAIN sent = 1..Len(sent)
        BY DEF OneMore
      <4> QED BY <1>1, <3>1, <4>1, <4>2
    <3> QED BY <3>0, <3>1, <3>2 DEF LastView
  <2> QED BY <2>1, <2>2
<1>3. TabOK(t)'
  BY <1>1, <1>2 DEF TabOK, OneMore, Sender
<1>4. ASSUME NEW u \in Tabs, u # t, tab[u].pc = "ready" PROVE tab[u].load # q.load
  <2>1. CASE FirstPage(q, c)
    BY <1>1, <1>4, <2>1 DEF FirstPage, TabInv, TabOK
  <2>2. CASE SamePage(t, q, c) \/ NextPage(t, q, c)
    BY <1>4, <2>2 DEF SamePage, NextPage, TabInv
  <2> QED BY <2>1, <2>2
<1>5. ASSUME NEW u \in Tabs, u # t PROVE TabOK(u)'
  <2>1. tab'[u] = tab[u] /\ TabOK(u)
    BY <1>5 DEF OneMore, TabInv
  <2>2. ASSUME NEW load, NEW p, tab[u].pc = "ready", load = tab[u].load, p = tab[u].path
        PROVE  LastView(load, p)'
    <3>1. LastView(load, p)
      BY <2>1, <2>2 DEF TabOK
    <3>2. load # q.load
      BY <1>4, <1>5, <2>2
    <3>3. Views(load)' = Views(load) /\ \A i \in Views(load) : sent'[i] = sent[i]
      BY <3>2, ViewsAfter
    <3> QED BY <3>1, <3>3 DEF LastView
  <2>3. tab[u].pc = "ready" => LastView(tab[u].load, tab[u].path)'
    BY <2>1, <2>2 DEF LastView, Views
  <2> QED BY <1>1, <2>1, <2>3 DEF TabOK
<1>6. ASSUME NEW u \in Tabs, NEW w \in Tabs, tab'[u].pc = "ready", tab'[w].pc = "ready",
             tab'[u].load = tab'[w].load
      PROVE  u = w
  BY <1>4, <1>6 DEF OneMore, TabInv, Sender
<1>7. \A i \in DOMAIN sent' : sent'[i].load <= i
  BY <1>1 DEF OneMore, TabInv, Sender
<1> QED BY <1>3, <1>5, <1>6, <1>7 DEF TabInv

LEMMA OneMoreKeepsViews ==
  ASSUME TypeOK, TabInv, ViewInv, NEW t \in Tabs, NEW q, Sender(q), NEW c \in CallShape,
         OneMore(t, q, c), SamePage(t, q, c) \/ NextPage(t, q, c) \/ FirstPage(q, c)
  PROVE  ViewInv'
<1> DEFINE n == Len(sent) + 1
<1>1. n \in Nat /\ Len(sent) \in Nat /\ DOMAIN sent = 1..Len(sent)
  BY DEF OneMore
<1> SUFFICES ASSUME NEW i \in DOMAIN sent', NEW j \in DOMAIN sent', NEW load, i < j,
                    load = sent'[j].load, i \in Views(load)', j \in Views(load)',
                    \A k \in Views(load)' : k <= i \/ k >= j
             PROVE  sent'[i].path # sent'[j].path
  BY DEF ViewInv, Views
<1>2. CASE j \in DOMAIN sent
  <2>1. i \in DOMAIN sent /\ sent'[j] = sent[j] /\ sent'[i] = sent[i] /\ i # n /\ j # n
    BY <1>1, <1>2 DEF OneMore
  <2>2. Views(load) \subseteq Views(load)' /\ Views(load)' \subseteq Views(load) \cup {n}
    BY ViewsAfter
  <2>3. i \in Views(load) /\ j \in Views(load)
    BY <2>1, <2>2
  <2> QED BY <1>2, <2>1, <2>2, <2>3 DEF ViewInv
<1>3. CASE j = n
  <2>1. /\ sent'[n].load = q.load
        /\ sent'[n].auto = c.auto
        /\ c.op = "track" => sent'[n].path = q.path
    BY DEF OneMore
  <2>2. c.auto /\ load = q.load
    BY <1>3, <2>1 DEF Views
  <2>3. i \in Views(load) /\ i \in DOMAIN sent /\ sent'[i] = sent[i] /\ \A k \in Views(load) : k <= i
    <3>1. Views(load)' = Views(load) \cup {n}
      BY <2>2, ViewsAfter
    <3>2. \A k \in Views(load) : k \in DOMAIN sent /\ k <= Len(sent) /\ sent'[k] = sent[k]
      BY ViewsAfter
    <3>3. i # n
      BY <1>1, <1>3
    <3>4. \A k \in Views(load) : ~(k >= n)
      BY <1>1, <3>2
    <3> QED BY <1>3, <3>1, <3>2, <3>3, <3>4
  <2>4. CASE FirstPage(q, c)
    <3>1. sent[i].load = load /\ sent[i].load <= i /\ i <= Len(sent)
      BY <1>1, <2>3 DEF TabInv, Views
    <3> QED BY <1>1, <2>2, <2>3, <2>4, <3>1 DEF FirstPage
  <2>5. CASE NextPage(t, q, c)
    <3>1. LastView(load, tab[t].path)
      BY <2>2, <2>5 DEF NextPage, TabInv, TabOK
    <3>2. PICK k \in Views(load) : sent[k].path = tab[t].path /\ \A m \in Views(load) : m <= k
      BY <3>1 DEF LastView
    <3>3. k \in DOMAIN sent
      BY DEF Views
    <3>4. k = i
      BY <1>1, <2>3, <3>2, <3>3
    <3> QED BY <1>3, <2>1, <2>3, <2>5, <3>2, <3>4 DEF NextPage
  <2> QED BY <2>2, <2>4, <2>5 DEF SamePage
<1> QED BY <1>2, <1>3 DEF OneMore

-----------------------------------------------------------------------------
(* What a send does to the ids of the eras. *)

LEMMA IdsAfter ==
  ASSUME TypeOK, NEW t \in Tabs, NEW q, NEW c, OneMore(t, q, c), NEW e
  PROVE  /\ q.era = e => IdsOf(e)' = IdsOf(e) \cup {q.id}
         /\ q.era # e => IdsOf(e)' = IdsOf(e)
<1> DEFINE n == Len(sent) + 1
<1>1. /\ DOMAIN sent' = DOMAIN sent \cup {n} /\ \A i \in DOMAIN sent : sent'[i] = sent[i]
      /\ sent'[n].era = q.era /\ sent'[n].visitor = q.id /\ n \notin DOMAIN sent
  BY DEF OneMore
<1> HIDE DEF n
<1>2. CASE q.era = e
  <2>1. {j \in DOMAIN sent' : sent'[j].era = e} = {j \in DOMAIN sent : sent[j].era = e} \cup {n}
    BY <1>1, <1>2
  <2> QED BY <1>1, <1>2, <2>1 DEF IdsOf
<1>3. CASE q.era # e
  <2>1. {j \in DOMAIN sent' : sent'[j].era = e} = {j \in DOMAIN sent : sent[j].era = e}
    BY <1>1, <1>3
  <2> QED BY <1>1, <1>3, <2>1 DEF IdsOf
<1> QED BY <1>2, <1>3

\* A set with one more element.
LEMMA OneIdMore ==
  ASSUME NEW S, IsFiniteSet(S), NEW x
  PROVE  /\ IsFiniteSet(S \cup {x}) /\ Cardinality(S) \in Nat /\ Cardinality(S \cup {x}) \in Nat
         /\ Cardinality(S \cup {x}) <= Cardinality(S) + 1
         /\ S = {} => Cardinality(S \cup {x}) = 1
<1>1. Cardinality(S) \in Nat
  BY FS_CardinalityType
<1>2. /\ IsFiniteSet(S \cup {x})
      /\ Cardinality(S \cup {x}) = IF x \in S THEN Cardinality(S) ELSE Cardinality(S) + 1
  BY FS_AddElement
<1>3. S = {} => Cardinality(S) = 0 /\ x \notin S
  BY FS_EmptySet
<1> QED BY <1>1, <1>2, <1>3

\* A tab that has its id from the cookie, or has put it there, adds no id.
LEMMA EstablishedKeepsEras ==
  ASSUME TypeOK, EraInv, NEW t \in Tabs, NEW q, Sender(q), NEW c, OneMore(t, q, c),
         Established(t), q.id = tab[t].id, q.era = tab[t].era,
         cookie' = cookie, raced' = raced
  PROVE  EraInv'
<1>1. q.id \in IdsOf(q.era)
  BY DEF EraInv
<1>2. ASSUME NEW e PROVE IdsOf(e)' = IdsOf(e)
  BY <1>1, IdsAfter
<1>3. Pending' = Pending
  BY DEF Pending, Established, OneMore, Sender
<1>4. \A u \in Tabs : Established(u)' => tab'[u].id \in IdsOf(tab[u].era)'
  <2> SUFFICES ASSUME NEW u \in Tabs, Established(u)', NEW e, e = tab'[u].era
               PROVE  tab'[u].id \in IdsOf(e)'
    BY DEF IdsOf
  <2>1. tab'[u].id \in IdsOf(e)
    <3>1. CASE u = t
      BY <1>1, <3>1 DEF OneMore
    <3>2. CASE u # t
      BY <3>2 DEF OneMore, EraInv, Established
    <3> QED BY <3>1, <3>2
  <2> QED BY <1>2, <2>1
<1>5. era' = era /\ IdsOf(era)' = IdsOf(era)
  <2>1. era' = era
    BY DEF OneMore
  <2>2. ASSUME NEW e, e = era PROVE IdsOf(e)' = IdsOf(e)
    BY <1>2
  <2> QED BY <2>1, <2>2 DEF IdsOf
<1>6. \A i \in DOMAIN sent' : sent'[i].era <= era
  <2>1. q.era <= era
    <3>1. PICK i \in DOMAIN sent : sent[i].era = q.era
      BY <1>1 DEF IdsOf
    <3> QED BY <3>1 DEF EraInv
  <2> QED BY <2>1 DEF OneMore, EraInv
<1>7. \A e \in 0..MaxEras : IdsOf(e)' = IdsOf(e)
  BY <1>2
<1> QED BY <1>3, <1>4, <1>5, <1>6, <1>7 DEF EraInv

\* A tab that read no cookie puts its id there; if one is there by now, first loads raced.
LEMMA PendingKeepsEras ==
  ASSUME TypeOK, EraInv, NEW t \in Tabs, NEW q, Sender(q), NEW c, OneMore(t, q, c),
         t \in Pending, q.era = era, cookie' = q.id, raced' = (raced \/ cookie # None)
  PROVE  EraInv'
<1>0. era \in 0..MaxEras /\ era' = era /\ q.id # None
  BY TrackingAssumption DEF TypeOK, OneMore, Sender
<1>1. ASSUME NEW e PROVE /\ e = era => IdsOf(e)' = IdsOf(e) \cup {q.id}
                         /\ e # era => IdsOf(e)' = IdsOf(e)
  BY IdsAfter
<1>2. IdsOf(era)' = IdsOf(era) \cup {q.id}
  <2>1. ASSUME NEW e, e = era PROVE IdsOf(e)' = IdsOf(e) \cup {q.id}
    BY <1>1, <2>1
  <2> QED BY <1>0, <2>1 DEF IdsOf
<1>3. /\ Pending' = Pending \ {t}
      /\ IsFiniteSet(Pending') /\ Cardinality(Pending') = Cardinality(Pending) - 1
  <2>1. Pending' = Pending \ {t}
    BY DEF Pending, OneMore, Sender
  <2> QED BY <2>1, PendingFinite, FS_RemoveElement
<1>4. \A u \in Tabs : Established(u)' => tab'[u].id \in IdsOf(tab[u].era)'
  <2> SUFFICES ASSUME NEW u \in Tabs, Established(u)', NEW e, e = tab'[u].era
               PROVE  tab'[u].id \in IdsOf(e)'
    BY DEF IdsOf
  <2>1. CASE u = t
    BY <1>1, <2>1 DEF OneMore
  <2>2. CASE u # t
    <3>1. tab'[u].id \in IdsOf(e)
      BY <2>2 DEF OneMore, EraInv, Established
    <3> QED BY <1>1, <3>1
  <2> QED BY <2>1, <2>2
<1>5. \A i \in DOMAIN sent' : sent'[i].era <= era
  BY <1>0 DEF OneMore, EraInv
<1>6. /\ IsFiniteSet(IdsOf(era)) /\ IsFiniteSet(IdsOf(era) \cup {q.id})
      /\ Cardinality(IdsOf(era)) \in Nat /\ Cardinality(IdsOf(era) \cup {q.id}) \in Nat
      /\ Cardinality(IdsOf(era) \cup {q.id}) <= Cardinality(IdsOf(era)) + 1
      /\ IdsOf(era) = {} => Cardinality(IdsOf(era) \cup {q.id}) = 1
  <2>1. IsFiniteSet(IdsOf(era))
    BY <1>0 DEF EraInv
  <2> QED BY <2>1, OneIdMore
<1>7. /\ Cardinality(IdsOf(era) \cup {q.id}) + Cardinality(Pending') <= Cardinality(Tabs)
      /\ cookie = None => Cardinality(IdsOf(era) \cup {q.id}) = 1
  <2>1. CASE cookie = None
    BY <1>3, <1>6, <2>1, PendingFinite, TabsFinite DEF EraInv
  <2>2. CASE cookie # None
    BY <1>3, <1>6, <2>2, PendingFinite, TabsFinite DEF EraInv
  <2> QED BY <2>1, <2>2
<1>8. ASSUME NEW e \in 0..MaxEras
      PROVE  /\ IsFiniteSet(IdsOf(e)') /\ Cardinality(IdsOf(e)') <= Cardinality(Tabs)
             /\ ~raced' => Cardinality(IdsOf(e)') <= 1
  <2>1. CASE e = era
    <3>1. Cardinality(Pending') \in Nat
      BY <1>3, FS_CardinalityType
    <3>2. IdsOf(e)' = IdsOf(era) \cup {q.id}
      BY <1>1, <2>1
    <3>3. ~raced' => cookie = None
      OBVIOUS
    <3>4. /\ IsFiniteSet(IdsOf(e)')
          /\ ~raced' => Cardinality(IdsOf(e)') <= 1
      BY <1>6, <1>7, <3>2, <3>3
    <3>5. Cardinality(IdsOf(e)') <= Cardinality(Tabs)
      BY <1>6, <1>7, <3>1, <3>2, TabsFinite
    <3> QED BY <3>4, <3>5
  <2>2. CASE e # era
    BY <1>1, <2>2 DEF EraInv
  <2> QED BY <2>1, <2>2
<1>9. cookie' # None /\ cookie' \in IdsOf(era)'
  BY <1>0, <1>2
<1>10. Cardinality(IdsOf(era)') + Cardinality(Pending') <= Cardinality(Tabs)
  BY <1>2, <1>7
<1> QED BY <1>0, <1>4, <1>5, <1>8, <1>9, <1>10 DEF EraInv

-----------------------------------------------------------------------------
(* The SDK's steps. *)

LEMMA SendKeepsIInv ==
  ASSUME IInv, NEW t \in Tabs, NEW q, Sender(q), NEW c \in CallShape, Send(t, q, c),
         SamePage(t, q, c) \/ NextPage(t, q, c) \/ FirstPage(q, c),
         \/ /\ Established(t) /\ q.id = tab[t].id /\ q.era = tab[t].era
            /\ cookie' = cookie /\ raced' = raced
         \/ /\ t \in Pending /\ q.era = era
            /\ cookie' = q.id /\ raced' = (raced \/ cookie # None)
  PROVE  IInv'
<1>1. TypeOK /\ TabInv /\ ViewInv /\ RowInv /\ EraInv
  BY DEF IInv
<1>2. OneMore(t, q, c)
  BY <1>1, SendIsOneMore
<1>3. cookie' \in Visitors \cup {None} /\ raced' \in BOOLEAN
  BY <1>1 DEF TypeOK, Sender
<1>4. TypeOK'
  BY <1>1, <1>2, <1>3, OneMoreKeepsTypeOK
<1>5. TabInv' /\ ViewInv'
  BY <1>1, <1>2, OneMoreKeepsTabs, OneMoreKeepsViews
<1>6. RowInv'
  BY <1>1, <1>2, OneMoreKeepsRowInv
<1>7. EraInv'
  BY <1>1, <1>2, EstablishedKeepsEras, PendingKeepsEras
<1> QED BY <1>4, <1>5, <1>6, <1>7 DEF IInv

LEMMA CallsAreCalls ==
  /\ Call \in CallShape /\ ~Call.auto /\ Call.op = "track"
  /\ [Call EXCEPT !.auto = TRUE] \in CallShape
  /\ [Call EXCEPT !.auto = TRUE].auto /\ [Call EXCEPT !.auto = TRUE].op = "track"
BY DEF Call, CallShape

\* A ready tab sends another call from the page it shows.
LEMMA ReadySends ==
  ASSUME IInv, NEW t \in Tabs, tab[t].pc = "ready", NEW c \in CallShape, ~c.auto,
         NEW errors \in 0..MaxErrors,
         \/ Send(t, tab[t], c)
         \/ Send(t, [tab[t] EXCEPT !.errors = errors], c),
         UNCHANGED <<cookie, raced>>
  PROVE  IInv'
<1> DEFINE old == tab[t]
<1>1. /\ old \in TabType /\ old.pc = "ready" /\ old.last = old.path
      /\ old.id \in Visitors /\ old.path \in Paths /\ old.load \in 1..(Len(sent) + 1)
  <2>1. tab[t] \in TabType /\ TabOK(t) /\ Len(sent) \in Nat
    BY LenProperties DEF IInv, TypeOK, TabInv
  <2> QED BY <2>1 DEF TabOK
<1>2. Established(t)
  BY DEF Established
<1>3. ASSUME NEW q, q \in {old, [old EXCEPT !.errors = errors]}, Send(t, q, c) PROVE IInv'
  <2> HIDE DEF old
  <2>1. /\ q \in TabType /\ q.pc = "ready" /\ q.last = old.path /\ q.id = old.id
        /\ q.path = old.path /\ q.load = old.load /\ q.era = old.era
    BY <1>1, <1>3 DEF TabType
  <2>2. Sender(q)
    BY <1>1, <2>1 DEF Sender
  <2> USE DEF old
  <2>3. SamePage(t, q, c)
    BY <2>1 DEF SamePage
  <2> QED BY <1>2, <1>3, <2>1, <2>2, <2>3, SendKeepsIInv
<1> QED BY <1>3

LEMMA ReportKeepsIInv ==
  ASSUME IInv, NEW t \in Tabs, Report(t) PROVE IInv'
<1>1. tab[t].pc = "ready" /\ UNCHANGED <<cookie, raced>>
  BY DEF Report
<1>2. 0 \in 0..MaxErrors
  BY TrackingAssumption
<1>3. \E c \in CallShape : ~c.auto /\ Send(t, tab[t], c)
  <2>1. /\ Call \in CallShape /\ ~Call.auto
        /\ \A b \in BOOLEAN : /\ [Call EXCEPT !.kind = "error", !.named = b] \in CallShape
                              /\ ~[Call EXCEPT !.kind = "error", !.named = b].auto
    BY DEF Call, CallShape
  <2>2. ASSUME NEW x \in Metas
        PROVE  /\ [Call EXCEPT !.kind = "custom", !.named = TRUE, !.meta = x] \in CallShape
               /\ ~[Call EXCEPT !.kind = "custom", !.named = TRUE, !.meta = x].auto
    BY DEF Call, CallShape
  <2>3. \/ Send(t, tab[t], Call)
        \/ \E b \in BOOLEAN : Send(t, tab[t], [Call EXCEPT !.kind = "error", !.named = b])
        \/ \E x \in Metas :
             Send(t, tab[t], [Call EXCEPT !.kind = "custom", !.named = TRUE, !.meta = x])
    BY DEF Report
  <2> QED BY <2>1, <2>2, <2>3
<1> QED BY <1>1, <1>2, <1>3, ReadySends

LEMMA CaptureErrorKeepsIInv ==
  ASSUME IInv, NEW t \in Tabs, CaptureError(t) PROVE IInv'
<1> DEFINE c == [Call EXCEPT !.kind = "error", !.named = TRUE]
<1>1. c \in CallShape /\ ~c.auto
  BY DEF Call, CallShape
<1>2. tab[t].errors + 1 \in 0..MaxErrors
  BY TrackingAssumption DEF CaptureError, IInv, TypeOK, TabType
<1>3. /\ tab[t].pc = "ready" /\ UNCHANGED <<cookie, raced>>
      /\ Send(t, [tab[t] EXCEPT !.errors = tab[t].errors + 1], c)
  BY DEF CaptureError
<1> HIDE DEF c
<1> QED BY <1>1, <1>2, <1>3, ReadySends

LEMMA IdentifyCallKeepsIInv ==
  ASSUME IInv, NEW t \in Tabs, IdentifyCall(t) PROVE IInv'
<1>1. PICK named \in BOOLEAN, traits \in SUBSET Traits :
        Send(t, tab[t], [Call EXCEPT !.op = "identify", !.named = named, !.traits = traits])
  BY DEF IdentifyCall
<1> DEFINE c == [Call EXCEPT !.op = "identify", !.named = named, !.traits = traits]
<1>2. c \in CallShape /\ ~c.auto
  BY DEF Call, CallShape
<1>3. tab[t].pc = "ready" /\ UNCHANGED <<cookie, raced>> /\ Send(t, tab[t], c)
  BY <1>1 DEF IdentifyCall
<1>4. 0 \in 0..MaxErrors
  BY TrackingAssumption
<1> HIDE DEF c
<1> QED BY <1>2, <1>3, <1>4, ReadySends

\* A first page view has a page to report: it never falls under "same as the last".
LEMMA StartKeepsIInv ==
  ASSUME IInv, NEW t \in Tabs, Start(t) PROVE IInv'
<1> DEFINE old == tab[t]
           new == [old EXCEPT !.pc = "ready", !.found = FALSE, !.load = Len(sent) + 1,
                              !.era = IF old.found THEN @ ELSE era]
           q == [new EXCEPT !.last = new.path]
           c == [Call EXCEPT !.auto = TRUE]
<1>1. /\ old \in TabType /\ old.pc = "loading" /\ old.last = None
      /\ old.id \in Visitors /\ old.path \in Paths /\ None \notin Paths
      /\ era \in 0..MaxEras /\ Len(sent) \in Nat /\ old.found \in BOOLEAN
  <2>1. tab[t] \in TabType /\ TabOK(t) /\ Len(sent) \in Nat
    BY LenProperties DEF IInv, TypeOK, TabInv
  <2> QED BY <2>1, TrackingAssumption DEF Start, TabOK, IInv, TypeOK, TabType
<1>2. /\ new.path = old.path /\ new.last = old.last /\ q.id = old.id /\ q.path = old.path
      /\ q.last = q.path /\ q.pc = "ready" /\ q.load = Len(sent) + 1
      /\ q.era = (IF old.found THEN old.era ELSE era)
      /\ Len(sent) + 1 <= MaxSends => q \in TabType
  <2>1. /\ new.path = old.path /\ new.last = old.last /\ new.id = old.id /\ new.pc = "ready"
        /\ new.load = Len(sent) + 1 /\ new.era = (IF old.found THEN old.era ELSE era)
        /\ Len(sent) + 1 <= MaxSends => new \in TabType
    <3> HIDE DEF old
    <3>1. (IF old.found THEN old.era ELSE era) \in 0..MaxEras
      BY <1>1 DEF TabType
    <3>2. Len(sent) + 1 <= MaxSends => Len(sent) + 1 \in 0..MaxSends
      BY <1>1, TrackingAssumption
    <3> QED BY <1>1, <3>1, <3>2 DEF TabType
  <2> HIDE DEF new
  <2>2. /\ q.id = new.id /\ q.path = new.path /\ q.last = new.path /\ q.pc = new.pc
        /\ q.load = new.load /\ q.era = new.era
        /\ new \in TabType => q \in TabType
    BY DEF TabType
  <2> QED BY <2>1, <2>2
<1>3. TrackPageview(t, new)
  BY DEF Start
<1>4. Send(t, q, c)
  BY <1>1, <1>2, <1>3 DEF TrackPageview
<1>5. Sender(q) /\ FirstPage(q, c) /\ c \in CallShape
  <2>1. Len(sent) + 1 <= MaxSends
    BY <1>1, <1>4, TrackingAssumption DEF Send
  <2>2. c \in CallShape /\ c.auto /\ c.op = "track"
    BY CallsAreCalls
  <2> HIDE DEF q, c
  <2> QED BY <1>1, <1>2, <2>1, <2>2 DEF Sender, FirstPage
<1>6. CASE old.found
  <2>1. Established(t) /\ cookie' = cookie
    BY <1>1, <1>6 DEF Established, Start
  <2>2. raced' = raced
    <3>1. raced' = (raced \/ (~tab[t].found /\ cookie # None))
      BY DEF Start
    <3>2. raced \in BOOLEAN
      BY DEF IInv, TypeOK
    <3> QED BY <1>6, <3>1, <3>2
  <2>3. q.id = tab[t].id /\ q.era = tab[t].era
    BY <1>2, <1>6
  <2> HIDE DEF q, c, new, old
  <2> QED BY <1>4, <1>5, <2>1, <2>2, <2>3, SendKeepsIInv
<1>7. CASE ~old.found
  <2>1. t \in Pending /\ cookie' = q.id /\ q.era = era
    BY <1>1, <1>2, <1>7 DEF Pending, Start
  <2>2. raced' = (raced \/ cookie # None)
    <3>1. raced' = (raced \/ (~tab[t].found /\ cookie # None))
      BY DEF Start
    <3> QED BY <1>7, <3>1
  <2> HIDE DEF q, c, new, old
  <2> QED BY <1>4, <1>5, <2>1, <2>2, SendKeepsIInv
<1> QED BY <1>6, <1>7

\* What a step leaves alone stays true.
LEMMA TabsUnchanged == ASSUME UNCHANGED <<sent, tab>>, TabInv, ViewInv PROVE TabInv' /\ ViewInv'
BY DEF TabInv, ViewInv, TabOK, LastView, Views

LEMMA RowsUnchanged == ASSUME UNCHANGED <<sent, log, visitors>>, RowInv PROVE RowInv'
BY DEF RowInv, LastAt, NameCalls, TraitCalls, ForVisitor, Row

LEMMA ErasUnchanged == ASSUME UNCHANGED <<cookie, tab, sent, era, raced>>, EraInv PROVE EraInv'
BY DEF EraInv, IdsOf, Established, Pending

LEMMA UnchangedKeepsIInv == ASSUME IInv, UNCHANGED vars PROVE IInv'
<1>1. TypeOK'
  BY DEF IInv, TypeOK, vars
<1> QED BY <1>1, TabsUnchanged, RowsUnchanged, ErasUnchanged DEF IInv, vars

LEMMA NavigateKeepsIInv ==
  ASSUME IInv, NEW t \in Tabs, Navigate(t) PROVE IInv'
<1> PICK p \in Paths : TrackPageview(t, [tab[t] EXCEPT !.path = p])
  BY DEF Navigate
<1> DEFINE old == tab[t]
           new == [old EXCEPT !.path = p]
           q == [new EXCEPT !.last = new.path]
           c == [Call EXCEPT !.auto = TRUE]
<1>1. /\ old \in TabType /\ old.pc = "ready" /\ old.last = old.path
      /\ old.id \in Visitors /\ old.path \in Paths /\ old.load \in 1..(Len(sent) + 1)
  <2>1. tab[t] \in TabType /\ TabOK(t) /\ Len(sent) \in Nat
    BY LenProperties DEF IInv, TypeOK, TabInv
  <2> QED BY <2>1 DEF TabOK, Navigate
<1>2. /\ new \in TabType /\ new.path = p /\ new.last = old.last /\ new.id = old.id
      /\ new.pc = "ready" /\ new.load = old.load /\ new.era = old.era
      /\ p = old.path => new = old
  <2> HIDE DEF old
  <2> QED BY <1>1 DEF TabType
<1>3. /\ q \in TabType /\ q.path = p /\ q.last = p /\ q.id = old.id
      /\ q.pc = "ready" /\ q.load = old.load /\ q.era = old.era
  <2> HIDE DEF new, old
  <2> QED BY <1>2 DEF TabType
<1>4. CASE p = old.path
  <2>1. tab' = [tab EXCEPT ![t] = new] /\ UNCHANGED <<sent, flying, log, blanked, visitors, era>>
    BY <1>1, <1>2, <1>4 DEF TrackPageview
  <2>2. tab' = tab
    BY <1>2, <1>4, <2>1 DEF IInv, TypeOK
  <2> QED BY <2>1, <2>2, UnchangedKeepsIInv DEF Navigate, vars
<1>5. CASE p # old.path
  <2>1. Send(t, q, c)
    BY <1>1, <1>2, <1>5 DEF TrackPageview
  <2>2. Established(t) /\ cookie' = cookie /\ raced' = raced
    BY <1>1 DEF Established, Navigate
  <2>3. c \in CallShape /\ c.auto /\ c.op = "track"
    BY CallsAreCalls
  <2>4. Sender(q) /\ NextPage(t, q, c)
    <3> HIDE DEF q, c, new
    <3> QED BY <1>1, <1>3, <1>5, <2>3 DEF Sender, NextPage
  <2> HIDE DEF q, c, new
  <2> QED BY <1>3, <2>1, <2>2, <2>3, <2>4, SendKeepsIInv
<1> QED BY <1>4, <1>5

\* A tab begins to load or is closed: no call, no row, no id is touched.
LEMMA QuietKeepsIInv ==
  ASSUME IInv, NEW t \in Tabs, NEW q \in TabType, tab' = [tab EXCEPT ![t] = q],
         UNCHANGED <<cookie, sent, flying, log, blanked, visitors, era, raced>>,
         \/ q.pc = "closed"
         \/ /\ q.pc = "loading" /\ tab[t].pc = "closed"
            /\ q.id \in Visitors /\ q.path \in Paths /\ q.last = None /\ q.era = era
            /\ cookie # None => q.id = cookie
            /\ q.found <=> cookie # None
  PROVE  IInv'
<1>0. /\ TypeOK /\ TabInv /\ ViewInv /\ RowInv /\ EraInv
      /\ tab'[t] = q /\ \A u \in Tabs : u # t => tab'[u] = tab[u]
      /\ tab' \in [Tabs -> TabType]
  BY DEF IInv, TypeOK
<1>1. TypeOK'
  BY <1>0 DEF TypeOK
<1>2. TabInv' /\ ViewInv'
  <2>1. ViewInv' /\ \A load, p : LastView(load, p)' <=> LastView(load, p)
    BY <1>0 DEF ViewInv, LastView, Views
  <2>2. ASSUME NEW u \in Tabs PROVE TabOK(u)'
    <3>1. CASE u = t
      BY <1>0, <3>1 DEF TabOK
    <3>2. CASE u # t
      BY <1>0, <3>2 DEF TabOK, TabInv, LastView, Views
    <3> QED BY <3>1, <3>2
  <2>3. ASSUME NEW u \in Tabs, NEW w \in Tabs, tab'[u].pc = "ready", tab'[w].pc = "ready",
               tab'[u].load = tab'[w].load
        PROVE  u = w
    BY <1>0, <2>3 DEF TabInv
  <2> QED BY <1>0, <2>1, <2>2, <2>3 DEF TabInv
<1>3. RowInv'
  BY <1>0, RowsUnchanged
<1>4. EraInv'
  <2>1. \A e : IdsOf(e)' = IdsOf(e)
    BY DEF IdsOf
  <2>2. IdsOf(era)' = IdsOf(era)
    BY DEF IdsOf
  <2>3. \A u \in Tabs : Established(u)' => tab'[u].id \in IdsOf(tab[u].era)'
    <3> SUFFICES ASSUME NEW u \in Tabs, Established(u)', NEW e, e = tab'[u].era
                 PROVE  tab'[u].id \in IdsOf(e)
      BY DEF IdsOf
    <3>1. CASE u = t
      BY <1>0, <3>1 DEF Established, EraInv
    <3>2. CASE u # t
      BY <1>0, <3>2 DEF Established, EraInv
    <3> QED BY <3>1, <3>2
  <2>4. cookie # None => Pending' \subseteq Pending
    BY <1>0 DEF Pending
  <2>5. cookie # None => Cardinality(IdsOf(era)) + Cardinality(Pending') <= Cardinality(Tabs)
    <3>1. CASE cookie # None
      <4>1. Cardinality(Pending') \in Nat /\ Cardinality(Pending') <= Cardinality(Pending)
        BY <2>4, <3>1, PendingFinite, FS_Subset, FS_CardinalityType
      <4>2. Cardinality(IdsOf(era)) + Cardinality(Pending) <= Cardinality(Tabs)
        BY <1>0, <3>1 DEF EraInv
      <4>3. IsFiniteSet(IdsOf(era))
        BY <1>0 DEF EraInv, TypeOK
      <4>4. Cardinality(IdsOf(era)) \in Nat
        BY <4>3, FS_CardinalityType
      <4> QED BY <4>1, <4>2, <4>4, PendingFinite, TabsFinite
    <3> QED BY <3>1
  <2> QED BY <1>0, <2>1, <2>2, <2>3, <2>5 DEF EraInv
<1> QED BY <1>1, <1>2, <1>3, <1>4 DEF IInv

LEMMA ClosedType ==
  /\ Closed \in TabType /\ Closed.pc = "closed" /\ Closed.last = None
BY TrackingAssumption DEF Closed, TabType

LEMMA ReadCookieKeepsIInv ==
  ASSUME IInv, NEW t \in Tabs, ReadCookie(t) PROVE IInv'
<1>1. PICK id \in (IF cookie = None THEN Unused ELSE {cookie}), p \in Paths :
        tab' = [tab EXCEPT ![t] = [Closed EXCEPT !.pc = "loading", !.id = id, !.path = p,
                                                 !.found = cookie # None, !.era = era]]
  BY DEF ReadCookie
<1> DEFINE q == [Closed EXCEPT !.pc = "loading", !.id = id, !.path = p,
                               !.found = cookie # None, !.era = era]
<1>2. id \in Visitors /\ (cookie # None => id = cookie) /\ era \in 0..MaxEras
  BY DEF Unused, IInv, TypeOK
<1>3. /\ q \in TabType /\ q.pc = "loading" /\ q.id = id /\ q.path = p /\ q.last = None
      /\ q.era = era /\ (q.found <=> cookie # None)
  BY <1>2, ClosedType DEF TabType
<1>4. /\ tab[t].pc = "closed"
      /\ UNCHANGED <<cookie, sent, flying, log, blanked, visitors, era, raced>>
  BY DEF ReadCookie
<1> HIDE DEF q
<1> QED BY <1>1, <1>2, <1>3, <1>4, QuietKeepsIInv DEF q

LEMMA CloseKeepsIInv ==
  ASSUME IInv, NEW t \in Tabs, Close(t) PROVE IInv'
BY ClosedType, QuietKeepsIInv DEF Close

LEMMA CookieGoneKeepsIInv ==
  ASSUME IInv, CookieGone PROVE IInv'
<1>0. /\ TypeOK /\ TabInv /\ ViewInv /\ RowInv /\ EraInv
      /\ cookie' = None /\ era' = era + 1 /\ era \in Nat /\ era + 1 <= MaxEras
      /\ UNCHANGED <<tab, sent, flying, log, blanked, visitors, raced>>
  BY TrackingAssumption DEF IInv, CookieGone, TypeOK
<1>1. TypeOK'
  BY <1>0, TrackingAssumption DEF TypeOK
<1>2. TabInv' /\ ViewInv' /\ RowInv'
  BY <1>0, TabsUnchanged, RowsUnchanged
<1>3. EraInv'
  <2>1. IdsOf(era)' = {}
    <3>1. \A i \in DOMAIN sent : sent[i].era # era + 1
      <4>1. ASSUME NEW i \in DOMAIN sent PROVE sent[i].era <= era /\ sent[i].era \in 0..MaxEras
        <5>1. sent[i] \in CallType
          BY <1>0, <4>1, ElementOfSeq, LenProperties DEF TypeOK
        <5> QED BY <1>0, <4>1, <5>1 DEF EraInv, CallType
      <4> QED BY <1>0, <4>1
    <3> QED BY <1>0, <3>1 DEF IdsOf
  <2>2. \A i \in DOMAIN sent : sent[i].era <= era + 1
    <3>1. ASSUME NEW i \in DOMAIN sent PROVE sent[i].era <= era + 1
      <4>1. sent[i] \in CallType
        BY <1>0, <3>1, ElementOfSeq, LenProperties DEF TypeOK
      <4> QED BY <1>0, <3>1, <4>1 DEF EraInv, CallType
    <3> QED BY <3>1
  <2>3. \A e : IdsOf(e)' = IdsOf(e)
    BY <1>0 DEF IdsOf
  <2>4. \A u \in Tabs : Established(u)' => tab'[u].id \in IdsOf(tab[u].era)'
    BY <1>0 DEF Established, EraInv, IdsOf
  <2> QED BY <1>0, <2>1, <2>2, <2>3, <2>4 DEF EraInv
<1> QED BY <1>1, <1>2, <1>3 DEF IInv

-----------------------------------------------------------------------------
(* Network and server. *)

RowType == [name : 0..MaxSends, traits : [Traits -> 0..MaxSends]]

LEMMA RowTyped == ASSUME TypeOK, NEW v \in Visitors PROVE Row(v) \in RowType
<1>1. [name |-> 0, traits |-> [x \in Traits |-> 0]] \in RowType
  BY TrackingAssumption DEF RowType
<1>2. visitors[v] \in RowType \cup {None}
  BY DEF TypeOK, RowType
<1> QED BY <1>1, <1>2 DEF Row

\* A statement is executed: its call comes last in the log.
LEMMA LogGrows ==
  ASSUME TypeOK, NEW i \in flying, log' = Append(log, i), flying' = flying \ {i}, sent' = sent
  PROVE  LET m == Len(log) + 1 IN
         /\ log' \in Seq(DOMAIN sent' \ flying') /\ i \in DOMAIN sent
         /\ DOMAIN log' = DOMAIN log \cup {m} /\ m \in Nat
         /\ \A n \in DOMAIN log : log'[n] = log[n] /\ n \in Nat /\ n < m
         /\ log'[m] = i
         /\ {log[n] : n \in DOMAIN log} \cup {i} \subseteq {log'[n] : n \in DOMAIN log'}
<1> DEFINE S == DOMAIN sent \ (flying \ {i})
           m == Len(log) + 1
<1>1. i \in S /\ DOMAIN sent \ flying \subseteq S /\ i \in DOMAIN sent
  BY DEF TypeOK
<1>2. log \in Seq(S)
  BY <1>1, SeqGrows DEF TypeOK
<1>3. S = DOMAIN sent' \ flying'
  OBVIOUS
<1> HIDE DEF S
<1>4. /\ log' \in Seq(S) /\ Len(log) \in Nat /\ DOMAIN log = 1..Len(log)
      /\ DOMAIN log' = DOMAIN log \cup {m}
      /\ \A n \in DOMAIN log : log'[n] = log[n]
      /\ log'[m] = i
  BY <1>1, <1>2, Appended
<1>5. \A n \in DOMAIN log : n \in Nat /\ n < m
  BY <1>4
<1>6. {log[n] : n \in DOMAIN log} \cup {i} \subseteq {log'[n] : n \in DOMAIN log'}
  BY <1>4
<1> QED BY <1>1, <1>3, <1>4, <1>5, <1>6

\* The other invariants look at nothing a handler changes.
LEMMA ServerKeepsRest ==
  ASSUME IInv, UNCHANGED <<cookie, tab, sent, era, raced>>, TypeOK', RowInv' PROVE IInv'
BY TabsUnchanged, ErasUnchanged DEF IInv

LEMMA DropKeepsIInv ==
  ASSUME IInv, NEW i \in flying, flying' = flying \ {i},
         UNCHANGED <<cookie, tab, sent, log, blanked, visitors, era, raced>>
  PROVE  IInv'
<1>1. log \in Seq(DOMAIN sent \ flying')
  <2>1. DOMAIN sent \ flying \subseteq DOMAIN sent \ flying'
    OBVIOUS
  <2>2. log \in Seq(DOMAIN sent \ flying)
    BY DEF IInv, TypeOK
  <2> QED BY <2>1, <2>2, SeqGrows
<1>2. TypeOK'
  BY <1>1 DEF IInv, TypeOK
<1> QED BY <1>2, RowsUnchanged, ServerKeepsRest DEF IInv

LEMMA TrackKeepsIInv ==
  ASSUME IInv, NEW i, Track(i) PROVE IInv'
<1>0. /\ i \in flying /\ sent[i].op = "track" /\ flying' = flying \ {i} /\ TypeOK /\ RowInv
      /\ UNCHANGED <<cookie, tab, sent, visitors, era, raced>>
  BY DEF Track, IInv
<1>1. CASE UNCHANGED <<log, blanked>>
  BY <1>0, <1>1, DropKeepsIInv
<1>2. CASE log' = Append(log, i) /\ blanked' \subseteq blanked \cup {i}
  <2> DEFINE m == Len(log) + 1
  <2>1. /\ log' \in Seq(DOMAIN sent' \ flying')
        /\ DOMAIN log' = DOMAIN log \cup {m} /\ m \in Nat
        /\ \A n \in DOMAIN log : log'[n] = log[n] /\ n \in Nat /\ n < m
        /\ log'[m] = i
        /\ {log[n] : n \in DOMAIN log} \cup {i} \subseteq {log'[n] : n \in DOMAIN log'}
    BY <1>0, <1>2, LogGrows
  <2> HIDE DEF m
  <2>2. TypeOK'
    <3>1. blanked' \subseteq {log'[n] : n \in DOMAIN log'}
      BY <1>0, <1>2, <2>1 DEF TypeOK
    <3> QED BY <1>0, <2>1, <3>1 DEF TypeOK
  <2>3. \A v : ForVisitor(v)' = ForVisitor(v)
    BY <1>0, <2>1 DEF ForVisitor
  <2>4. \A v, n : n \in ForVisitor(v) => n \in DOMAIN log /\ log'[n] = log[n]
    BY <2>1 DEF ForVisitor
  <2>5. \A v : NameCalls(v)' = NameCalls(v) /\ \A x : TraitCalls(v, x)' = TraitCalls(v, x)
    BY <1>0, <2>3, <2>4 DEF NameCalls, TraitCalls
  <2>6. \A v : Row(v)' = Row(v)
    BY <1>0 DEF Row
  <2>7. \A v, n, x : n \in NameCalls(v) \/ n \in TraitCalls(v, x) => log'[n] = log[n]
    BY <2>4 DEF NameCalls, TraitCalls
  <2>8. RowInv'
    BY <1>0, <2>5, <2>6, <2>7 DEF RowInv, LastAt
  <2> QED BY <1>0, <2>2, <2>8, ServerKeepsRest
<1>3. \/ UNCHANGED <<log, blanked>>
      \/ log' = Append(log, i) /\ blanked' \subseteq blanked \cup {i}
  BY DEF Track
<1> QED BY <1>1, <1>2, <1>3

LEMMA IdentifyKeepsIInv ==
  ASSUME IInv, NEW i, Identify(i) PROVE IInv'
<1>0. /\ i \in flying /\ sent[i].op = "identify" /\ flying' = flying \ {i} /\ TypeOK /\ RowInv
      /\ UNCHANGED <<cookie, tab, sent, blanked, era, raced>>
  BY DEF Identify, IInv
<1>1. CASE UNCHANGED <<log, blanked, visitors>>
  BY <1>0, <1>1, DropKeepsIInv
<1>2. CASE log' = Append(log, i) /\ Upsert(i)
  <2> DEFINE m == Len(log) + 1
             v == sent[i].visitor
             row == [name   |-> IF sent[i].named THEN i ELSE Row(v).name,
                     traits |-> [x \in Traits |-> IF x \in sent[i].traits THEN i ELSE Row(v).traits[x]]]
  <2>1. /\ log' \in Seq(DOMAIN sent' \ flying') /\ i \in DOMAIN sent
        /\ DOMAIN log' = DOMAIN log \cup {m} /\ m \in Nat
        /\ \A n \in DOMAIN log : log'[n] = log[n] /\ n \in Nat /\ n < m
        /\ log'[m] = i
        /\ {log[n] : n \in DOMAIN log} \cup {i} \subseteq {log'[n] : n \in DOMAIN log'}
    BY <1>0, <1>2, LogGrows
  <2>2. v \in Visitors /\ i \in 1..MaxSends
    <3>1. sent \in Seq(CallType) /\ Len(sent) <= MaxSends /\ Len(sent) \in Nat
      BY <1>0, LenProperties DEF TypeOK
    <3>2. sent[i] \in CallType /\ i \in 1..Len(sent)
      BY <2>1, <3>1, ElementOfSeq, LenProperties
    <3> QED BY <3>1, <3>2, TrackingAssumption DEF CallType
  <2>3. row \in RowType /\ row # None
    <3>1. Row(v) \in RowType
      BY <1>0, <2>2, RowTyped
    <3>2. (IF sent[i].named THEN i ELSE Row(v).name) \in 0..MaxSends
      BY <2>2, <3>1, TrackingAssumption DEF RowType
    <3>3. \A x \in Traits : (IF x \in sent[i].traits THEN i ELSE Row(v).traits[x]) \in 0..MaxSends
      BY <2>2, <3>1, TrackingAssumption DEF RowType
    <3>4. row \in RowType
      BY <3>2, <3>3 DEF RowType
    <3> QED BY <3>4, TrackingAssumption DEF RowType
  <2>4. visitors' = [visitors EXCEPT ![v] = row]
    BY <1>2 DEF Upsert
  <2>5. /\ row.name = (IF sent[i].named THEN i ELSE Row(v).name)
        /\ \A x \in Traits : row.traits[x] = IF x \in sent[i].traits THEN i ELSE Row(v).traits[x]
    OBVIOUS
  <2> HIDE DEF m, row
  <2>6. visitors'[v] = row /\ \A u \in Visitors : u # v => visitors'[u] = visitors[u]
    BY <1>0, <2>2, <2>4 DEF TypeOK
  <2>7. TypeOK'
    <3>1. visitors' \in [Visitors -> RowType \cup {None}]
      BY <1>0, <2>3, <2>4 DEF TypeOK, RowType
    <3> QED BY <1>0, <2>1, <3>1 DEF TypeOK, RowType
  <2>8. \A u \in Visitors : Row(u)' = IF u = v THEN row ELSE Row(u)
    <3>1. \A u \in Visitors : Row(u)' = IF visitors'[u] # None THEN visitors'[u]
                                          ELSE [name |-> 0, traits |-> [x \in Traits |-> 0]]
      BY DEF Row
    <3>2. \A u \in Visitors : u # v => Row(u)' = Row(u)
      BY <2>6, <3>1 DEF Row
    <3>3. \A u \in Visitors : u = v => Row(u)' = row
      BY <2>3, <2>6, <3>1
    <3> QED BY <3>2, <3>3
  <2>9. RowInv'
    <3> SUFFICES ASSUME NEW u \in Visitors
                 PROVE  /\ LastAt(NameCalls(u), Row(u).name)'
                        /\ \A x \in Traits : LastAt(TraitCalls(u, x), Row(u).traits[x])'
      BY DEF RowInv
    <3>1. /\ \A n \in NameCalls(u) : n \in DOMAIN log
          /\ \A x, n : n \in TraitCalls(u, x) => n \in DOMAIN log
      BY DEF NameCalls, TraitCalls, ForVisitor
    <3>2. LastAt(NameCalls(u), Row(u).name) /\ \A x \in Traits : LastAt(TraitCalls(u, x), Row(u).traits[x])
      BY <1>0 DEF RowInv
    <3>3. CASE u # v
      <4>1. ForVisitor(u)' = ForVisitor(u)
        BY <1>0, <2>1, <3>3 DEF ForVisitor
      <4>2. /\ NameCalls(u)' = NameCalls(u) /\ \A x : TraitCalls(u, x)' = TraitCalls(u, x)
        <5>1. \A n \in ForVisitor(u) : log'[n] = log[n]
          BY <2>1 DEF ForVisitor
        <5> QED BY <1>0, <4>1, <5>1 DEF NameCalls, TraitCalls
      <4> QED BY <2>1, <2>8, <3>1, <3>2, <3>3, <4>2 DEF LastAt
    <3>4. CASE u = v
      <4>1. ForVisitor(u)' = ForVisitor(u) \cup {m} /\ \A n \in ForVisitor(u) : n \in DOMAIN log
        BY <1>0, <2>1, <3>4 DEF ForVisitor
      <4>2. /\ sent[i].named => NameCalls(u)' = NameCalls(u) \cup {m}
            /\ ~sent[i].named => NameCalls(u)' = NameCalls(u)
        BY <1>0, <2>1, <4>1 DEF NameCalls
      <4>3. \A x : /\ x \in sent[i].traits => TraitCalls(u, x)' = TraitCalls(u, x) \cup {m}
                   /\ x \notin sent[i].traits => TraitCalls(u, x)' = TraitCalls(u, x)
        BY <1>0, <2>1, <4>1 DEF TraitCalls
      <4>4. Row(u)'.name = (IF sent[i].named THEN i ELSE Row(u).name)
        BY <2>5, <2>8, <3>4
      <4>5. \A x \in Traits : Row(u)'.traits[x] = IF x \in sent[i].traits THEN i ELSE Row(u).traits[x]
        BY <2>5, <2>8, <3>4
      <4>6. LastAt(NameCalls(u), Row(u).name)'
        <5>1. CASE sent[i].named
          BY <2>1, <3>1, <4>2, <4>4, <5>1 DEF LastAt
        <5>2. CASE ~sent[i].named
          BY <2>1, <3>1, <3>2, <4>2, <4>4, <5>2 DEF LastAt
        <5> QED BY <5>1, <5>2
      <4>7. ASSUME NEW x \in Traits PROVE LastAt(TraitCalls(u, x), Row(u).traits[x])'
        <5>1. CASE x \in sent[i].traits
          BY <2>1, <3>1, <4>3, <4>5, <5>1 DEF LastAt
        <5>2. CASE x \notin sent[i].traits
          BY <2>1, <3>1, <3>2, <4>3, <4>5, <5>2 DEF LastAt
        <5> QED BY <5>1, <5>2
      <4> QED BY <4>6, <4>7
    <3> QED BY <3>3, <3>4
  <2> QED BY <1>0, <2>7, <2>9, ServerKeepsRest
<1> QED BY <1>1, <1>2 DEF Identify

LEMMA NextKeepsIInv == IInv /\ [Next]_vars => IInv'
<1> SUFFICES ASSUME IInv, [Next]_vars PROVE IInv'
  OBVIOUS
<1>1. ASSUME NEW t \in Tabs, \/ ReadCookie(t) \/ Start(t) \/ Navigate(t) \/ Report(t)
                             \/ CaptureError(t) \/ IdentifyCall(t) \/ Close(t)
      PROVE  IInv'
  BY <1>1, ReadCookieKeepsIInv, StartKeepsIInv, NavigateKeepsIInv, ReportKeepsIInv,
     CaptureErrorKeepsIInv, IdentifyCallKeepsIInv, CloseKeepsIInv
<1>2. CASE CookieGone
  BY <1>2, CookieGoneKeepsIInv
<1>3. ASSUME NEW i, Lose(i) \/ Track(i) \/ Identify(i) PROVE IInv'
  BY <1>3, DropKeepsIInv, TrackKeepsIInv, IdentifyKeepsIInv DEF Lose
<1>4. CASE UNCHANGED vars
  BY <1>4, UnchangedKeepsIInv
<1> QED BY <1>1, <1>2, <1>3, <1>4 DEF Next

-----------------------------------------------------------------------------
(* The theorems. *)

(* Calls, tabs, log and rows are well formed, and no load reports more errors
   than MAX_AUTO_ERRORS_PER_LOAD, for any cap. *)
THEOREM TypeCorrect == Spec => []TypeOK
<1>1. IInv => TypeOK
  BY DEF IInv
<1> QED BY <1>1, InitIInv, NextKeepsIInv, PTL DEF Spec

(* _trackPageview reports each page of a load once as long as it is shown,
   however often a router replaces the state, in any number of tabs. *)
THEOREM OnePageviewAlways == Spec => []OnePageviewPerPath
<1>1. IInv => OnePageviewPerPath
  BY DEF IInv, ViewInv, TabInv, TabOK, LastView, OnePageviewPerPath
<1> QED BY <1>1, InitIInv, NextKeepsIInv, PTL DEF Spec

\* What RowInv says is what LastCall computes.
LEMMA LastAtIsLastCall ==
  ASSUME TypeOK, NEW S \in SUBSET DOMAIN log, NEW x, LastAt(S, x) PROVE x = LastCall(S)
<1>1. DOMAIN log \subseteq Nat
  BY LenProperties DEF TypeOK
<1>2. CASE S = {}
  BY <1>2 DEF LastAt, LastCall
<1>3. CASE S # {}
  <2>1. PICK last \in S : x = log[last] /\ \A m \in S : m <= last
    BY <1>3 DEF LastAt
  <2>2. \A k \in S : (\A m \in S : m <= k) => k = last
    BY <1>1, <2>1
  <2> DEFINE top == CHOOSE n \in S : \A m \in S : m <= n
  <2>3. top = last
    BY <2>1, <2>2
  <2>4. LastCall(S) = log[top]
    BY <1>3 DEF LastCall
  <2> HIDE DEF top
  <2> QED BY <2>1, <2>3, <2>4
<1> QED BY <1>2, <1>3

(* Upsert takes no name and no trait back: in whatever order the calls of however
   many tabs arrive, each is that of the last applied call that gave one. *)
THEOREM NothingGivenIsLostAlways == Spec => []NothingGivenIsLost
<1>1. IInv => NothingGivenIsLost
  <2> SUFFICES ASSUME IInv, NEW v \in Visitors
               PROVE  /\ Row(v).name = LastCall(Applied(v, LAMBDA c : c.named))
                      /\ \A x \in Traits :
                           Row(v).traits[x] = LastCall(Applied(v, LAMBDA c : x \in c.traits))
    BY DEF NothingGivenIsLost
  <2>1. Applied(v, LAMBDA c : c.named) = NameCalls(v)
    BY DEF Applied, NameCalls, ForVisitor
  <2>2. ASSUME NEW x \in Traits PROVE Applied(v, LAMBDA c : x \in c.traits) = TraitCalls(v, x)
    BY DEF Applied, TraitCalls, ForVisitor
  <2>3. Row(v).name = LastCall(NameCalls(v))
    <3>1. LastAt(NameCalls(v), Row(v).name) /\ NameCalls(v) \in SUBSET DOMAIN log
      BY DEF IInv, RowInv, NameCalls, ForVisitor
    <3> QED BY <3>1, LastAtIsLastCall DEF IInv
  <2>4. ASSUME NEW x \in Traits PROVE Row(v).traits[x] = LastCall(TraitCalls(v, x))
    <3>1. LastAt(TraitCalls(v, x), Row(v).traits[x]) /\ TraitCalls(v, x) \in SUBSET DOMAIN log
      BY DEF IInv, RowInv, TraitCalls, ForVisitor
    <3> QED BY <3>1, LastAtIsLastCall DEF IInv
  <2>5. ASSUME NEW x \in Traits
        PROVE  Row(v).traits[x] = LastCall(Applied(v, LAMBDA c : x \in c.traits))
    BY <2>2, <2>4
  <2>6. Row(v).name = LastCall(Applied(v, LAMBDA c : c.named))
    BY <2>1, <2>3
  <2> QED BY <2>5, <2>6
<1> QED BY <1>1, InitIInv, NextKeepsIInv, PTL DEF Spec

(* Between two losses of its cookie a browser is one visitor, or at most one
   per tab if first loads raced for it, for any number of tabs. *)
THEOREM OneVisitorPerBrowser == Spec => []BrowserIsOneVisitor
<1>1. IInv => BrowserIsOneVisitor
  <2> SUFFICES ASSUME IInv, NEW e \in 0..era
               PROVE  Cardinality(IdsOf(e)) <= IF raced THEN Cardinality(Tabs) ELSE 1
    BY DEF BrowserIsOneVisitor, IdsOf
  <2>1. e \in 0..MaxEras
    BY TrackingAssumption DEF IInv, TypeOK
  <2> QED BY <2>1 DEF IInv, EraInv
<1> QED BY <1>1, InitIInv, NextKeepsIInv, PTL DEF Spec

LEMMA AtMostOne ==
  ASSUME NEW S, IsFiniteSet(S), Cardinality(S) <= 1, NEW a \in S, NEW b \in S PROVE a = b
<1> SUFFICES ASSUME a # b PROVE FALSE
  OBVIOUS
<1>1. IsFiniteSet({a}) /\ Cardinality({a}) = 1 /\ b \notin {a}
  BY FS_Singleton
<1>2. Cardinality({a} \cup {b}) = 2
  <2>1. Cardinality({a} \cup {b}) = Cardinality({a}) + 1
    <3> DEFINE A == {a}
    <3>1. IsFiniteSet(A) /\ b \notin A
      BY <1>1
    <3> HIDE DEF A
    <3>2. Cardinality(A \cup {b}) = Cardinality(A) + 1
      BY <3>1, FS_AddElement
    <3> QED BY <3>2 DEF A
  <2> QED BY <1>1, <2>1
<1>3. {a} \cup {b} \in SUBSET S
  OBVIOUS
<1>4. Cardinality({a} \cup {b}) <= Cardinality(S) /\ Cardinality(S) \in Nat
  BY <1>3, FS_Subset, FS_CardinalityType
<1> QED BY <1>2, <1>4

(* An owner who named their browser is out of the statistics that exclude named
   visitors, with all its tabs, before and after the naming, whatever the range
   and the User-Agent. *)
THEOREM OwnerStaysExcluded == Spec => []OwnerIsExcluded
<1>1. IInv => OwnerIsExcluded
  <2> SUFFICES ASSUME IInv, ~raced, NEW ua \in Agents, NEW f, f.excludeNamed,
                      NEW n \in DOMAIN log, NEW m \in DOMAIN log,
                      sent[log[n]].op = "identify", sent[log[n]].named,
                      sent[log[m]].op = "track", sent[log[m]].era = sent[log[n]].era
               PROVE  m \notin Stat(Table(ua), Named)!Selected(f)
    BY DEF OwnerIsExcluded
  <2> DEFINE v == sent[log[m]].visitor
  <2>1. /\ TypeOK /\ RowInv /\ EraInv
        /\ log[n] \in DOMAIN sent /\ log[m] \in DOMAIN sent /\ DOMAIN sent \subseteq Nat \ {0}
        /\ \A k \in DOMAIN log : k \in Nat /\ log[k] \in DOMAIN sent
    BY ElementOfSeq, LenProperties DEF IInv, TypeOK
  <2>2. sent[log[m]] \in CallType
    BY <2>1, ElementOfSeq, LenProperties DEF TypeOK
  <2>3. sent[log[n]].visitor = v
    <3> DEFINE e == sent[log[n]].era
    <3>1. e \in 0..MaxEras
      BY <2>2 DEF CallType
    <3>2. v \in IdsOf(e) /\ sent[log[n]].visitor \in IdsOf(e)
      BY <2>1 DEF IdsOf
    <3>3. IsFiniteSet(IdsOf(e)) /\ Cardinality(IdsOf(e)) <= 1
      BY <2>1, <3>1 DEF EraInv
    <3> QED BY <3>2, <3>3, AtMostOne
  <2>4. v \in Visitors /\ Row(v).name # 0
    <3>1. v \in Visitors
      BY <2>2 DEF CallType
    <3>2. n \in NameCalls(v)
      BY <2>3 DEF NameCalls, ForVisitor
    <3>3. \A k \in NameCalls(v) : log[k] # 0
      BY <2>1 DEF NameCalls, ForVisitor
    <3> QED BY <2>1, <3>1, <3>2, <3>3 DEF RowInv, LastAt
  <2>5. Table(ua)[m].visitor = v
    BY DEF Table
  <2> QED BY <2>4, <2>5 DEF Stat!Selected, Named
<1> QED BY <1>1, InitIInv, NextKeepsIInv, PTL DEF Spec

-----------------------------------------------------------------------------
(* Statistics of the table: StatisticsProofs, about the rows that Table makes. *)

SP == INSTANCE StatisticsProofs

\* Only valid events are stored.
LogInv == \A n \in DOMAIN log : sent[log[n]].op = "track" => Valid(sent[log[n]])

LEMMA SameQueries ==
  ASSUME NEW rows, NEW names, NEW f, NEW type, NEW name
  PROVE  /\ Stat(rows, names)!Stats(f) = SP!Db(rows, names)!Stats(f)
         /\ Stat(rows, names)!Selected(f) = SP!Db(rows, names)!Selected(f)
         /\ Stat(rows, names)!EventNameBreakdown(SP!Db(rows, names)!Selected(f), type)
              = SP!Db(rows, names)!EventNameBreakdown(SP!Db(rows, names)!Selected(f), type)
         /\ Stat(rows, names)!Called(f, type, name) = SP!Db(rows, names)!Called(f, type, name)
         /\ Stat(rows, names)!PanelRows(f, name) = SP!Db(rows, names)!PanelRows(f, name)
         /\ Stat(rows, names)!RecentByName(f, type, name)
              = SP!Db(rows, names)!RecentByName(f, type, name)
BY Zenon DEF Stat!Stats, Stat!Selected, Stat!InRange, Stat!TopPaths, Stat!VisitsOverTime,
   Stat!GroupBy, Stat!EventNameBreakdown, Stat!Groups, Stat!Top, Stat!Min2, Stat!Range,
   Stat!Cardinality, Stat!Keyed, Stat!Called, Stat!PanelRows, Stat!MetadataBreakdown,
   Stat!RecentByName,
   SP!Db!Stats, SP!Db!Selected, SP!Db!InRange, SP!Db!TopPaths, SP!Db!VisitsOverTime,
   SP!Db!GroupBy, SP!Db!EventNameBreakdown, SP!Db!Groups, SP!Db!Top, SP!Db!Min2, SP!Db!Range,
   SP!Db!Cardinality, SP!Db!Keyed, SP!Db!Called, SP!Db!PanelRows, SP!Db!MetadataBreakdown,
   SP!Db!RecentByName

LEMMA SameCounts ==
  /\ \A S : SP!IsFiniteSet(S) <=> IsFiniteSet(S)
  /\ \A S : SP!Cardinality(S) = Cardinality(S)
  /\ \A G : SP!Total(G) = Sum(G)
BY DEF SP!IsFiniteSet, IsFiniteSet, SP!Cardinality, Cardinality, SP!Total, Sum,
   SP!MapThenSumSet, MapThenSumSet, SP!MapThenFoldSet, MapThenFoldSet

LEMMA DaysOfTheTable ==
  ASSUME NEW ua, IsFiniteSet(DOMAIN Table(ua)), NEW f
  PROVE  LET s == Stat(Table(ua), Named)!Stats(f) IN
         Sum(s.visitsOverTime) = s.totalEvents
<1>1. SP!IsFiniteSet(DOMAIN Table(ua)) /\ Limit \in Nat
  BY SameCounts, TrackingAssumption
<1>2. SP!Total(SP!Db(Table(ua), Named)!Stats(f).visitsOverTime)
        = SP!Db(Table(ua), Named)!Stats(f).totalEvents
  BY <1>1, SP!DaysAddUp
<1> QED BY <1>2, SameCounts, SameQueries

-----------------------------------------------------------------------------
(* What the rows are. *)

LEMMA FirstOfIsAnswer ==
  ASSUME NEW rules, NEW n \in Nat, DOMAIN rules = 1..n, \A i \in 1..n : rules[i].answer \in Device!Answers,
         NEW ua, NEW default \in Device!Answers
  PROVE  Device!FirstOf(rules, ua, default) \in Device!Answers
<1> DEFINE hits == {i \in DOMAIN rules : rules[i].needles \cap ua # {}}
           first == CHOOSE i \in hits : \A j \in hits : i <= j
<1>1. CASE hits = {}
  BY <1>1 DEF Device!FirstOf
<1>2. CASE hits # {}
  <2>1. \E i \in hits : \A j \in hits : i <= j
    <3>1. hits \in SUBSET Nat
      OBVIOUS
    <3> HIDE DEF hits
    <3> QED BY <1>2, <3>1, SP!LeastNat
  <2>2. first \in hits
    BY <2>1
  <2>3. Device!FirstOf(rules, ua, default) = rules[first].answer
    BY <1>2 DEF Device!FirstOf
  <2> HIDE DEF first
  <2> QED BY <2>2, <2>3
<1> QED BY <1>1, <1>2

LEMMA ParseGivesAnswers ==
  ASSUME NEW ua
  PROVE  /\ Device!Parse(ua).device \in Device!Answers
         /\ Device!Parse(ua).browser \in Device!Answers
         /\ Device!Parse(ua).os \in Device!Answers
<1>1. \A needles, answer : Device!Rule(needles, answer).answer = answer
  BY DEF Device!Rule
<1>2. Device!DeviceType(ua) \in Device!Answers
  <2> DEFINE rules == <<Device!Rule({"bot", "spider", "crawler", "curl", "wget", "postman"}, "bot"),
                        Device!Rule({"ipad", "tablet"}, "tablet"),
                        Device!Rule({"mobi", "android", "iphone"}, "mobile")>>
  <2>1. DOMAIN rules = 1..3
    OBVIOUS
  <2>2. /\ rules[1].answer = "bot"
        /\ rules[2].answer = "tablet"
        /\ rules[3].answer = "mobile"
    BY <1>1
  <2>3. Device!DeviceType(ua) = Device!FirstOf(rules, ua, "desktop")
    BY DEF Device!DeviceType
  <2> HIDE DEF rules
  <2>4. \A i \in 1..3 : rules[i].answer \in Device!Answers
    <3>1. \A i \in 1..3 : i = 1 \/ i = 2 \/ i = 3
      OBVIOUS
    <3> QED BY <2>2, <3>1 DEF Device!Answers
  <2>5. "desktop" \in Device!Answers
    BY DEF Device!Answers
  <2> QED BY <2>1, <2>3, <2>4, <2>5, FirstOfIsAnswer
<1>3. Device!Browser(ua) \in Device!Answers
  <2> DEFINE rules == <<Device!Rule({"edg/"}, "edge"),
                        Device!Rule({"opr/", "opera"}, "opera"),
                        Device!Rule({"firefox"}, "firefox"),
                        Device!Rule({"chrome", "crios"}, "chrome"),
                        Device!Rule({"safari"}, "safari")>>
  <2>1. DOMAIN rules = 1..5
    OBVIOUS
  <2>2. /\ rules[1].answer = "edge"
        /\ rules[2].answer = "opera"
        /\ rules[3].answer = "firefox"
        /\ rules[4].answer = "chrome"
        /\ rules[5].answer = "safari"
    BY <1>1
  <2>3. Device!Browser(ua) = Device!FirstOf(rules, ua, "other")
    BY DEF Device!Browser
  <2> HIDE DEF rules
  <2>4. \A i \in 1..5 : rules[i].answer \in Device!Answers
    <3>1. \A i \in 1..5 : i = 1 \/ i = 2 \/ i = 3 \/ i = 4 \/ i = 5
      OBVIOUS
    <3> QED BY <2>2, <3>1 DEF Device!Answers
  <2>5. "other" \in Device!Answers
    BY DEF Device!Answers
  <2> QED BY <2>1, <2>3, <2>4, <2>5, FirstOfIsAnswer
<1>4. Device!OS(ua) \in Device!Answers
  <2> DEFINE rules == <<Device!Rule({"windows"}, "windows"),
                        Device!Rule({"mac os", "macos"}, "macos"),
                        Device!Rule({"android"}, "android"),
                        Device!Rule({"iphone", "ipad", "ios"}, "ios"),
                        Device!Rule({"linux"}, "linux")>>
  <2>1. DOMAIN rules = 1..5
    OBVIOUS
  <2>2. /\ rules[1].answer = "windows"
        /\ rules[2].answer = "macos"
        /\ rules[3].answer = "android"
        /\ rules[4].answer = "ios"
        /\ rules[5].answer = "linux"
    BY <1>1
  <2>3. Device!OS(ua) = Device!FirstOf(rules, ua, "other")
    BY DEF Device!OS
  <2> HIDE DEF rules
  <2>4. \A i \in 1..5 : rules[i].answer \in Device!Answers
    <3>1. \A i \in 1..5 : i = 1 \/ i = 2 \/ i = 3 \/ i = 4 \/ i = 5
      OBVIOUS
    <3> QED BY <2>2, <3>1 DEF Device!Answers
  <2>5. "other" \in Device!Answers
    BY DEF Device!Answers
  <2> QED BY <2>1, <2>3, <2>4, <2>5, FirstOfIsAnswer
<1> QED BY <1>2, <1>3, <1>4 DEF Device!Parse, Device!Answers

LEMMA TableRows ==
  ASSUME TypeOK, LogInv, NEW ua
  PROVE  /\ IsFiniteSet(DOMAIN Table(ua)) /\ DOMAIN Table(ua) \subseteq DOMAIN log
         /\ \A n \in DOMAIN Table(ua) :
              LET row == Table(ua)[n]
                  c   == sent[log[n]] IN
              /\ row.at = n /\ row.at \in Nat
              /\ row.meta = c.meta /\ c.meta \in Metas \cup {"absent"}
              /\ row.type = c.kind /\ c.kind \in {"pageview", "custom", "error"} /\ Valid(c)
              /\ row.name = IF c.named /\ log[n] \notin blanked THEN c.kind ELSE None
              /\ row.device = Device!Parse(ua).device
              /\ row.browser = Device!Parse(ua).browser
              /\ row.os = Device!Parse(ua).os
<1> DEFINE D == {m \in DOMAIN log : sent[log[m]].op = "track"}
           d == Device!Parse(ua)
<1>1. /\ DOMAIN log = 1..Len(log) /\ Len(log) \in Nat
      /\ \A n \in DOMAIN log : log[n] \in DOMAIN sent /\ n \in Nat
  BY ElementOfSeq, LenProperties DEF TypeOK
<1>2. \A i \in DOMAIN sent : sent[i] \in CallType
  BY ElementOfSeq, LenProperties DEF TypeOK
<1>3. IsFiniteSet(DOMAIN log) /\ D \subseteq DOMAIN log
  <2>1. IsFiniteSet(1..Len(log))
    BY <1>1, FS_Interval
  <2> QED BY <1>1, <2>1
<1>4. Table(ua) = [n \in D |->
        LET c == sent[log[n]] IN
        [visitor |-> c.visitor, type |-> c.kind, path |-> c.path, meta |-> c.meta, at |-> n,
         name |-> IF c.named /\ log[n] \notin blanked THEN c.kind ELSE None,
         device |-> d.device, browser |-> d.browser, os |-> d.os]]
  BY DEF Table
<1>5. DOMAIN Table(ua) = D
  BY <1>4
<1>6. IsFiniteSet(D)
  <2> HIDE DEF D
  <2> QED BY <1>3, FS_Subset
<1>7. ASSUME NEW n \in D
      PROVE  LET row == Table(ua)[n]
                 c   == sent[log[n]] IN
             /\ row.at = n /\ row.at \in Nat
              /\ row.meta = c.meta /\ c.meta \in Metas \cup {"absent"}
             /\ row.type = c.kind /\ c.kind \in {"pageview", "custom", "error"} /\ Valid(c)
             /\ row.name = IF c.named /\ log[n] \notin blanked THEN c.kind ELSE None
             /\ row.device = d.device /\ row.browser = d.browser /\ row.os = d.os
  <2> DEFINE c == sent[log[n]]
             row == Table(ua)[n]
  <2>1. c.op = "track" /\ c \in CallType /\ n \in Nat /\ n \in DOMAIN log
    BY <1>1, <1>2, <1>3
  <2>2. c.kind \in {"pageview", "custom", "error"} /\ Valid(c) /\ c.meta \in Metas \cup {"absent"}
    BY <2>1 DEF CallType, LogInv
  <2>3. row = [visitor |-> c.visitor, type |-> c.kind, path |-> c.path, meta |-> c.meta, at |-> n,
               name |-> IF c.named /\ log[n] \notin blanked THEN c.kind ELSE None,
               device |-> d.device, browser |-> d.browser, os |-> d.os]
    BY <1>4
  <2> HIDE DEF c, row, d
  <2>4. /\ row.at = n /\ row.meta = c.meta /\ row.type = c.kind
        /\ row.name = IF c.named /\ log[n] \notin blanked THEN c.kind ELSE None
        /\ row.device = d.device /\ row.browser = d.browser /\ row.os = d.os
    BY <2>3
  <2> QED BY <2>1, <2>2, <2>4 DEF c, row
<1> HIDE DEF D
<1> QED BY <1>3, <1>5, <1>6, <1>7

-----------------------------------------------------------------------------
(* Only what was valid is stored. *)

LEMMA NextKeepsLogInv ==
  ASSUME TypeOK, TypeOK', LogInv, [Next]_vars PROVE LogInv'
<1>1. /\ \A n \in DOMAIN log : log[n] \in DOMAIN sent
      /\ DOMAIN log = 1..Len(log) /\ Len(log) \in Nat
  BY ElementOfSeq, LenProperties DEF TypeOK
<1>2. ASSUME log' = log, \A i \in DOMAIN sent : sent'[i] = sent[i] PROVE LogInv'
  BY <1>1, <1>2 DEF LogInv, Valid
<1>3. ASSUME NEW i \in DOMAIN sent, sent' = sent, log' = Append(log, i),
             sent[i].op = "track" => Valid(sent[i])
      PROVE  LogInv'
  <2>1. /\ DOMAIN log' = DOMAIN log \cup {Len(log) + 1}
        /\ \A n \in DOMAIN log : log'[n] = log[n]
        /\ log'[Len(log) + 1] = i
    <3>1. log \in Seq(DOMAIN sent)
      BY SeqGrows DEF TypeOK
    <3> QED BY <1>3, <3>1, Appended
  <2> QED BY <1>3, <2>1 DEF LogInv, Valid
<1>4. ASSUME NEW t \in Tabs, NEW q, NEW c, Send(t, q, c) PROVE LogInv'
  <2>1. log' = log /\ \A i \in DOMAIN sent : sent'[i] = sent[i]
    BY <1>4, AppendProperties, LenProperties DEF Send, TypeOK
  <2> QED BY <1>2, <2>1
<1>5. ASSUME NEW t \in Tabs, NEW q, TrackPageview(t, q) PROVE LogInv'
  <2>1. CASE UNCHANGED <<sent, log>>
    BY <1>2, <2>1
  <2>2. CASE Send(t, [q EXCEPT !.last = q.path], [Call EXCEPT !.auto = TRUE])
    BY <1>4, <2>2
  <2> QED BY <1>5, <2>1, <2>2 DEF TrackPageview
<1>6. ASSUME NEW t \in Tabs, \/ ReadCookie(t) \/ Start(t) \/ Navigate(t) \/ Report(t)
                             \/ CaptureError(t) \/ IdentifyCall(t) \/ Close(t)
      PROVE  LogInv'
  <2>1. CASE ReadCookie(t) \/ Close(t)
    BY <1>2, <2>1 DEF ReadCookie, Close
  <2>2. CASE Start(t) \/ Navigate(t)
    BY <1>5, <2>2 DEF Start, Navigate
  <2>3. CASE Report(t) \/ CaptureError(t) \/ IdentifyCall(t)
    BY <1>4, <2>3 DEF Report, CaptureError, IdentifyCall
  <2> QED BY <1>6, <2>1, <2>2, <2>3
<1>7. CASE CookieGone \/ UNCHANGED vars
  BY <1>2, <1>7 DEF CookieGone, vars
<1>8. ASSUME NEW i, Lose(i) \/ Track(i) \/ Identify(i) PROVE LogInv'
  <2>1. CASE UNCHANGED <<sent, log>>
    BY <1>2, <2>1
  <2>2. CASE Track(i) /\ log' # log
    BY <1>3, <2>2 DEF Track, TypeOK
  <2>3. CASE Identify(i) /\ log' # log
    BY <1>3, <2>3 DEF Identify, TypeOK
  <2> QED BY <1>8, <2>1, <2>2, <2>3 DEF Lose, Track, Identify
<1> QED BY <1>6, <1>7, <1>8 DEF Next

LEMMA StoredAreValid == Spec => [](TypeOK /\ LogInv)
<1>1. Init => LogInv
  BY DEF Init, LogInv
<1>2. IInv => TypeOK
  BY DEF IInv
<1>3. TypeOK /\ TypeOK' /\ LogInv /\ [Next]_vars => LogInv'
  BY NextKeepsLogInv
<1> QED BY <1>1, <1>2, <1>3, InitIInv, NextKeepsIInv, PTL DEF Spec

-----------------------------------------------------------------------------
(* The statistics of what was tracked. *)

LEMMA OneValue ==
  ASSUME NEW S, NEW a, S \subseteq {a} PROVE SP!Cardinality(S) \in Nat /\ SP!Cardinality(S) <= 1
<1>1. IsFiniteSet({a}) /\ Cardinality({a}) = 1
  BY FS_Singleton
<1>2. Cardinality(S) <= Cardinality({a}) /\ Cardinality(S) \in Nat
  BY <1>1, FS_Subset, FS_CardinalityType
<1> QED BY <1>1, <1>2, SameCounts

\* The table is finite, and its limit is positive: what the theorems of StatisticsProofs ask for.
LEMMA FiniteTable ==
  ASSUME TypeOK, LogInv, NEW ua
  PROVE  /\ SP!IsFiniteSet(DOMAIN Table(ua)) /\ Limit \in Nat /\ Limit >= 1
         /\ \A e \in DOMAIN Table(ua) : Table(ua)[e].at \in Nat
BY TableRows, SameCounts, TrackingAssumption

\* All rows are of one User-Agent, so a column has one group, and it is never empty.
LEMMA ColumnsOfTheTable ==
  ASSUME TypeOK, LogInv, NEW ua, NEW f, NEW column \in {"device", "browser", "os"}
  PROVE  LET S == SP!Db(Table(ua), Named)!Selected(f) IN
         SP!Total(SP!Db(Table(ua), Named)!GroupBy(S, column)) = SP!Cardinality(S)
<1> DEFINE rows == Table(ua)
           S == SP!Db(rows, Named)!Selected(f)
           a == Device!Parse(ua)[column]
           filled == SP!FilledRows(rows, S, column)
           values == {rows[e][column] : e \in filled}
<1>1. a # None
  BY ParseGivesAnswers, NoneIsEmpty
<1>2. SP!IsFiniteSet(S) /\ S \subseteq DOMAIN rows
  BY FiniteTable, SP!SelectedIsFinite
<1>3. \A e \in DOMAIN rows : rows[e][column] = a
  BY TableRows
<1> HIDE DEF rows, a, S
<1>4. filled = S
  BY <1>1, <1>2, <1>3 DEF SP!FilledRows
<1>5. values \subseteq {a}
  BY <1>2, <1>3, <1>4
<1>6. SP!Cardinality(values) <= Limit
  <2> HIDE DEF values
  <2>1. SP!Cardinality(values) \in Nat /\ SP!Cardinality(values) <= 1
    BY <1>5, OneValue
  <2> QED BY <2>1, FiniteTable
<1>7. SP!Total(SP!Db(rows, Named)!GroupBy(S, column)) = SP!Cardinality(filled)
  BY <1>2, <1>6, FiniteTable, SP!ColumnsAddUp
<1> HIDE DEF filled
<1> QED BY <1>4, <1>7 DEF rows, S

\* A list of names has one name at most, that of its type.
LEMMA NamesOfTheTable ==
  ASSUME TypeOK, LogInv, NEW ua, NEW f
  PROVE  LET s == SP!Db(Table(ua), Named)!Stats(f)
             S == SP!Db(Table(ua), Named)!Selected(f) IN
         SP!Total(s.customEventNames) + SP!Total(s.errorEventNames)
           + Cardinality({n \in S : sent[log[n]].kind = "pageview" \/ log[n] \in blanked})
           = s.totalEvents
<1> DEFINE rows == Table(ua)
           S == SP!Db(rows, Named)!Selected(f)
           names(type) == {rows[e].name : e \in SP!NamedRows(rows, S, type)}
           rest == {n \in S : sent[log[n]].kind = "pageview" \/ log[n] \in blanked}
           nameless == {e \in S : rows[e].type = "pageview" \/ rows[e].name = None}
<1>1. /\ S \subseteq DOMAIN rows
      /\ \A e \in DOMAIN rows : rows[e].type \in {"pageview", "custom", "error"}
  BY FiniteTable, TableRows, SP!SelectedIsFinite
<1>2. \A e \in S : rows[e].name \in {None, rows[e].type}
  BY <1>1, TableRows
<1>3. ASSUME NEW type \in {"custom", "error"} PROVE SP!Cardinality(names(type)) <= Limit
  <2>1. names(type) \subseteq {type}
    BY <1>2 DEF SP!NamedRows
  <2> HIDE DEF names
  <2>2. SP!Cardinality(names(type)) \in Nat /\ SP!Cardinality(names(type)) <= 1
    BY <2>1, OneValue
  <2> QED BY <2>2, FiniteTable
<1>4. rest = nameless
  <2>1. ASSUME NEW e \in S
        PROVE  (sent[log[e]].kind = "pageview" \/ log[e] \in blanked)
                 <=> (rows[e].type = "pageview" \/ rows[e].name = None)
    <3>1. /\ rows[e].type = sent[log[e]].kind
          /\ sent[log[e]].kind \in {"pageview", "custom", "error"} /\ Valid(sent[log[e]])
          /\ rows[e].name = IF sent[log[e]].named /\ log[e] \notin blanked
                              THEN sent[log[e]].kind ELSE None
      BY <1>1, TableRows
    <3>2. None # "custom" /\ None # "error"
      BY NoneIsEmpty
    <3> QED BY <3>1, <3>2 DEF Valid
  <2> QED BY <2>1
<1>5. SP!Total(SP!Db(rows, Named)!Stats(f).customEventNames)
        + SP!Total(SP!Db(rows, Named)!Stats(f).errorEventNames) + SP!Cardinality(nameless)
        = SP!Db(rows, Named)!Stats(f).totalEvents
  BY <1>1, <1>3, FiniteTable, SP!NamesAddUp
<1> HIDE DEF rest, nameless
<1> QED BY <1>4, <1>5, SameCounts DEF rest

LEMMA RangesOfTheTable ==
  ASSUME TypeOK, LogInv, NEW ua, NEW cut \in 0..Now, NEW f \in Filters(0, Now)
  PROVE  LET s     == Stat(Table(ua), Named)!Stats(f)
             older == Stat(Table(ua), Named)!Stats([f EXCEPT !.until = cut])
             newer == Stat(Table(ua), Named)!Stats([f EXCEPT !.since = cut]) IN
         /\ older.totalEvents + newer.totalEvents = s.totalEvents
         /\ s.uniqueVisitors <= older.uniqueVisitors + newer.uniqueVisitors
<1>1. Now \in Nat
  BY LenProperties DEF Now, TypeOK
<1>2. f \in SP!Filter /\ cut \in f.since..f.until
  BY <1>1 DEF Filters, SP!Filter
<1> DEFINE older == [f EXCEPT !.until = cut]
           newer == [f EXCEPT !.since = cut]
<1>3. LET q(g) == SP!Db(Table(ua), Named)!Stats(g) IN
      /\ q(older).totalEvents + q(newer).totalEvents = q(f).totalEvents
      /\ q(f).uniqueVisitors <= q(older).uniqueVisitors + q(newer).uniqueVisitors
  BY <1>2, FiniteTable, SP!RangesSplit
<1>4. \A g : Stat(Table(ua), Named)!Stats(g) = SP!Db(Table(ua), Named)!Stats(g)
  BY SameQueries
<1> HIDE DEF older, newer
<1>5. LET q(g) == Stat(Table(ua), Named)!Stats(g) IN
      /\ q(older).totalEvents + q(newer).totalEvents = q(f).totalEvents
      /\ q(f).uniqueVisitors <= q(older).uniqueVisitors + q(newer).uniqueVisitors
  BY <1>3, <1>4
<1> QED BY <1>5 DEF older, newer

LEMMA NumbersOfTheTable ==
  ASSUME TypeOK, LogInv, NEW ua, NEW f
  PROVE  LET s == Stat(Table(ua), Named)!Stats(f)
             S == Stat(Table(ua), Named)!Selected(f) IN
         /\ Sum(s.visitsOverTime) = s.totalEvents
         /\ Sum(s.deviceTypes) = s.totalEvents
         /\ Sum(s.browsers) = s.totalEvents
         /\ Sum(s.operatingSystems) = s.totalEvents
         /\ Sum(s.customEventNames) + Sum(s.errorEventNames)
              + Cardinality({n \in S : sent[log[n]].kind = "pageview" \/ log[n] \in blanked})
              = s.totalEvents
<1> DEFINE s == SP!Db(Table(ua), Named)!Stats(f)
           S == SP!Db(Table(ua), Named)!Selected(f)
<1>1. /\ s.totalEvents = SP!Cardinality(S)
      /\ s.deviceTypes = SP!Db(Table(ua), Named)!GroupBy(S, "device")
      /\ s.browsers = SP!Db(Table(ua), Named)!GroupBy(S, "browser")
      /\ s.operatingSystems = SP!Db(Table(ua), Named)!GroupBy(S, "os")
  <2>1. s.totalEvents = SP!Cardinality(S) /\ s.deviceTypes = SP!Db(Table(ua), Named)!GroupBy(S, "device")
    BY SP!StatsAre
  <2>2. /\ s.browsers = SP!Db(Table(ua), Named)!GroupBy(S, "browser")
        /\ s.operatingSystems = SP!Db(Table(ua), Named)!GroupBy(S, "os")
    BY SP!StatsAre
  <2> HIDE DEF s, S
  <2> QED BY <2>1, <2>2
<1>2. \A column \in {"device", "browser", "os"} :
        SP!Total(SP!Db(Table(ua), Named)!GroupBy(S, column)) = SP!Cardinality(S)
  BY ColumnsOfTheTable
<1>3. SP!Total(s.customEventNames) + SP!Total(s.errorEventNames)
        + Cardinality({n \in S : sent[log[n]].kind = "pageview" \/ log[n] \in blanked})
        = s.totalEvents
  BY NamesOfTheTable
<1>4. Stat(Table(ua), Named)!Stats(f) = s /\ Stat(Table(ua), Named)!Selected(f) = S
  BY SameQueries
<1> HIDE DEF s, S
<1>5. /\ Sum(s.deviceTypes) = s.totalEvents /\ Sum(s.browsers) = s.totalEvents
      /\ Sum(s.operatingSystems) = s.totalEvents
  BY <1>1, <1>2, SameCounts
<1>6. Sum(s.visitsOverTime) = s.totalEvents
  <2>1. IsFiniteSet(DOMAIN Table(ua))
    BY TableRows
  <2> QED BY <1>4, <2>1, DaysOfTheTable
<1> QED BY <1>3, <1>4, <1>5, <1>6, SameCounts

LEMMA PanelOfTheTable ==
  ASSUME TypeOK, LogInv, NEW ua, NEW f,
         \A n \in Stat(Table(ua), Named)!Called(f, "custom", "custom") : sent[log[n]].meta # "null"
  PROVE  LET panel   == Stat(Table(ua), Named)!PanelRows(f, "custom")
             meta(n) == sent[log[n]].meta
             K       == {n \in Stat(Table(ua), Named)!Called(f, "custom", "custom") :
                           meta(n) # "absent"}
             same(n) == Cardinality({m \in K : meta(m) = meta(n)}) IN
         /\ \A n \in K : \/ [name |-> meta(n), count |-> same(n)] \in panel
                         \/ Cardinality(panel) = Limit /\ \A g \in panel : g.count >= same(n)
         /\ \A g \in panel : \E n \in K : g.name = meta(n)
<1> DEFINE rows == Table(ua)
           called == SP!Db(rows, Named)!Called(f, "custom", "custom")
           panel == SP!Db(rows, Named)!PanelRows(f, "custom")
           meta(n) == sent[log[n]].meta
           K == {n \in called : meta(n) # "absent"}
           same(n) == Cardinality({m \in K : meta(m) = meta(n)})
           keyed == SP!Db(rows, Named)!Keyed(f, "custom")
           alike(n) == SP!Cardinality({m \in keyed : rows[m].meta = rows[n].meta})
<1>1. called \subseteq DOMAIN rows
  BY DEF SP!Db!Called, SP!Db!InRange
<1>2. \A n \in DOMAIN rows : rows[n].meta = meta(n)
  <2> SUFFICES ASSUME NEW n \in DOMAIN rows PROVE rows[n].meta = meta(n)
    OBVIOUS
  <2> QED BY TableRows
<1>3. keyed = {n \in called : rows[n].meta # "absent"}
  BY DEF SP!Db!Keyed
<1>4. /\ Stat(rows, Named)!Called(f, "custom", "custom") = called
      /\ Stat(rows, Named)!PanelRows(f, "custom") = panel
  BY SameQueries
<1>5. /\ \A n \in keyed : \/ [name |-> rows[n].meta, count |-> alike(n)] \in panel
                          \/ SP!Cardinality(panel) = Limit /\ \A g \in panel : g.count >= alike(n)
      /\ \A g \in panel : \E n \in keyed : g.name = rows[n].meta
  <2>1. SP!IsFiniteSet(DOMAIN rows) /\ Limit \in Nat
    BY FiniteTable
  <2>2. \A e \in called : meta(e) # "null"
    BY <1>4
  <2> HIDE DEF rows, called, keyed, meta
  <2>3. \A e \in keyed : rows[e].meta # "null"
    BY <1>1, <1>2, <1>3, <2>2
  <2> USE DEF keyed
  <2> QED BY <2>1, <2>3, SP!PanelCountsValues, Zenon
<1> HIDE DEF rows, called, panel, keyed, meta
<1>6. keyed = K
  BY <1>1, <1>2, <1>3
<1>7. \A n \in K : n \in DOMAIN rows
  BY <1>1
<1>8. \A n \in K : {m \in keyed : rows[m].meta = rows[n].meta} = {m \in K : meta(m) = meta(n)}
  BY <1>2, <1>6, <1>7
<1>9. \A n \in K : alike(n) = same(n) /\ rows[n].meta = meta(n)
  <2> HIDE DEF K
  <2> QED BY <1>2, <1>7, <1>8, SameCounts
<1>10. /\ \A n \in K : \/ [name |-> meta(n), count |-> same(n)] \in panel
                       \/ Cardinality(panel) = Limit /\ \A g \in panel : g.count >= same(n)
       /\ \A g \in panel : \E n \in K : g.name = meta(n)
  <2> HIDE DEF K, same, alike
  <2> QED BY <1>5, <1>6, <1>9, SameCounts
<1> QED BY <1>4, <1>10 DEF meta, rows

LEMMA DrilldownsOfTheTable ==
  ASSUME TypeOK, LogInv, NEW ua, NEW then, NEW type \in {"custom", "error"},
         NEW f, f.until \in Nat, NEW d, d.since \in Nat, d.until \in Nat, f.until <= d.until,
         NEW g \in Stat(Table(ua), then)!EventNameBreakdown(Stat(Table(ua), then)!Selected(f), type)
  PROVE  LET shown == Stat(Table(ua), Named)!RecentByName(d, type, g.name)
             past  == SP!Older(Table(ua), Stat(Table(ua), then)!Selected(f), type, g.name, d.since) IN
         Cardinality(shown) = Limit \/ Cardinality(shown) + Cardinality(past) >= g.count
<1> DEFINE rows == Table(ua)
           S == SP!Db(rows, then)!Selected(f)
           names == SP!Db(rows, then)!EventNameBreakdown(S, type)
           shown == SP!Db(rows, Named)!RecentByName(d, type, g.name)
           past == SP!Older(rows, S, type, g.name, d.since)
<1>1. g \in names
  <2>1. Stat(rows, then)!Selected(f) = S /\ Stat(rows, then)!EventNameBreakdown(S, type) = names
    BY SameQueries
  <2> HIDE DEF S, names
  <2> QED BY <2>1
<1>2. SP!Cardinality(shown) = Limit \/ SP!Cardinality(shown) + SP!Cardinality(past) >= g.count
  <2>1. /\ SP!IsFiniteSet(DOMAIN rows) /\ Limit \in Nat
        /\ \A e \in DOMAIN rows : rows[e].at \in Nat
    BY FiniteTable
  <2> HIDE DEF rows
  <2> QED BY <1>1, <2>1, SP!DrilldownCovers
<1>3. /\ Stat(rows, Named)!RecentByName(d, type, g.name) = shown
      /\ Stat(rows, then)!Selected(f) = S
  BY SameQueries
<1> HIDE DEF shown, S
<1>4. Cardinality(shown) = Limit \/ Cardinality(shown) + Cardinality(past) >= g.count
  BY <1>2, SameCounts
<1> QED BY <1>3, <1>4

(* The nine statements of a page agree: days, devices, browsers, systems and names with the
   total, and the two parts of a range with the whole -- for any number of tabs and calls, any
   range and filters, and any limit, as all events of one browser have one User-Agent. *)
THEOREM NumbersAlwaysAgree == Spec => []NumbersAgree
<1>1. TypeOK /\ LogInv => NumbersAgree
  <2> SUFFICES ASSUME TypeOK, LogInv, NEW ua \in Agents, NEW cut \in 0..Now, NEW f \in Filters(0, Now)
               PROVE  NumbersAgree!2!(ua, cut)!(f)
    BY DEF NumbersAgree
  <2> QED BY NumbersOfTheTable, RangesOfTheTable
<1> QED BY <1>1, StoredAreValid, PTL

(* computePanelRows: a plugin's panel counts the events of every value, up to its limit, as long as
   none of them has a JSON null under the panel's key (which nothing in the code ensures). *)
THEOREM PanelsCountEveryValue == Spec => []PanelCountsEveryValue
<1>1. TypeOK /\ LogInv => PanelCountsEveryValue
  <2> SUFFICES ASSUME TypeOK, LogInv, NEW ua \in Agents, NEW since \in 0..Now
               PROVE  PanelCountsEveryValue!2!(ua, since)
    BY DEF PanelCountsEveryValue
  <2> DEFINE rows == Table(ua)
             f    == [Stat(rows, Named)!Default(Now) EXCEPT !.since = since]
             meta(n) == sent[log[n]].meta
             K    == {n \in Stat(rows, Named)!Called(f, "custom", "custom") : meta(n) # "absent"}
  <2> HIDE DEF f
  <2>1. ASSUME \A n \in K : meta(n) # "null"
        PROVE  LET panel   == Stat(rows, Named)!PanelRows(f, "custom")
                   same(n) == Cardinality({m \in K : meta(m) = meta(n)}) IN
               /\ \A n \in K : \/ [name |-> meta(n), count |-> same(n)] \in panel
                               \/ Cardinality(panel) = Limit /\ \A r \in panel : r.count >= same(n)
               /\ \A r \in panel : \E n \in K : r.name = meta(n)
    <3>1. \A n \in Stat(rows, Named)!Called(f, "custom", "custom") : meta(n) # "null"
      BY <2>1
    <3> QED BY <3>1, PanelOfTheTable
  <2> QED BY <2>1, Zenon DEF f
<1> QED BY <1>1, StoredAreValid, PTL

(* handleEventDrilldown: a name of a page, whatever the page's range and filters, and however
   much later it is opened, leads to as many samples as the page counted less those older than
   seven days by then, or to a full list. *)
THEOREM DrilldownsFollowTheirPage == Spec => []DrilldownFollowsPage
<1>1. TypeOK /\ LogInv => DrilldownFollowsPage
  <2> SUFFICES ASSUME TypeOK, LogInv, NEW ua \in Agents, NEW asked \in 0..Now,
                      NEW type \in {"custom", "error"}
               PROVE  DrilldownFollowsPage!2!(ua, asked, type)
    BY DEF DrilldownFollowsPage
  <2>1. Now \in Nat /\ asked \in Nat /\ asked <= Now /\ Week \in Nat
    BY LenProperties, TrackingAssumption DEF Now, TypeOK
  <2> DEFINE rows  == Table(ua)
             then  == NamedBefore(asked)
             later == Stat(rows, Named)!Default(Now)
  <2>2. later.until = Now /\ later.since \in Nat
    BY <2>1 DEF Stat!Default
  <2>3. ASSUME NEW since \in 0..asked, NEW f \in Filters(since, asked),
               NEW g \in Stat(rows, then)!EventNameBreakdown(Stat(rows, then)!Selected(f), type)
        PROVE  LET shown == Stat(rows, Named)!RecentByName(later, type, g.name)
                   past  == {n \in Stat(rows, then)!Selected(f) :
                               /\ rows[n].type = type /\ rows[n].name = g.name
                               /\ rows[n].at < later.since} IN
               Cardinality(shown) = Limit \/ Cardinality(shown) + Cardinality(past) >= g.count
    <3>1. f.until = asked
      BY DEF Filters
    <3>2. f.until \in Nat /\ later.since \in Nat /\ later.until \in Nat /\ f.until <= later.until
      BY <2>1, <2>2, <3>1
    <3> HIDE DEF later, then
    <3>3. LET shown == Stat(rows, Named)!RecentByName(later, type, g.name)
              past  == SP!Older(rows, Stat(rows, then)!Selected(f), type, g.name, later.since) IN
          Cardinality(shown) = Limit \/ Cardinality(shown) + Cardinality(past) >= g.count
      BY <3>2, DrilldownsOfTheTable
    <3> QED BY <3>3 DEF SP!Older
  <2> QED BY <2>3, Zenon
<1> QED BY <1>1, StoredAreValid, PTL
=============================================================================
