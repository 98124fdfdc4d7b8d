----------------------------- MODULE PluginHost -----------------------------
(***************************************************************************)
(* The plugin host: every tracked event passes the onEvent hook of every   *)
(* loaded plugin, in load order, before it is saved                        *)
(* (EventRepositoryDecorator.Save -> Manager.RunOnEvent ->                 *)
(* Plugin.callOnEvent).  Requests run concurrently; each plugin has one    *)
(* goja runtime behind one mutex, and one interrupt flag in that runtime.  *)
(* A call arms a timer whose function runs in a goroutine of its own, so a *)
(* timer that fired may raise the flag only after its call has returned.   *)
(*                                                                         *)
(* What a script does is its own choice: it edits scalar fields of the     *)
(* event object or its metadata, reads and writes its kv store, returns an *)
(* object, null or something else, throws, or hangs.  An event is what the *)
(* plugins left on it: "scalars" are the plugins whose edits of name, path *)
(* or referrer it carries, "metadata" those whose metadata edits.          *)
(***************************************************************************)
EXTENDS Naturals, FiniteSets

CONSTANTS Requests,     \* the tracked events, each served by one goroutine
          PluginCount,  \* loaded plugins, numbered in load order
          Hooked,       \* the plugins that define onEvent
          Uses,         \* what each script does: pairs of plugin and deed
          Nils          \* may an event come without metadata?  From the SDK: never

ASSUME HostAssumption ==
    /\ PluginCount \in Nat
    /\ Hooked \subseteq 1..PluginCount
    /\ Uses \subseteq Hooked \X {"scalars", "metadata", "kv"}
    /\ Nils \subseteq BOOLEAN

VARIABLES req,      \* each request's place in the chain and its event
          holder,   \* per plugin: the requests inside callOnEvent's mutex
          flag,     \* per plugin: the runtime's interrupt flag
          timer,    \* per request and plugin: the timer of that call
          kv        \* per plugin: the number it keeps under its key

vars == <<req, holder, flag, timer, kv>>

Plugins == 1..PluginCount
Timers  == {"unset", "armed", "fired", "delivered", "stopped"}
Ends    == {"none", "object", "null", "threw", "interrupted"}
Fields  == {"scalars", "metadata"}

Event == [scalars : SUBSET Plugins, metadata : SUBSET Plugins]

Request == [pc   : {"idle", "lock", "js", "kvget", "kvset", "save", "done"},
            at   : 1..(PluginCount + 1),        \* the plugin it has come to
            ev   : Event,                       \* the Go event
            nil  : BOOLEAN,                     \* its Metadata is a nil map
            js   : Event,                       \* the object the script holds
            got  : {"unread", "read", "missed", "written"},
            val  : Nat,                         \* what kv.get returned
            said : [Plugins -> Ends],           \* how each plugin's call ended
            out  : {"none", "saved", "dropped"}]

Blank == [scalars |-> {}, metadata |-> {}]

Init ==
    /\ req = [r \in Requests |->
                [pc |-> "idle", at |-> 1, ev |-> Blank, nil |-> FALSE, js |-> Blank,
                 got |-> "unread", val |-> 0, said |-> [p \in Plugins |-> "none"],
                 out |-> "none"]]
    /\ holder = [p \in Plugins |-> {}]
    /\ flag = [p \in Plugins |-> FALSE]
    /\ timer = [r \in Requests |-> [p \in Plugins |-> "unset"]]
    /\ kv = [p \in Plugins |-> 0]

Running(r) == req[r].pc = "js" /\ ~flag[req[r].at]

-----------------------------------------------------------------------------
\* The loop of RunOnEvent: the first plugin from p on that has a hook (the
\* others pass the event through), past the last one if there is none.
NextHook(p) ==
    LET later == {q \in Hooked : q >= p} IN
    IF later = {} THEN PluginCount + 1
    ELSE CHOOSE q \in later : \A x \in later : q <= x

\* Request s goes on with event ev at the first hook from p on, or to Save.
Onward(s, p, ev) ==
    [s EXCEPT !.pc = IF NextHook(p) > PluginCount THEN "save" ELSE "lock",
              !.at = NextHook(p), !.ev = ev, !.js = Blank, !.got = "unread", !.val = 0]

\* A validated event reaches the decorator's Save, with or without metadata.
Arrive(r) ==
    /\ req[r].pc = "idle"
    /\ \E nil \in Nils :
         req' = [req EXCEPT ![r] = [Onward(@, 1, Blank) EXCEPT !.nil = nil]]
    /\ UNCHANGED <<holder, flag, timer, kv>>

\* A mistake in callOnEvent: the mutex is not taken.
CallOnEventUnlocked(r) ==
    LET p == req[r].at IN
    /\ req[r].pc = "lock"
    /\ holder' = [holder EXCEPT ![p] = @ \cup {r}]
    /\ timer' = [timer EXCEPT ![r][p] = "armed"]
    /\ req' = [req EXCEPT ![r] = [@ EXCEPT !.pc = "js", !.js = req[r].ev]]
    /\ UNCHANGED <<flag, kv>>

\* mu.Lock, then the timer, then the event as a JS object.
CallOnEvent(r) ==
    LET p == req[r].at IN
    /\ req[r].pc = "lock"
    /\ holder[p] = {}
    /\ holder' = [holder EXCEPT ![p] = {r}]
    /\ timer' = [timer EXCEPT ![r][p] = "armed"]
    /\ req' = [req EXCEPT ![r] = [@ EXCEPT !.pc = "js", !.js = req[r].ev]]
    /\ UNCHANGED <<flag, kv>>

-----------------------------------------------------------------------------
\* The script edits the event object.  Its name, path and referrer are copies;
\* its metadata is the Go event's own map, unless the event came without one.
Edit(r, f) ==
    LET p == req[r].at IN
    /\ Running(r) /\ <<p, f>> \in Uses
    /\ req' = [req EXCEPT ![r] =
                [req[r] EXCEPT !.js[f] = @ \cup {p},
                               !.ev.metadata = @ \cup IF f = "metadata" /\ ~req[r].nil THEN {p} ELSE {}]]
    /\ UNCHANGED <<holder, flag, timer, kv>>

\* The script calls kv.get, at most once a call, and blocks in the database.
KvGet(r) ==
    /\ Running(r) /\ <<req[r].at, "kv">> \in Uses /\ req[r].got = "unread"
    /\ req' = [req EXCEPT ![r].pc = "kvget"]
    /\ UNCHANGED <<holder, flag, timer, kv>>

\* The database answers; an error looks to the script like an absent key.
KvGetReturns(r) ==
    /\ req[r].pc = "kvget"
    /\ \/ req' = [req EXCEPT ![r] = [@ EXCEPT !.pc = "js", !.got = "read",
                                              !.val = kv[req[r].at]]]
       \/ req' = [req EXCEPT ![r] = [@ EXCEPT !.pc = "js", !.got = "missed", !.val = 0]]
    /\ UNCHANGED <<holder, flag, timer, kv>>

\* The script calls kv.set with one more than it read.
KvSet(r) ==
    /\ Running(r) /\ req[r].got \in {"read", "missed"}
    /\ req' = [req EXCEPT ![r].pc = "kvset"]
    /\ UNCHANGED <<holder, flag, timer, kv>>

\* The upsert happens or fails; the script cannot tell.
KvSetReturns(r) ==
    /\ req[r].pc = "kvset"
    /\ req' = [req EXCEPT ![r] = [@ EXCEPT !.pc = "js", !.got = "written"]]
    /\ \/ kv' = [kv EXCEPT ![req[r].at] = req[r].val + 1]
       \/ UNCHANGED kv
    /\ UNCHANGED <<holder, flag, timer>>

-----------------------------------------------------------------------------
\* A mistake in the deferred calls: the flag is not cleared.
FinishWithoutClear(r) ==
    LET p == req[r].at IN
    /\ timer' = [timer EXCEPT ![r][p] = IF @ = "armed" THEN "stopped" ELSE @]
    /\ holder' = [holder EXCEPT ![p] = {}]
    /\ UNCHANGED <<flag, kv>>

\* A mistake in the deferred calls: the mutex is not released.
FinishKeepingLock(r) ==
    LET p == req[r].at IN
    /\ timer' = [timer EXCEPT ![r][p] = IF @ = "armed" THEN "stopped" ELSE @]
    /\ flag' = [flag EXCEPT ![p] = FALSE]
    /\ UNCHANGED <<holder, kv>>

\* callOnEvent's deferred calls: timer.Stop, ClearInterrupt, Unlock.
Finish(r) ==
    LET p == req[r].at IN
    /\ timer' = [timer EXCEPT ![r][p] = IF @ = "armed" THEN "stopped" ELSE @]
    /\ flag' = [flag EXCEPT ![p] = FALSE]
    /\ holder' = [holder EXCEPT ![p] = {}]
    /\ UNCHANGED kv

\* The call at hand ends as "end", and the chain goes on with event ev.
Keep(r, end, ev) ==
    req' = [req EXCEPT ![r] =
              [Onward(req[r], req[r].at + 1, ev) EXCEPT !.said[req[r].at] = end]]

\* The script returns an object: the fields it holds replace the event's.  Any
\* other value, null aside, replaces none.
ReturnObject(r) ==
    /\ Running(r)
    /\ \E fields \in SUBSET Fields :
         req' = [req EXCEPT ![r] =
                   [Onward(req[r], req[r].at + 1,
                           [f \in Fields |-> IF f \in fields THEN req[r].js[f] ELSE req[r].ev[f]])
                    EXCEPT !.said[req[r].at] = "object",
                           !.nil = @ /\ "metadata" \notin fields]]
    /\ Finish(r)

\* The script returns null or undefined: the event is dropped, Save answers nil.
ReturnNull(r) ==
    /\ Running(r)
    /\ req' = [req EXCEPT ![r] =
                 [@ EXCEPT !.pc = "done", !.out = "dropped", !.said[req[r].at] = "null",
                           !.js = Blank, !.ev = Blank, !.got = "unread", !.val = 0]]
    /\ Finish(r)

\* A mistake in the error branch: the edited object is used.
ThrowMerging(r) == Running(r) /\ Keep(r, "threw", req[r].js) /\ Finish(r)

\* The script throws: the event is kept.
Throw(r) == Running(r) /\ Keep(r, "threw", req[r].ev) /\ Finish(r)

\* A mistake in the error branch: the event is dropped.
InterruptedDropping(r) ==
    /\ req[r].pc = "js" /\ flag[req[r].at]
    /\ req' = [req EXCEPT ![r] =
                 [@ EXCEPT !.pc = "done", !.out = "dropped", !.said[req[r].at] = "interrupted",
                           !.js = Blank, !.ev = Blank, !.got = "unread", !.val = 0]]
    /\ Finish(r)

\* The runtime finds its interrupt flag raised: the event is kept.
Interrupted(r) ==
    /\ req[r].pc = "js" /\ flag[req[r].at]
    /\ Keep(r, "interrupted", req[r].ev)
    /\ Finish(r)

\* The budget is over: the timer's goroutine is started ...
TimerFires(r, p) ==
    /\ timer[r][p] = "armed"
    /\ timer' = [timer EXCEPT ![r][p] = "fired"]
    /\ UNCHANGED <<req, holder, flag, kv>>

\* ... and raises the flag when it gets to run, whoever is in the runtime then.
Interrupt(r, p) ==
    /\ timer[r][p] = "fired"
    /\ timer' = [timer EXCEPT ![r][p] = "delivered"]
    /\ flag' = [flag EXCEPT ![p] = TRUE]
    /\ UNCHANGED <<req, holder, kv>>

\* The event goes to the real repository; whether its insert succeeds is the
\* caller's business.
Save(r) ==
    /\ req[r].pc = "save"
    /\ req' = [req EXCEPT ![r] = [@ EXCEPT !.pc = "done", !.out = "saved", !.ev = Blank]]
    /\ UNCHANGED <<holder, flag, timer, kv>>

\* Every event has been answered: nothing more is asked of the host.
AllAnswered == (\A r \in Requests : req[r].pc = "done") /\ UNCHANGED vars

Script(r) ==
    \/ \E f \in Fields : Edit(r, f)
    \/ KvGet(r) \/ KvSet(r)
    \/ ReturnObject(r) \/ ReturnNull(r) \/ Throw(r)

Next ==
    \/ \E r \in Requests :
         \/ Arrive(r) \/ CallOnEvent(r) \/ Script(r)
         \/ KvGetReturns(r) \/ KvSetReturns(r) \/ Interrupted(r) \/ Save(r)
         \/ \E p \in Plugins : TimerFires(r, p) \/ Interrupt(r, p)
    \/ AllAnswered

\* Goroutines and timers run, Go's mutex starves nobody (it hands over in FIFO
\* order once a waiter is late) and the insert's statement ends.  Nothing is
\* assumed of a script: it may hang.
HostFairness ==
    \A r \in Requests :
        /\ WF_vars(Save(r)) /\ WF_vars(Interrupted(r))
        /\ SF_vars(CallOnEvent(r))
        /\ \A p \in Plugins : WF_vars(TimerFires(r, p)) /\ WF_vars(Interrupt(r, p))

\* The kv store's statements end, which nothing in the code bounds.
KvFairness ==
    \A r \in Requests : WF_vars(KvGetReturns(r)) /\ WF_vars(KvSetReturns(r))

Spec == Init /\ [][Next]_vars /\ HostFairness

SpecKvAnswers == Spec /\ KvFairness

-----------------------------------------------------------------------------
\* Request r is inside callOnEvent of plugin p.
InCall(r, p) == req[r].pc \in {"js", "kvget", "kvset"} /\ req[r].at = p

\* The state is well formed, and the mutex of a plugin is held exactly while a
\* call of its hook is in progress (Plugin.mu).
TypeOK ==
    /\ req \in [Requests -> Request]
    /\ holder = [p \in Plugins |-> {r \in Requests : InCall(r, p)}]
    /\ flag \in [Plugins -> BOOLEAN]
    /\ timer \in [Requests -> [Plugins -> Timers]]
    /\ kv \in [Plugins -> Nat]

\* What a script read from its kv store is still there when it writes: the
\* mutex makes a plugin's read-modify-write atomic across concurrent events
\* (Plugin.callOnEvent holds mu over kv.get and kv.set).
ReadsStayCurrent ==
    \A r \in Requests :
        req[r].pc \in {"js", "kvset"} /\ req[r].got = "read" => req[r].val = kv[req[r].at]

\* An event is dropped only where a plugin said null, and no later plugin sees
\* a dropped event; an event that went on to Save was seen by every hook
\* (Manager.RunOnEvent; "a plugin error keeps the event, it never drops it").
DropsAreExplicit ==
    \A r \in Requests :
        /\ req[r].out = "dropped" =>
             \E p \in Hooked : /\ req[r].said[p] = "null"
                               /\ \A q \in Plugins : q > p => req[r].said[q] = "none"
        /\ req[r].out = "saved" =>
             \A p \in Hooked : req[r].said[p] \notin {"none", "null"}

\* The name, path and referrer an event carries were set by calls that returned
\* an object: a call that threw, hung or returned something else left no edit
\* behind (callOnEvent's error branch, jsValueToEvent).
ScalarsComeFromReturns ==
    \A r \in Requests : \A p \in req[r].ev.scalars : req[r].said[p] = "object"

\* A timer that ran out costs one event at most one hook: no plugin has more
\* interrupted calls than raised interrupts (ClearInterrupt at the end of every
\* call, also of the call a late timer hits).
OneInterruptPerTimer ==
    \A p \in Plugins :
        Cardinality({r \in Requests : req[r].said[p] = "interrupted"})
          <= Cardinality({r \in Requests : timer[r][p] = "delivered"})

\* Every event that reached Save is answered, whatever the scripts do, as long
\* as the kv store's statements end (the budget, the mutex and their order).
EveryEventAnswered ==
    \A r \in Requests : req[r].pc = "lock" ~> req[r].pc = "done"

\* docs/plugins.md: the time budget is per onEvent call, so a call is
\* interrupted only when its own timer ran out.
InterruptedByOwnTimer ==
    \A r \in Requests : \A p \in Plugins :
        req[r].said[p] = "interrupted" => timer[r][p] \in {"fired", "delivered"}

\* docs/plugins.md: a plugin error keeps the event unchanged, its metadata too.
ErrorKeepsMetadata ==
    \A r \in Requests : \A p \in req[r].ev.metadata :
        req[r].said[p] \notin {"threw", "interrupted"}
=============================================================================
