----------------------------- MODULE AppSession -----------------------------
(* The app's way in: how a hub is offered to the Sofabaton app while no app *)
(* holds it, and how a session of the app begins and ends.                  *)
(*                                                                          *)
(*   - the NotifyDemuxer (lib/notify_demuxer.py), which answers for the     *)
(*     hub's registration and passes the app's CALL_ME on;                  *)
(*   - the TransportBridge (lib/transport_bridge.py) with its flag, its app *)
(*     socket, its bridge thread, and a thread per CALL_ME that dials the   *)
(*     app;                                                                 *)
(*   - X1Proxy and the coordinator (hub.py), which switch the proxy on and  *)
(*     off, announce the hub and replace the bridge when settings change.   *)
(*                                                                          *)
(* Registering is check, call, set: a thread may be overtaken between them. *)
(* So a thread is the list of the steps it has yet to make, and each step   *)
(* is an action.  The hub may be connected or not (HubLink); the            *)
(* busy gate (OperationGuard) and the bytes that pass are left out.         *)
EXTENDS Naturals, Sequences, FiniteSets

CONSTANTS
  Bridges,   \* bridges made for one config entry, one after another: 1..n
  Admins,    \* executor threads that switch, announce and stop
  Calls,     \* threads that dial the app, one per CALL_ME answered
  None,
  MaxAsked   \* bound on the tasks given to the executor

ASSUME BridgesAssumption == Bridges \subseteq Nat
ASSUME ThreadsAreDistinct ==
  /\ Admins \cap Calls = {} /\ (Admins \cup Calls) \cap Bridges = {}
  /\ None \notin Admins \cup Calls \cup Bridges

VARIABLES
  bridge,  \* state of each bridge, see NewBridge
  listed,  \* the bridge whose registration the demuxer holds
  setting, \* SofabatonHub.proxy_enabled, which a new bridge starts with
  todo,    \* per thread: the steps it has yet to make
  of,      \* per thread: the bridge it works on
  gone,    \* sessions at their end: the app left, or our end was shut down
  asked,
  late,    \* bridges where a session had ended before it was announced, or was
           \* installed before the end of the one before it had been told
  cut,     \* bridges switched off while the app was being dialled or had just
           \* left, or that took a CALL_ME while they were being switched off
  crossed  \* bridges with two tasks of the executor at a time, or two threads
           \* that register or unregister at a time

base == <<setting, of, asked, late>>
others == <<base, crossed>>
vars == <<bridge, listed, todo, gone, cut, others>>

Threads == Admins \cup Calls \cup Bridges

\* wanted is X1Proxy._proxy_enabled, enabled that of the transport; discovery
\* _discovery_enabled, adv _adv_started, flag _notify_registered, app _app_sock;
\* told is what the listeners of the session last heard, sampled the session
\* that the bridge thread read at its loop head.
NewBridge == [life |-> "new", wanted |-> TRUE, enabled |-> TRUE,
              discovery |-> FALSE, adv |-> FALSE, flag |-> FALSE,
              app |-> None, told |-> FALSE, sampled |-> None]

Init ==
  /\ bridge = [b \in Bridges |-> NewBridge]
  /\ listed = None /\ setting = TRUE
  /\ todo = [t \in Threads |-> << >>]
  /\ of = [t \in Threads |-> IF t \in Bridges THEN t ELSE None]
  /\ gone = {} /\ asked = 0
  /\ late = {} /\ cut = {} /\ crossed = {}

(***************************************************************************)
(* What the threads are asked to do                                        *)
(***************************************************************************)
Program(task) ==
  CASE task = "enable"  -> <<"want", "enable", "announce", "note on">>
    [] task = "disable" -> <<"refuse", "disable", "unlisten", "withdraw", "note off">>
    [] task = "banner"  -> <<"announce">>
    [] task = "rename"  -> <<"retract", "announce">>
    [] task = "stop"    -> <<"unlisten", "withdraw", "stop", "close", "stopped">>

Tasks == {"enable", "disable", "banner", "rename", "stop"}

\* The switch, the identity in the hub's banner, unloading and new settings.
Ask(a, b, task) ==
  /\ todo[a] = << >> /\ asked < MaxAsked
  /\ bridge[b].life = "up"
  /\ asked' = asked + 1
  /\ todo' = [todo EXCEPT ![a] = Program(task)] /\ of' = [of EXCEPT ![a] = b]
  /\ crossed' = IF \E t \in Admins : todo[t] # << >> THEN crossed \cup {b} ELSE crossed
  /\ UNCHANGED <<bridge, listed, setting, gone, late, cut>>

\* async_apply_new_settings: a new bridge when the stop of the old has returned.
Start(b) ==
  /\ bridge[b].life = "new"
  /\ \A c \in Bridges : c < b => bridge[c].life = "stopped"
  /\ bridge' = [bridge EXCEPT ![b].life = "up", ![b].wanted = setting]
  /\ UNCHANGED <<listed, todo, gone, cut, others>>

\* The demuxer finds the registration under its lock and calls the bridge after
\* it; one thread does so, one datagram after the other.
CallMe(c) ==
  /\ of[c] = None /\ listed # None
  /\ \A d \in Calls : todo[d] # <<"answer">>
  /\ of' = [of EXCEPT ![c] = listed]
  /\ todo' = [todo EXCEPT ![c] = <<"answer">>]
  /\ cut' = IF bridge[listed].discovery THEN cut ELSE cut \cup {listed}
  /\ UNCHANGED <<bridge, listed, setting, gone, asked, late, crossed>>

(***************************************************************************)
(* The steps of a thread t on its bridge b                                 *)
(***************************************************************************)
At(t, step) == todo[t] # << >> /\ Head(todo[t]) = step
Then(t, steps) == todo' = [todo EXCEPT ![t] = steps \o Tail(@)]
ThenIf(t, test, steps) == Then(t, IF test THEN steps ELSE << >>)

\* _register_demuxer and _stop_notify_listener: the flag is read, the demuxer
\* called under its own lock, the flag set.
Meets(t, b) ==
  crossed' = IF \E u \in Threads \ {t} : \E step \in {"list", "mark", "unlist", "unmark"} : At(u, step)
             THEN crossed \cup {b} ELSE crossed

Register(t, b) ==
  /\ At(t, "register") /\ ThenIf(t, ~bridge[b].flag, <<"list">>)
  /\ Meets(t, b)
  /\ UNCHANGED <<bridge, listed, gone, cut, base>>

Unregister(t, b) ==
  /\ At(t, "unregister") /\ ThenIf(t, bridge[b].flag, <<"unlist">>)
  /\ Meets(t, b)
  /\ UNCHANGED <<bridge, listed, gone, cut, base>>

List(t, b) ==
  /\ At(t, "list") /\ Then(t, <<"mark">>) /\ listed' = b
  /\ UNCHANGED <<bridge, gone, cut, others>>

Unlist(t) ==
  /\ At(t, "unlist") /\ Then(t, <<"unmark">>) /\ listed' = None
  /\ UNCHANGED <<bridge, gone, cut, others>>

\* The steps that set one field.
Set(t, b, step, new) ==
  /\ At(t, step) /\ Then(t, << >>)
  /\ bridge' = [bridge EXCEPT ![b] = new]
  /\ UNCHANGED <<listed, gone, cut, others>>

Mark(t, b)     == Set(t, b, "mark", [bridge[b] EXCEPT !.flag = TRUE])
Unmark(t, b)   == Set(t, b, "unmark", [bridge[b] EXCEPT !.flag = FALSE])
Want(t, b)     == Set(t, b, "want", [bridge[b] EXCEPT !.wanted = TRUE])
Refuse(t, b)   == Set(t, b, "refuse", [bridge[b] EXCEPT !.wanted = FALSE])
Withdraw(t, b) == Set(t, b, "withdraw", [bridge[b] EXCEPT !.adv = FALSE])
Stopped(t, b)  == Set(t, b, "stopped", [bridge[b] EXCEPT !.life = "stopped"])
TellUp(t, b)   == Set(t, b, "tell up", [bridge[b] EXCEPT !.told = TRUE])
TellDown(t, b) == Set(t, b, "tell down", [bridge[b] EXCEPT !.told = FALSE])

Note(t, step, new) ==
  /\ At(t, step) /\ Then(t, << >>) /\ setting' = new
  /\ UNCHANGED <<bridge, listed, of, gone, asked, late, cut, crossed>>

\* TransportBridge.enable_proxy and disable_proxy.
Enable(t, b) ==
  /\ At(t, "enable")
  /\ ThenIf(t, bridge[b].discovery /\ ~bridge[b].flag /\ bridge[b].app = None, <<"register">>)
  /\ bridge' = [bridge EXCEPT ![b].enabled = TRUE]
  /\ UNCHANGED <<listed, gone, cut, others>>

\* Something is switched off that a thread under way may switch on again.
Off(b) ==
  cut' = IF \E t \in Calls \cup {b} : of[t] = b /\ todo[t] # << >> THEN cut \cup {b} ELSE cut

SwitchOff(t, b, step, new) ==
  /\ At(t, step) /\ Then(t, <<"unregister">>) /\ Off(b)
  /\ bridge' = [bridge EXCEPT ![b] = new]
  /\ UNCHANGED <<listed, gone, others>>

DisableCloses(t, b) ==
  SwitchOff(t, b, "disable", [bridge[b] EXCEPT !.enabled = FALSE, !.app = None])

Disable(t, b) == SwitchOff(t, b, "disable", [bridge[b] EXCEPT !.enabled = FALSE])
Stop(t, b)    == SwitchOff(t, b, "stop", [bridge[b] EXCEPT !.life = "stopping"])

\* start_notify_listener and stop_notify_listener.
Unlisten(t, b) ==
  SwitchOff(t, b, "unlisten", [bridge[b] EXCEPT !.discovery = FALSE])

Listen(t, b) ==
  /\ At(t, "listen")
  /\ ThenIf(t, bridge[b].enabled /\ bridge[b].app = None, <<"register">>)
  /\ bridge' = [bridge EXCEPT ![b].discovery = TRUE]
  /\ UNCHANGED <<listed, gone, cut, others>>

\* update_discovery_identity withdraws what it is about to announce anew.
Retract(t, b) ==
  /\ At(t, "retract") /\ ThenIf(t, bridge[b].adv, <<"unlisten", "withdraw">>)
  /\ UNCHANGED <<bridge, listed, gone, cut, others>>

\* _start_discovery, when the hub is connected; mDNS may refuse the name.
Announce(t, b) ==
  /\ At(t, "announce")
  /\ \E connected \in BOOLEAN :
       ThenIf(t, connected /\ bridge[b].wanted /\ ~bridge[b].adv, <<"mdns">>)
  /\ UNCHANGED <<bridge, listed, gone, cut, others>>

Mdns(t, b) ==
  /\ At(t, "mdns")
  /\ \/ Then(t, <<"listen">>) /\ bridge' = [bridge EXCEPT ![b].adv = TRUE]
     \/ Then(t, << >>) /\ UNCHANGED bridge
  /\ UNCHANGED <<listed, gone, cut, others>>

\* A thread has this step before it, now or later.
Holds(t, step) == \E i \in 1..Len(todo[t]) : todo[t][i] = step

\* A thread that has installed a session has yet to announce it.
Unannounced(b) == \E c \in Calls : of[c] = b /\ Holds(c, "tell up")

SessionEnds(b, new) ==
  /\ bridge' = [bridge EXCEPT ![b] = new]
  /\ gone' = gone \cup ({bridge[b].app} \ {None})
  /\ late' = IF Unannounced(b) THEN late \cup {b} ELSE late
  /\ UNCHANGED <<listed, setting, of, asked, cut, crossed>>

\* stop holds _app_lock while it tells of the end of the session.
AppLocked(b) ==
  \E a \in Admins : of[a] = b /\ Holds(a, "unlock")

Close(t, b) ==
  /\ At(t, "close")
  /\ ThenIf(t, bridge[b].app # None, <<"down", "tell down", "unlock">>)
  /\ SessionEnds(b, [bridge[b] EXCEPT !.app = None])

Unlock(t) ==
  /\ At(t, "unlock") /\ Then(t, << >>)
  /\ UNCHANGED <<bridge, listed, gone, cut, others>>

\* _notify_client_state(False)
DownAlways(t, b) ==
  /\ At(t, "down") /\ ThenIf(t, bridge[b].enabled, <<"register">>)
  /\ UNCHANGED <<bridge, listed, gone, cut, others>>

Down(t, b) ==
  /\ At(t, "down") /\ ThenIf(t, bridge[b].enabled /\ bridge[b].discovery, <<"register">>)
  /\ UNCHANGED <<bridge, listed, gone, cut, others>>

(***************************************************************************)
(* The thread that dials the app                                           *)
(***************************************************************************)
Answer(c, b) ==
  /\ At(c, "answer")
  /\ ThenIf(c, bridge[b].enabled /\ bridge[b].life = "up", <<"unregister", "connect">>)
  /\ UNCHANGED <<bridge, listed, gone, cut, others>>

Connect(c) ==
  /\ At(c, "connect")
  /\ Then(c, <<"install">>) \/ Then(c, <<"failed">>)
  /\ UNCHANGED <<bridge, listed, gone, cut, others>>

FailedSilent(c, b) ==
  /\ At(c, "failed") /\ Then(c, << >>)
  /\ UNCHANGED <<bridge, listed, gone, cut, others>>

\* The proxy is registered again, whether discovery is on or not.
Failed(c, b) ==
  /\ At(c, "failed") /\ ThenIf(c, bridge[b].enabled, <<"register">>)
  /\ UNCHANGED <<bridge, listed, gone, cut, others>>

\* An earlier session is shut down and replaced.
Install(c, b) ==
  /\ At(c, "install") /\ ~AppLocked(b) /\ Then(c, <<"unregister", "tell up">>)
  /\ bridge' = [bridge EXCEPT ![b].app = c]
  /\ gone' = gone \cup ({bridge[b].app} \ {None})
  /\ late' = IF todo[b] # << >> THEN late \cup {b} ELSE late
  /\ UNCHANGED <<listed, setting, of, asked, cut, crossed>>

(***************************************************************************)
(* The bridge thread and the app                                           *)
(***************************************************************************)
Sample(b) ==
  /\ todo[b] = << >> /\ bridge[b].life = "up"
  /\ bridge' = [bridge EXCEPT ![b].sampled = bridge[b].app]
  /\ UNCHANGED <<listed, todo, gone, cut, others>>

\* recv on the sampled socket returns nothing or fails: whatever session is
\* installed by now is forgotten, and its socket closes with the last reference.
EndOfFileSilent(b) ==
  /\ todo[b] = << >> /\ bridge[b].sampled \in gone /\ ~AppLocked(b)
  /\ todo' = [todo EXCEPT ![b] = <<"down">>]
  /\ SessionEnds(b, [bridge[b] EXCEPT !.app = None, !.sampled = None])

EndOfFile(b) ==
  /\ todo[b] = << >> /\ bridge[b].sampled \in gone /\ ~AppLocked(b)
  /\ todo' = [todo EXCEPT ![b] = <<"down", "tell down">>]
  /\ SessionEnds(b, [bridge[b] EXCEPT !.app = None, !.sampled = None])

AppLeaves(c) ==
  /\ \E b \in Bridges : bridge[b].app = c
  /\ gone' = gone \cup {c}
  /\ UNCHANGED <<bridge, listed, todo, cut, others>>

Step(t, b) ==
  \/ Register(t, b) \/ Unregister(t, b) \/ List(t, b) \/ Unlist(t)
  \/ Mark(t, b) \/ Unmark(t, b)
  \/ Want(t, b) \/ Refuse(t, b) \/ Enable(t, b) \/ Disable(t, b)
  \/ Note(t, "note on", TRUE) \/ Note(t, "note off", FALSE)
  \/ Retract(t, b) \/ Announce(t, b) \/ Mdns(t, b) \/ Withdraw(t, b)
  \/ Listen(t, b) \/ Unlisten(t, b)
  \/ Stop(t, b) \/ Close(t, b) \/ Unlock(t) \/ Stopped(t, b)
  \/ Down(t, b) \/ TellDown(t, b) \/ TellUp(t, b)
  \/ Answer(t, b) \/ Connect(t) \/ Failed(t, b) \/ Install(t, b)

Next ==
  \/ \E a \in Admins, b \in Bridges, task \in Tasks : Ask(a, b, task)
  \/ \E b \in Bridges : Start(b) \/ Sample(b) \/ EndOfFile(b)
  \/ \E c \in Calls : CallMe(c) \/ AppLeaves(c)
  \/ \E t \in Threads : \E b \in Bridges \cap {of[t]} : Step(t, b)

Spec == Init /\ [][Next]_vars

-----------------------------------------------------------------------------
(* Properties *)

\* No thread has anything left to do and no bridge has a session to take leave of.
Settled ==
  /\ \A t \in Threads : todo[t] = << >>
  /\ \A b \in Bridges : bridge[b].life = "up" => bridge[b].app \notin gone

\* After a session, and after an attempt that failed, the app finds the hub
\* again.  Not so when a session ended before its own thread had announced it:
\* that thread takes the registration away which the end had brought back.
FoundAgain ==
  Settled /\ late = {} /\ crossed = {} /\ cut = {} =>
    \A b \in Bridges :
      LET s == bridge[b]
      IN s.life = "up" /\ s.enabled /\ s.discovery /\ s.app = None => listed = b

\* A hub whose proxy is off, or whose bridge has stopped, is not offered, and a
\* stopped bridge has no session; unless it was switched off while the app was
\* being dialled, or had just left.
HiddenWhenOff ==
  Settled /\ crossed = {} /\ cut = {} =>
    /\ listed # None => /\ bridge[listed].enabled /\ bridge[listed].discovery
                        /\ bridge[listed].life = "up"
    /\ \A b \in Bridges : bridge[b].life = "stopped" => bridge[b].app = None

\* What the listeners were told last is so.
ToldIsTrue ==
  Settled /\ late = {} => \A b \in Bridges : bridge[b].told = (bridge[b].app # None)

\* The switch interrupts no session: one ends because the app left, another
\* session came or the bridge was stopped.
SessionsOutliveTheSwitch ==
  [][\A b \in Bridges :
       bridge[b].app # None /\ bridge'[b].app # bridge[b].app =>
         \/ bridge[b].sampled \in gone \/ bridge'[b].app # None
         \/ bridge[b].life \in {"stopping", "stopped"}]_vars
=============================================================================
