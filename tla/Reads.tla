-------------------------------- MODULE Reads --------------------------------
(* How those who need a table of the hub wait for it.  A getter answers from *)
(* the cache or kicks a request; the answer is a burst, which the scheduler  *)
(* ends on the bridge thread; the end is what everyone waits for, and each   *)
(* in a way of its own:                                                      *)
(*                                                                           *)
(*   - AsyncX1Proxy._read (lib/aio.py): a future per key, resolved by a      *)
(*     callback posted to the event loop, or a timeout;                      *)
(*   - _fetch_and_wait of the backup export: an event armed before the kick; *)
(*   - the coordinator (hub.py), which fetches an activity step by step: a   *)
(*     future without a timeout for the buttons, polls for the rest.         *)
(*                                                                           *)
(* Tables of one activity.  A getter, run in an executor thread, is one      *)
(* step; so is a callback of the loop, and the end of a burst with the drain *)
(* that follows (WireScheduler has their insides).  A hub that stayed silent *)
(* until the idle tick stays silent (late answers are CatalogSnapshot's).    *)
EXTENDS Naturals, Sequences, FiniteSets

CONSTANTS
  Readers,    \* reads through the asyncio facade
  Exporters,  \* threads that export the activity
  Fetchers,   \* the coordinator's fetches of an activity
  Primers,    \* its reads after a change of the current activity
  Companies,  \* sets of them that are at work together
  Flaky,      \* those of them that see the hub go away (bound)
  None

Tables == {"buttons", "map", "macros"}
Tasks  == Readers \cup Exporters \cup Fetchers \cup Primers

\* The facade is the library's and its command line's, the coordinator is Home
\* Assistant's: no process has both.
Apart ==
  /\ Readers \cap (Exporters \cup Fetchers \cup Primers) = {}
  /\ Exporters \cap (Fetchers \cup Primers) = {}
  /\ \A c \in Companies : c \cap Readers = {} \/ c \cap Fetchers = {}
  /\ None \notin Tables \cup {"nothing", "timeout"}

VARIABLES
  company,   \* the tasks at work
  have,      \* tables whose content is in the cache
  flagged,   \* _macros_complete and _activity_map_complete
  pending,   \* the _pending_..._requests sets
  burst,     \* the table whose burst runs, or None
  answered,  \* its table has come, its end has not been told yet
  queue,     \* requests the scheduler deferred
  up,        \* can_issue_commands
  lost,      \* the hub has gone away once
  posted,    \* callbacks posted to the event loop
  readyFor, primed,  \* the coordinator's _buttons_ready_for, _pending_button_fetch
  at,        \* per task: its next step
  table,     \* per task: the table it works on
  waiters,   \* tasks whose future or event waits for the end of a burst
  woken,     \* tasks whose future or event has been set
  got,       \* per task: what the read returned
  spoiled,   \* tables whose answer broke off, or that were cleared between
             \* their last row and the end of their burst
  wiped,     \* reads under way when another task cleared the cache, or woken by
             \* the end of a burst from before that
  missed,    \* reads whose table was announced before they had registered
  dropped    \* fetches whose future another fetch threw away

proxy == <<have, flagged, pending, burst, answered, queue, spoiled>>
link  == <<company, up, lost>>
loop  == <<posted, readyFor, primed>>
waits == <<waiters, woken>>
ghosts == <<wiped, missed, dropped>>
tasks == <<at, table, got, waits, ghosts>>
vars  == <<proxy, link, loop, tasks>>

Init ==
  /\ company \in Companies
  /\ have = {} /\ flagged = {} /\ pending = {}
  /\ burst = None /\ answered = FALSE /\ queue = << >>
  /\ up = TRUE /\ lost = FALSE
  /\ posted = << >> /\ readyFor = FALSE /\ primed = FALSE
  /\ at = [t \in Tasks |-> "idle"] /\ table = [t \in Tasks |-> None]
  /\ waiters = {} /\ woken = {} /\ got = [t \in Tasks |-> None]
  /\ spoiled = {} /\ wiped = {} /\ missed = {} /\ dropped = {}

(***************************************************************************)
(* The getters                                                             *)
(***************************************************************************)
Ready(k) == IF k = "buttons" THEN k \in have ELSE k \in flagged

\* request_...: the request goes out, waits in the queue, or is refused; the
\* pending set keeps a second one from being made.
Request(k) ==
  IF up /\ k \notin pending
  THEN /\ pending' = pending \cup {k}
       /\ IF burst = None
          THEN burst' = k /\ answered' = FALSE /\ UNCHANGED queue
          ELSE queue' = Append(queue, k) /\ UNCHANGED <<burst, answered>>
       /\ UNCHANGED <<have, flagged, spoiled>>
  ELSE UNCHANGED proxy

\* get_...(fetch_if_missing=True)
Kick(k) == IF k \in have /\ Ready(k) THEN UNCHANGED proxy ELSE Request(k)

ClearKeepsFlag(ks) ==
  /\ have' = have \ ks /\ pending' = pending \ ks
  /\ spoiled' = IF answered THEN spoiled \cup ({burst} \cap ks) ELSE spoiled
  /\ UNCHANGED <<flagged, burst, answered, queue>>

\* clear_entity_cache
Clear(ks) ==
  /\ have' = have \ ks /\ pending' = pending \ ks /\ flagged' = flagged \ ks
  /\ spoiled' = IF answered THEN spoiled \cup ({burst} \cap ks) ELSE spoiled
  /\ UNCHANGED <<burst, answered, queue>>

(***************************************************************************)
(* The bridge thread                                                       *)
(***************************************************************************)
\* The burst ends: the proxy takes the table for complete, sets the events and
\* posts to the loop, and sends the next request, or drops all without a hub.
EndBurst ==
  LET heard == {t \in waiters \cap Exporters : table[t] = burst}
  IN /\ flagged' = flagged \cup ({burst} \ {"buttons"})
     /\ posted' = Append(posted, burst)
     /\ waiters' = waiters \ heard /\ woken' = woken \cup heard
     /\ answered' = FALSE
     /\ pending' = pending \ {burst}
     /\ IF up /\ queue # << >>
        THEN burst' = Head(queue) /\ queue' = Tail(queue)
        ELSE burst' = None /\ queue' = << >>

\* The last page is in.  (For an empty table the burst ends first, but what is
\* then stored is nothing.)
Answer ==
  /\ burst # None /\ ~answered /\ up
  /\ have' = have \cup {burst} /\ answered' = TRUE
  /\ IF burst = "buttons" THEN UNCHANGED <<flagged, pending>>
     ELSE flagged' = flagged \cup {burst} /\ pending' = pending \ {burst}
  /\ UNCHANGED <<burst, queue, spoiled, link, loop, tasks>>

\* The handler of that page ends the burst, or the idle tick what has gone quiet,
\* whole or not.
End ==
  /\ burst # None /\ EndBurst
  /\ spoiled' = IF answered THEN spoiled ELSE spoiled \cup {burst}
  /\ UNCHANGED <<have, link, readyFor, primed, at, table, got, ghosts>>

HubDrops ==
  /\ up /\ ~lost /\ company \in Flaky
  /\ up' = FALSE /\ lost' = TRUE
  /\ posted' = Append(posted, "down")
  /\ UNCHANGED <<proxy, company, readyFor, primed, tasks>>

HubReturns ==
  /\ ~up /\ up' = TRUE
  /\ UNCHANGED <<proxy, company, lost, loop, tasks>>

(***************************************************************************)
(* The event loop                                                          *)
(***************************************************************************)
Waiting(k) == {t \in waiters \ Exporters : table[t] = k}

WokenOne(k) == IF Waiting(k) = {} THEN {} ELSE {CHOOSE t \in Waiting(k) : TRUE}

Woken(k) == Waiting(k)

\* _resolve_burst of the facade; _on_buttons_burst and _on_hub_state_change of
\* the coordinator.
RunPosted ==
  /\ posted # << >> /\ posted' = Tail(posted)
  /\ LET k == Head(posted)
     IN /\ waiters' = waiters \ Waiting(k) /\ woken' = woken \cup Woken(k)
        /\ readyFor' = (readyFor \/ k = "buttons")
        /\ primed' = (primed /\ k \notin {"buttons", "down"})
        /\ missed' = missed \cup {t \in Readers : at[t] = "register" /\ table[t] = k}
        /\ wiped' = IF k \in have THEN wiped ELSE wiped \cup Woken(k)
  /\ UNCHANGED <<proxy, link, at, table, got, dropped>>

Go(t, step) == at' = [at EXCEPT ![t] = step]
Returns(t, what) == Go(t, "done") /\ got' = [got EXCEPT ![t] = what]
Leaves(t) == waiters' = waiters \ {t} /\ woken' = woken \ {t}

Found(k) == IF k \in have THEN "whole" ELSE "nothing"

Wipes(t) == wiped' = wiped \cup {u \in Tasks \ {t} : at[u] \notin {"idle", "done"}}

(***************************************************************************)
(* A read of the facade                                                    *)
(***************************************************************************)
Look(t, k) ==
  /\ at[t] = "idle"
  /\ table' = [table EXCEPT ![t] = k]
  /\ IF Ready(k) THEN Returns(t, Found(k)) ELSE Go(t, "register") /\ UNCHANGED got
  /\ UNCHANGED <<proxy, link, loop, waits, ghosts>>

RegisterWaiter(t) ==
  /\ at[t] = "register"
  /\ IF up THEN Go(t, "kick") /\ waiters' = waiters \cup {t} /\ UNCHANGED got
     ELSE Returns(t, "refused") /\ UNCHANGED waiters
  /\ UNCHANGED <<proxy, link, loop, table, woken, ghosts>>

KickRead(t) ==
  /\ at[t] = "kick" /\ Go(t, "wait") /\ Kick(table[t])
  /\ UNCHANGED <<link, loop, table, got, waits, ghosts>>

TimeOut(t) ==
  /\ at[t] = "wait" /\ t \notin woken
  /\ Returns(t, "timeout") /\ Leaves(t)
  /\ UNCHANGED <<proxy, link, loop, table, ghosts>>

LookAgain(t) ==
  /\ at[t] = "wait" /\ t \in woken
  /\ Returns(t, Found(table[t])) /\ Leaves(t)
  /\ UNCHANGED <<proxy, link, loop, table, ghosts>>

Read(t) ==
  \/ \E k \in {"buttons", "macros"} : Look(t, k)
  \/ RegisterWaiter(t) \/ KickRead(t) \/ TimeOut(t) \/ LookAgain(t)

(***************************************************************************)
(* An export: it clears, then reads the buttons and the macros             *)
(***************************************************************************)
ExportClears(t) ==
  /\ at[t] = "idle" /\ Go(t, "look") /\ Clear(Tables) /\ Wipes(t)
  /\ table' = [table EXCEPT ![t] = "buttons"]
  /\ UNCHANGED <<link, loop, got, waits, missed, dropped>>

Complete == Ready("buttons") /\ Ready("macros")

ExportNext(t) ==
  /\ Leaves(t)
  /\ IF table[t] = "buttons"
     THEN /\ Go(t, "look") /\ table' = [table EXCEPT ![t] = "macros"]
          /\ UNCHANGED got
     ELSE /\ Returns(t, CASE ~Complete -> "incomplete"
                          [] {"buttons", "macros"} \subseteq have -> "whole"
                          [] OTHER -> "nothing")
          /\ UNCHANGED table
  /\ UNCHANGED <<proxy, link, loop, ghosts>>

ExportLooks(t) ==
  /\ at[t] = "look"
  /\ \/ (Ready(table[t]) \/ ~up) /\ ExportNext(t)
     \/ /\ ~Ready(table[t]) /\ up
        /\ Go(t, "kick") /\ waiters' = waiters \cup {t}
        /\ UNCHANGED <<proxy, link, loop, table, got, woken, ghosts>>

ExportKicks(t) ==
  /\ at[t] = "kick" /\ Go(t, "wait") /\ Kick(table[t])
  /\ UNCHANGED <<link, loop, table, got, waits, ghosts>>

\* The event is set, the table is there, or the time is up.
ExportGoesOn(t) == at[t] = "wait" /\ ExportNext(t)

Export(t) == ExportClears(t) \/ ExportLooks(t) \/ ExportKicks(t) \/ ExportGoesOn(t)

(***************************************************************************)
(* The coordinator                                                         *)
(***************************************************************************)
\* _reset_entity_cache: whoever waits for the buttons is forgotten; the map
\* goes but keeps its flag.
Reset(t) ==
  /\ at[t] = "idle" /\ Go(t, "clear")
  /\ readyFor' = FALSE /\ primed' = FALSE
  /\ waiters' = waiters \ Waiting("buttons")
  /\ dropped' = dropped \cup Waiting("buttons")
  /\ have' = have \ {"map", "macros"}
  /\ flagged' = flagged \ {"macros"} /\ pending' = pending \ {"macros"}
  /\ spoiled' = IF answered THEN spoiled \cup {burst} ELSE spoiled
  /\ UNCHANGED <<burst, answered, queue>>
  /\ UNCHANGED <<link, posted, table, got, woken, wiped, missed>>

FetchClears(t) ==
  /\ at[t] = "clear" /\ Go(t, "get") /\ Clear(Tables) /\ Wipes(t)
  /\ UNCHANGED <<link, loop, table, got, waits, missed, dropped>>

Prime(t) ==
  /\ at[t] = "idle"
  /\ IF primed THEN Go(t, "done") ELSE Go(t, "get")
  /\ primed' = TRUE
  /\ UNCHANGED <<proxy, link, posted, readyFor, table, got, waits, ghosts>>

GetButtons(t) ==
  /\ at[t] = "get"
  /\ IF Ready("buttons") THEN Go(t, "map") ELSE Go(t, "await")
  /\ primed' = (primed /\ ~(t \in Primers /\ Ready("buttons")))
  /\ Kick("buttons")
  /\ UNCHANGED <<link, posted, readyFor, table, got, waits, ghosts>>

AwaitBlindly(t) ==
  /\ at[t] = "await" /\ Go(t, "wait") /\ waiters' = waiters \cup {t}
  /\ table' = [table EXCEPT ![t] = "buttons"]
  /\ UNCHANGED <<proxy, link, loop, got, woken, ghosts>>

AwaitButtons(t) ==
  /\ at[t] = "await"
  /\ IF readyFor THEN Go(t, "map") /\ UNCHANGED <<waiters, table>>
     ELSE /\ Go(t, "wait") /\ waiters' = waiters \cup {t}
          /\ table' = [table EXCEPT ![t] = "buttons"]
  /\ UNCHANGED <<proxy, link, loop, got, woken, ghosts>>

ButtonsCame(t) ==
  /\ at[t] = "wait" /\ t \in woken /\ Go(t, "map") /\ Leaves(t)
  /\ UNCHANGED <<proxy, link, loop, table, got, ghosts>>

\* The map and the macros are polled for, each for five seconds at most; a
\* prime is content with a map in the cache.
GetMap(t) ==
  /\ at[t] = "map" /\ Go(t, "macros")
  /\ IF t \in Primers /\ "map" \in have \cup flagged THEN UNCHANGED proxy ELSE Request("map")
  /\ UNCHANGED <<link, loop, table, got, waits, ghosts>>

GetMacros(t) ==
  /\ at[t] = "macros" /\ Go(t, "done") /\ Kick("macros")
  /\ UNCHANGED <<link, loop, table, got, waits, ghosts>>

Continue(t) ==
  \/ GetButtons(t) \/ AwaitButtons(t) \/ ButtonsCame(t) \/ GetMap(t) \/ GetMacros(t)

Bridge == Answer \/ End \/ HubDrops \/ HubReturns

Next ==
  \/ Bridge \/ RunPosted
  \/ \E t \in Readers \cap company : Read(t)
  \/ \E t \in Exporters \cap company : Export(t)
  \/ \E t \in Fetchers \cap company : Reset(t) \/ FetchClears(t) \/ Continue(t)
  \/ \E t \in Primers \cap company : Prime(t) \/ Continue(t)

Spec == Init /\ [][Next]_vars

\* The bridge thread ends what has gone quiet, the loop runs what is posted and what is runnable.
Fairness ==
  /\ WF_vars(End) /\ WF_vars(RunPosted)
  /\ \A t \in Fetchers : WF_vars(FetchClears(t) \/ Continue(t))
  /\ \A t \in Primers : WF_vars(Continue(t))

FairSpec == Spec /\ Fairness

-----------------------------------------------------------------------------
(* Properties *)

\* A read that returns a table, and an export that calls itself complete, have
\* what the hub holds: unless its answer broke off, or someone cleared the cache
\* meanwhile, also before the read began if the end of the burst was still to be
\* announced then.  There the code takes the end of a burst for the whole table.
ReadIsWhole ==
  \A t \in Readers \cup Exporters :
    got[t] = "nothing" =>
      \/ t \in wiped
      \/ spoiled \cap (IF t \in Readers THEN {table[t]} ELSE {"buttons", "macros"}) # {}

\* A read of the facade times out only while its table is not there, or has just
\* come; or when it came between its first look and its registration, for then
\* the getter makes no request and nothing ends that would wake it.
TimeoutIsHonest ==
  [][\A t \in Readers : got[t] = None /\ got'[t] = "timeout" =>
       LET k == table[t]
       IN ~Ready(k) \/ burst = k \/ t \in missed \/ \E i \in 1..Len(posted) : posted[i] = k]_vars

\* While the hub stays connected every fetch of the coordinator ends, unless
\* another fetch of the same activity threw its future away: it waits for the
\* buttons without a timeout.
FetchReturns ==
  \A t \in Fetchers \cup Primers :
    at[t] # "idle" ~> (at[t] = "done" \/ t \in dropped \/ lost)
=============================================================================
