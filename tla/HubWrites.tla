----------------------------- MODULE HubWrites -----------------------------
(* Edits of activities made straight from a service or a handler: a device  *)
(* is added or deleted, a favorite added, deleted or moved, a button bound, *)
(* the list of devices sorted, everything erased (proxy_activity_ops.py and *)
(* proxy_backup.py).  Each is a sequence of exchanges of its own worker     *)
(* thread: only one exchange excludes another, so two edits of one activity *)
(* interleave between them.  An exchange is refused, or its ack is lost,    *)
(* and the edit returns None where it stands.  At its end it drops the      *)
(* cached tables it has written, to be read again.  For favorites and their *)
(* order there is no flag to say that they are to be read: dropped, they    *)
(* are shown as none.                                                       *)
(*                                                                          *)
(* What the hub does is taken from docs/protocol: the lowest free id for a  *)
(* new favorite, an order that lists only what was written to it, and a     *)
(* member that neither power macro mentions is no member any more.          *)
EXTENDS Naturals, Sequences, FiniteSets, SequencesExt, Functions, Subsequences

CONSTANTS
  Acts, Devs,  \* activities and devices of the hub
  Threads,     \* workers that edit
  Versions,    \* hub versions: "X1" and "X1S"
  FavIds,      \* ids of favorites that a user names
  Starts,      \* the favorites an activity may have to begin with
  MaxEdits,    \* bound on the edits begun
  MaxTrouble   \* bound on refusals, lost acks and reads without an answer

Flagged   == {"members", "macros", "buttons"}
Unflagged == {"favs", "order"}
Tables    == Flagged \cup Unflagged
NoDev  == "none"
Empty  == [members |-> {}, macros |-> <<{}, {}>>, buttons |-> NoDev, favs |-> {}, order |-> << >>]

\* The hub is one of these two; devices are finitely many, ids positive numbers.
ASSUME WritesBounds ==
  /\ Versions \subseteq {"X1", "X1S"} /\ IsFiniteSet(Devs)
  /\ \A favs \in Starts : IsFiniteSet(favs) /\ favs \subseteq Nat \ {0}

VARIABLES
  version,
  hub,      \* of each activity: both power macros, as the devices they switch,
            \* one button, favorites <<id, device>> and their order on display
  sort,     \* the list of devices on the hub
  confirm,  \* activities that the hub wants confirmed after a delete
  tab,      \* cached tables of each activity
  has,      \* <<activity, flagged table>> that the cache offers
  unread,   \* <<activity, other table>> shown empty: not read since it was dropped
  listed,   \* cached list of devices
  jobs,     \* the edit of each thread
  torn,     \* cached tables that an edit left behind
  edits, trouble

vars  == <<version, hub, sort, confirm, tab, has, unread, listed, jobs, torn, edits, trouble>>
tabs  == <<tab, has, unread>>
cache == <<tabs, listed>>

Idle == [op |-> "none", at |-> "idle", act |-> NoDev, dev |-> NoDev, ids |-> << >>, fresh |-> 0,
         members |-> {}, source |-> {}, acts |-> {}, misread |-> FALSE]

Members(h, a) == h[a].on \cup h[a].off
Ids(favs)     == {f[1] : f \in favs}

\* A table as the hub has it.
Truth(h, a, x) ==
  CASE x = "members" -> Members(h, a)
    [] x = "macros"  -> <<h[a].on, h[a].off>>
    [] x = "buttons" -> h[a].button
    [] x = "favs"    -> h[a].favs
    [] x = "order"   -> h[a].order

Start(v, favs) ==
  [a \in Acts |-> [on |-> {v}, off |-> {v}, button |-> v, favs |-> {<<i, v>> : i \in favs},
                   order |-> SetToSeq(favs)]]

Init ==
  /\ version \in Versions
  /\ \E favs \in Starts : hub = Start(CHOOSE d \in Devs : TRUE, favs)
  /\ sort = SetToSeq(Devs) /\ listed = sort /\ confirm = {}
  /\ has \in {{}, Acts \X Flagged}
  /\ unread = IF has = {} THEN Acts \X Unflagged ELSE {}
  /\ tab = [a \in Acts |-> IF has = {} THEN Empty ELSE [x \in Tables |-> Truth(hub, a, x)]]
  /\ jobs = [t \in Threads |-> Idle]
  /\ torn = {} /\ edits = 0 /\ trouble = 0

-----------------------------------------------------------------------------
(* Helpers.                                                                  *)

\* clear_entity_cache, and the flags dropped beside it.
Buttons   == {"buttons"}
Favorites == {"favs", "members"}
Macros    == {"macros"}

Cleared(tb, as, xs) ==
  [a \in Acts |-> [x \in Tables |-> IF a \in as /\ x \in xs THEN Empty[x] ELSE tb[a][x]]]

\* The cache changes; a table that is right again is no longer left behind.
Store(tb, h, n, left) ==
  /\ tab' = tb /\ has' = h /\ unread' = n
  /\ torn' = {w \in torn \cup left : tb[w[1]][w[2]] # Truth(hub, w[1], w[2])}

Forgotten(as, xs) == unread \cup as \X (xs \cap Unflagged)

Clear(as, xs, flags) ==
  Store(Cleared(tab, as, xs), has \ as \X (xs \cup flags), Forgotten(as, xs), {})

\* What the cache keeps of these activities and the hub has otherwise by now.
Wrong(as, h) ==
  {w \in as \X Tables : tab[w[1]][w[2]] # Truth(h, w[1], w[2])}

Trouble == trouble < MaxTrouble /\ trouble' = trouble + 1

\* A job goes on.  Jobs of other threads on activities that it changed have
\* been overtaken.
Moved(t, job, h) ==
  jobs' = [u \in Threads |->
             IF u = t THEN job
             ELSE [jobs[u] EXCEPT !.misread = @ \/ \E a \in Acts : jobs[u].act = a /\ h[a] # hub[a]]]

Touched(job) == IF job.op \in {"delete", "erase"} THEN Acts ELSE {job.act} \cap Acts

\* return None: nothing is cleared.
Abandon(t, h) ==
  /\ hub' = h /\ Moved(t, Idle, h)
  /\ torn' = torn \cup Wrong(Touched(jobs[t]), h) /\ UNCHANGED tabs

\* _send_step: acked, or refused or unheard, whether it took effect or not.
Step(t, h, job) ==
  \/ hub' = h /\ Moved(t, job, h) /\ UNCHANGED <<tabs, torn, trouble>>
  \/ Trouble /\ \E g \in {hub, h} : Abandon(t, g)

At(t, op, place) == jobs[t].op = op /\ jobs[t].at = place
lists == <<version, sort, listed, confirm, edits>>

Begin(t, job) ==
  /\ jobs[t] = Idle /\ edits < MaxEdits /\ edits' = edits + 1
  /\ jobs' = [jobs EXCEPT ![t] = job]
  /\ UNCHANGED <<version, hub, sort, confirm, trouble>>

-----------------------------------------------------------------------------
(* add_device_to_activity.                                                   *)

\* The members are forgotten and asked for.
AddDevice(t, a, d) ==
  /\ d \in Range(sort)
  /\ Begin(t, [Idle EXCEPT !.op = "assign", !.at = "map", !.act = a, !.dev = d])
  /\ Clear({a}, Favorites, {}) /\ UNCHANGED listed

\* The end of the burst counts as the answer, with no row or some rows missing
\* too: the favorites read meanwhile stand in for an empty list.
MapRead(t) ==
  LET a == jobs[t].act IN
  /\ At(t, "assign", "map")
  /\ UNCHANGED <<hub, listed>>
  /\ \/ \E read \in SUBSET Members(hub, a) :
          /\ IF read = Members(hub, a) THEN UNCHANGED trouble ELSE Trouble
          /\ Store([tab EXCEPT ![a].members = @ \cup read], has \cup {<<a, "members">>}, unread,
                   IF read = Members(hub, a) THEN {} ELSE {<<a, "members">>})
          /\ jobs' = [jobs EXCEPT ![t].at = "confirm", ![t].misread = read # Members(hub, a),
                ![t].members = IF tab'[a].members # {} THEN tab'[a].members
                               ELSE {f[2] : f \in tab[a].favs}]
     \/ Trouble /\ Abandon(t, hub)
  /\ UNCHANGED <<version, sort, confirm, edits>>

\* Every member is confirmed, the new one last.
ConfirmMembers(t) ==
  /\ At(t, "assign", "confirm") /\ Step(t, hub, [jobs[t] EXCEPT !.at = "fetch on"])
  /\ UNCHANGED lists

\* The power macro to extend; an activity without one starts from nothing.
FetchMacro(t, key) ==
  /\ At(t, "assign", IF key = "on" THEN "fetch on" ELSE "fetch off")
  /\ LET a == jobs[t].act
         source == IF key = "on" THEN hub[a].on ELSE hub[a].off
     IN Step(t, hub, [jobs[t] EXCEPT !.at = IF key = "on" THEN "save on" ELSE "save off",
                                     !.source = source])
  /\ UNCHANGED lists

\* The rows of devices that are not members are left out, those of the new
\* device are added.  The hub forgets the button of a device that goes.
SavedRowsAlone(job) == {job.dev}
SavedRows(job) == (job.source \cap job.members) \cup {job.dev}

WithMacro(key, rows, a) ==
  LET act  == IF key = "on" THEN [hub[a] EXCEPT !.on = rows] ELSE [hub[a] EXCEPT !.off = rows]
      gone == Members(hub, a) \ (act.on \cup act.off)
  IN [hub EXCEPT ![a] = [act EXCEPT !.button = IF @ \in gone THEN NoDev ELSE @]]

SaveMacro(t, key) ==
  /\ At(t, "assign", IF key = "on" THEN "save on" ELSE "save off")
  /\ Step(t, WithMacro(key, SavedRows(jobs[t]), jobs[t].act),
          [jobs[t] EXCEPT !.at = IF key = "on" THEN "fetch off" ELSE "end"])
  /\ UNCHANGED lists

\* Only the macros are dropped: the members stay as they were read, and so does
\* a button of a member that was not among them.
AddDeviceEnds(t) ==
  LET a == jobs[t].act IN
  /\ At(t, "assign", "end")
  /\ Store(Cleared(tab, {a}, Macros), has \ {<<a, "macros">>}, unread,
           {w \in Wrong({a}, hub) : w[2] \in {"members", "buttons"}})
  /\ Moved(t, Idle, hub) /\ UNCHANGED <<hub, trouble, lists>>

-----------------------------------------------------------------------------
(* command_to_favorite, reorder_favorites, delete_favorite.                  *)

\* Only an X1 is asked for the order before a favorite is added.
AddFavorite(t, a, d) ==
  /\ d \in Range(sort)
  /\ Begin(t, [Idle EXCEPT !.op = "add", !.at = IF version = "X1" THEN "order" ELSE "map",
                           !.act = a, !.dev = d])
  /\ UNCHANGED <<cache, torn>>

ReorderFavorites(t, a, ids) ==
  /\ ids # << >>
  /\ Begin(t, [Idle EXCEPT !.op = "reorder", !.at = "order", !.act = a, !.ids = ids])
  /\ UNCHANGED <<cache, torn>>

DeleteFavorite(t, a, id) ==
  /\ Begin(t, [Idle EXCEPT !.op = "remove", !.at = "order", !.act = a, !.fresh = id])
  /\ UNCHANGED <<cache, torn>>

\* Ids that the order or the cached favorites know.
Known(a) == Range(hub[a].order) \cup Ids(tab[a].favs)

\* request_favorites_order, and what each makes of the answer.  Without one an
\* add goes on as if there were no favorites.
WithOrder(job, order) ==
  CASE job.op = "add"     -> [job EXCEPT !.at = "map", !.ids = order]
    [] job.op = "reorder" -> [job EXCEPT !.at = "stage",
                                         !.ids = Those(@, Known(job.act))]
    [] job.op = "remove"  -> [job EXCEPT !.at = "delete",
                                         !.ids = But(order, job.fresh)]

ReadOrder(t) ==
  LET job == jobs[t]
      a == job.act
      next == WithOrder(job, hub[a].order)
      refused == \/ job.op = "reorder" /\ next.ids = << >>
                 \/ job.op = "remove" /\ job.fresh \notin Known(a)
  IN
  /\ job.at = "order"
  /\ UNCHANGED <<hub, listed>>
  /\ \/ /\ jobs' = [jobs EXCEPT ![t] = IF refused THEN Idle
                                       ELSE [next EXCEPT !.misread = FALSE]]
        /\ Store([tab EXCEPT ![a].order = hub[a].order], has, unread \ {<<a, "order">>}, {})
        /\ UNCHANGED trouble
     \/ /\ Trouble
        /\ jobs' = [jobs EXCEPT ![t] = IF job.op = "add"
                                         THEN [job EXCEPT !.at = "map", !.misread = TRUE]
                                         ELSE Idle]
        /\ UNCHANGED <<tabs, torn>>
  /\ UNCHANGED <<version, sort, confirm, edits>>

FreeId(favs) ==
  CHOOSE i \in 1..(Cardinality(favs) + 1) : i \notin Ids(favs) /\ 1..(i - 1) \subseteq Ids(favs)
WithFavorite(favs, d) == favs \cup {<<FreeId(favs), d>>}

\* The favorite is written.  An attempt without an ack is made again, whether
\* the hub has carried it out or not; a refusal counts as an ack without an id.
MapFavorite(t) ==
  LET job == jobs[t]
      a == job.act
      once == [hub EXCEPT ![a].favs = WithFavorite(@, job.dev)]
      twice == [once EXCEPT ![a].favs = WithFavorite(@, job.dev)]
      acked(h, before) ==
        hub' = h /\ Moved(t, [job EXCEPT !.at = "stage", !.fresh = FreeId(before[a].favs)], h)
  IN
  /\ At(t, "add", "map")
  /\ \/ acked(once, hub) /\ UNCHANGED <<torn, trouble>>
     \/ Trouble /\ acked(twice, once) /\ UNCHANGED torn
     \/ Trouble /\ UNCHANGED <<hub, torn>> /\ jobs' = [jobs EXCEPT ![t].at = "stage"]
     \/ Trouble /\ \E h \in {hub, once, twice} : Abandon(t, h)
  /\ UNCHANGED <<cache, lists>>

DropFavorite(t) ==
  LET a == jobs[t].act IN
  /\ At(t, "remove", "delete")
  /\ Step(t, [hub EXCEPT ![a].favs = {f \in @ : f[1] # jobs[t].fresh},
                         ![a].order = But(@, jobs[t].fresh)],
          [jobs[t] EXCEPT !.at = "stage"])
  /\ UNCHANGED lists

\* The order that is sent.  On an X1S an add lists the ids from 1 to its own,
\* or to 4 when it has none.
UpTo(n) == [i \in 1..n |-> i]
StagedAlone(job) == IF job.op = "add" THEN <<job.fresh>> ELSE job.ids
Staged(job) ==
  IF job.op # "add" THEN job.ids
  ELSE IF version = "X1S" THEN UpTo(IF job.fresh = 0 THEN 4 ELSE job.fresh)
  ELSE IF job.fresh # 0 THEN Append(job.ids, job.fresh)
  ELSE IF job.ids = << >> THEN <<1>> ELSE job.ids

StageOrder(t) ==
  LET a == jobs[t].act IN
  /\ jobs[t].op \in {"add", "reorder", "remove"} /\ jobs[t].at = "stage"
  /\ Step(t, [hub EXCEPT ![a].order = Those(Staged(jobs[t]), Ids(hub[a].favs))],
          [jobs[t] EXCEPT !.at = "commit"])
  /\ UNCHANGED lists

\* The commit.  An add leaves the cached order as it is.
Written(job) == IF job.op \in {"reorder", "remove"} THEN Favorites \cup {"order"} ELSE Favorites
CommitFavorites(t) ==
  /\ jobs[t].op \in {"add", "reorder", "remove"} /\ jobs[t].at = "commit"
  /\ \/ /\ LET a == jobs[t].act
               xs == Written(jobs[t])
           IN Store(Cleared(tab, {a}, xs), has \ {a} \X xs, Forgotten({a}, xs),
                    {w \in Wrong({a}, hub) : w[2] \in {"order"} \ xs})
        /\ Moved(t, Idle, hub) /\ UNCHANGED <<hub, trouble>>
     \/ Trouble /\ Abandon(t, hub)
  /\ UNCHANGED lists

-----------------------------------------------------------------------------
(* command_to_button.                                                        *)

BindButton(t, a, d) ==
  /\ d \in Range(sort)
  /\ Begin(t, [Idle EXCEPT !.op = "bind", !.at = "write", !.act = a, !.dev = d])
  /\ UNCHANGED <<cache, torn>>

WriteButton(t) ==
  /\ At(t, "bind", "write")
  /\ Step(t, [hub EXCEPT ![jobs[t].act].button = jobs[t].dev], [jobs[t] EXCEPT !.at = "commit"])
  /\ UNCHANGED lists

\* The buttons go; the members are to be read again, on top of what is there.
BoundTables == Buttons
CommitButton(t) ==
  /\ At(t, "bind", "commit")
  /\ \/ /\ Clear({jobs[t].act}, BoundTables, {"members"})
        /\ Moved(t, Idle, hub) /\ UNCHANGED <<hub, trouble>>
     \/ Trouble /\ Abandon(t, hub)
  /\ UNCHANGED lists

-----------------------------------------------------------------------------
(* delete_device.                                                            *)

\* activities_referencing_device, of the cache before the delete.
Refers(tb, d) ==
  {a \in Acts : \/ d \in tb[a].members \/ tb[a].buttons = d
                \/ d \in tb[a].macros[1] \cup tb[a].macros[2]
                \/ \E f \in tb[a].favs : f[2] = d}
Referencing(d) == Refers(tab, d)

DeleteDevice(t, d) ==
  /\ d \in Range(sort)
  /\ Begin(t, [Idle EXCEPT !.op = "delete", !.at = "delete", !.dev = d, !.acts = Referencing(d)])
  /\ UNCHANGED <<cache, torn>>

\* The hub takes the device out of every activity and wants some of those
\* confirmed.
Without(d) ==
  [a \in Acts |->
     LET kept == {f \in hub[a].favs : f[2] # d}
     IN [on |-> hub[a].on \ {d}, off |-> hub[a].off \ {d},
         button |-> IF hub[a].button = d THEN NoDev ELSE hub[a].button, favs |-> kept,
         order |-> Those(hub[a].order, Ids(kept))]]

DropDevice(t) ==
  LET job == jobs[t]
      h == Without(job.dev)
      changed == {a \in Acts : h[a] # hub[a]}
      without == But(sort, job.dev)
  IN
  /\ At(t, "delete", "delete")
  /\ \/ /\ hub' = h /\ Moved(t, [job EXCEPT !.at = "refresh"], h) /\ sort' = without
        /\ \E flagged \in SUBSET changed : confirm' = confirm \cup flagged
        \* what was read since the cache was searched is not among its finds, and
        \* no order is
        /\ torn' = torn \cup Wrong(Acts \ job.acts, h)
                        \cup {w \in Wrong(changed, h) : w[2] = "order"}
        /\ UNCHANGED <<tabs, trouble>>
     \/ /\ Trouble
        /\ \/ Abandon(t, hub) /\ UNCHANGED <<sort, confirm>>
           \/ Abandon(t, h) /\ sort' = without /\ UNCHANGED confirm
  /\ UNCHANGED <<version, listed, edits>>

\* The activities are read again, to see which want to be confirmed; without an
\* answer the rows say what they said before.
RefreshActivities(t) ==
  /\ At(t, "delete", "refresh")
  /\ \/ jobs' = [jobs EXCEPT ![t].at = "confirm", ![t].members = confirm] /\ UNCHANGED <<torn, trouble, hub>>
     \/ /\ Trouble /\ UNCHANGED <<torn, hub>>
        /\ jobs' = [jobs EXCEPT ![t].at = "confirm"]
     \/ Trouble /\ Abandon(t, hub)
  /\ UNCHANGED <<cache, lists>>

ConfirmActivity(t, a) ==
  /\ At(t, "delete", "confirm") /\ a \in jobs[t].members
  /\ \/ /\ confirm' = confirm \ {a}
        /\ Clear({a}, Buttons \cup Favorites \cup Macros, {})
        /\ Moved(t, [jobs[t] EXCEPT !.members = @ \ {a}, !.acts = @ \ {a}], hub)
        /\ UNCHANGED <<hub, trouble>>
     \/ Trouble /\ (\E c \in {confirm, confirm \ {a}} : confirm' = c) /\ Abandon(t, hub)
  /\ UNCHANGED <<version, sort, listed, edits>>

\* The other activities that referred to it are dropped from the cache as well,
\* but for their orders.
OnlyConfirmed(job) == {}
AlsoCleared(job) == job.acts
DeleteEnds(t) ==
  /\ At(t, "delete", "confirm") /\ jobs[t].members = {}
  /\ LET gone == AlsoCleared(jobs[t])
         xs == Buttons \cup Favorites \cup Macros
     IN Clear(gone, xs, {})
  /\ listed' = But(listed, jobs[t].dev)
  /\ Moved(t, Idle, hub)
  /\ UNCHANGED <<version, hub, sort, confirm, edits, trouble>>

-----------------------------------------------------------------------------
(* reorder_devices, as reorder_activities, and erase_configuration.          *)

\* Every device the cache lists has to be named.
SortDevices(t, ids) ==
  /\ listed # << >> /\ Range(ids) = Range(listed) /\ Len(ids) = Len(listed)
  /\ Begin(t, [Idle EXCEPT !.op = "sort", !.at = "write", !.ids = ids])
  /\ UNCHANGED <<cache, torn>>

WriteSort(t) ==
  LET sorted == Those(jobs[t].ids, Range(sort)) IN
  /\ At(t, "sort", "write")
  /\ \/ sort' = sorted /\ jobs' = [jobs EXCEPT ![t].at = "refresh"] /\ UNCHANGED trouble
     \/ /\ Trouble /\ (\E s \in {sort, sorted} : sort' = s)
        /\ jobs' = [jobs EXCEPT ![t] = Idle]
  /\ UNCHANGED <<version, hub, confirm, cache, torn, edits>>

\* A refresh that fails is only logged.
RefreshDevices(t) ==
  /\ At(t, "sort", "refresh")
  /\ \/ listed' = sort /\ UNCHANGED trouble
     \/ Trouble /\ UNCHANGED listed
  /\ jobs' = [jobs EXCEPT ![t] = Idle]
  /\ UNCHANGED <<version, hub, sort, confirm, tabs, torn, edits>>

Erase(t) == Begin(t, [Idle EXCEPT !.op = "erase", !.at = "write"]) /\ UNCHANGED <<cache, torn>>

\* Any answer counts; a hub that drops the session first may have erased.
Erased == [a \in Acts |-> [on |-> {}, off |-> {}, button |-> NoDev, favs |-> {}, order |-> << >>]]
EraseAll(t) ==
  /\ At(t, "erase", "write")
  /\ \/ /\ hub' = Erased /\ sort' = << >> /\ confirm' = {}
        /\ Store([a \in Acts |-> Empty], {}, Acts \X Unflagged, {}) /\ listed' = << >>
        /\ Moved(t, Idle, Erased) /\ UNCHANGED trouble
     \/ /\ Trouble /\ UNCHANGED <<listed, tabs>>
        /\ \/ Abandon(t, hub) /\ UNCHANGED <<sort, confirm>>
           \/ Abandon(t, Erased) /\ sort' = << >> /\ confirm' = {}
  /\ UNCHANGED <<version, edits>>

-----------------------------------------------------------------------------
(* A table that the cache does not offer is read: the keymap gives the       *)
(* buttons and adds to the favorites, members are added to those that are    *)
(* there (EntityTables.tla is about how).  Favorites are read with the       *)
(* buttons only: as long as those are cached, favorites dropped stay so.     *)
ReadKeymap(a) ==
  /\ <<a, "buttons">> \notin has
  /\ LET others == {f \in tab[a].favs : f[1] \notin Ids(hub[a].favs)}
     IN Store([tab EXCEPT ![a].buttons = hub[a].button, ![a].favs = hub[a].favs \cup others],
              has \cup {<<a, "buttons">>}, unread \ {<<a, "favs">>}, {})

ReadOther(a, x) ==
  /\ x \in {"members", "macros"} /\ <<a, x>> \notin has
  /\ Store([tab EXCEPT ![a][x] = IF x = "members" THEN @ \cup Members(hub, a) ELSE Truth(hub, a, x)],
           has \cup {<<a, x>>}, unread, {})

Read(a) ==
  /\ ReadKeymap(a) \/ \E x \in Tables : ReadOther(a, x)
  /\ UNCHANGED <<hub, jobs, trouble, lists>>

Orders == {s \in UNION {[1..n -> FavIds] : n \in 1..2} : IsInjective(s)}
Sorts  == {s \in [1..Cardinality(Devs) -> Devs] : IsInjective(s)}

Begins(t) ==
  \/ \E a \in Acts, d \in Devs : AddDevice(t, a, d) \/ AddFavorite(t, a, d) \/ BindButton(t, a, d)
  \/ \E a \in Acts, ids \in Orders : ReorderFavorites(t, a, ids)
  \/ \E a \in Acts, id \in FavIds : DeleteFavorite(t, a, id)
  \/ \E d \in Devs : DeleteDevice(t, d)
  \/ \E ids \in Sorts : SortDevices(t, ids)
  \/ Erase(t)

Goes(t) ==
  \/ MapRead(t) \/ ConfirmMembers(t)
  \/ \E key \in {"on", "off"} : FetchMacro(t, key) \/ SaveMacro(t, key)
  \/ AddDeviceEnds(t)
  \/ ReadOrder(t) \/ MapFavorite(t) \/ DropFavorite(t) \/ StageOrder(t) \/ CommitFavorites(t)
  \/ WriteButton(t) \/ CommitButton(t)
  \/ DropDevice(t) \/ RefreshActivities(t)
  \/ \E a \in Acts : ConfirmActivity(t, a)
  \/ DeleteEnds(t)
  \/ WriteSort(t) \/ RefreshDevices(t) \/ EraseAll(t)

Next == \/ \E t \in Threads : Begins(t) \/ Goes(t)
        \/ \E a \in Acts : Read(a)

Spec == Init /\ [][Next]_vars

-----------------------------------------------------------------------------
(* Properties.                                                               *)

\* When nobody is writing, a table that the cache shows is the hub's: members,
\* macros and buttons when their flags offer them, favorites and their order
\* whatever they hold.  Named exceptions:
\* torn: what an edit that stopped half way or a read that broke off left behind
\* and, of edits that succeed, the members of an activity that got a device (and
\* the button of one it lost), the order when a favorite was added or a device
\* deleted, and of a device's delete what was read after the cache was searched.
\* unread: favorites and orders dropped by an edit, also one that succeeded, and
\* not read again, or never read, are shown as empty.
CacheFollowsWrites ==
  \A a \in Acts, x \in Tables :
    <<a, x>> \notin torn /\ (\A t \in Threads : a \notin Touched(jobs[t])) =>
      /\ x \in Flagged /\ <<a, x>> \in has => tab[a][x] = Truth(hub, a, x)
      /\ x \in Unflagged =>
           tab[a][x] = IF <<a, x>> \in unread THEN Empty[x] ELSE Truth(hub, a, x)

\* Adding a device takes no other device out of the activity: a member goes only
\* with its device, or when the adding thread had its list of members from a
\* read that the hub did not answer in full, or was overtaken by another edit.
MembersKept ==
  [][\A a \in Acts : \A d \in Members(hub, a) \ Members(hub', a) :
       d \notin Range(sort') \/ \E t \in Threads : jobs[t].act = a /\ jobs[t].misread]_vars

\* A favorite on display stays on display while others are added and deleted,
\* unless the order was not read or is overtaken.  On an X1S not so for those
\* above the id that the new one is given: the order that is sent ends there.
OnDisplay(h, a) == {f \in h[a].favs : f[1] \in Range(h[a].order)}
ShownIsKept ==
  [][\A a \in Acts : \A f \in (OnDisplay(hub, a) \ OnDisplay(hub', a)) \cap hub'[a].favs :
       \E t \in Threads :
         /\ jobs[t].act = a /\ jobs[t].at = "stage"
         /\ \/ jobs[t].misread
            \/ jobs[t].op = "reorder" /\ f[1] \notin Range(jobs[t].ids)
            \/ jobs[t].op = "add" /\ version = "X1S" /\ f[1] > jobs[t].fresh]_vars
=============================================================================
