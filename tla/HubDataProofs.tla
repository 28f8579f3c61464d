--------------------------- MODULE HubDataProofs ---------------------------
(***************************************************************************)
(* Proofs about HubWrites and EntityTables: for any number of activities,  *)
(* devices, threads, edits and failures, and for any number of entities,   *)
(* reads, edits and breaks.                                                *)
(***************************************************************************)
EXTENDS MCHubData, SequenceTheorems, FiniteSetTheorems, WellFoundedInduction, TLAPS

-----------------------------------------------------------------------------
(* HubWrites.  Who is to set right, or to leave behind as known, a cached   *)
(* table that the hub has otherwise by now.                                 *)

\* The edit of t will, however it ends, drop this table or mark it.
Owes(t, a, x) ==
  \/ jobs[t].op = "assign" /\ jobs[t].act = a /\ x \in Flagged
  \/ /\ jobs[t].op \in {"add", "reorder", "remove"} /\ jobs[t].at # "order"
     /\ jobs[t].act = a /\ x \in {"favs", "order"}
  \/ jobs[t].op = "bind" /\ jobs[t].act = a /\ x = "buttons"
  \/ jobs[t].op = "delete" /\ jobs[t].at # "delete" /\ x # "order" /\ a \in jobs[t].acts

SetAside(a, x) == <<a, x>> \in torn \/ \E t \in Threads : Owes(t, a, x)

Right(a, x) == tab[a][x] = Truth(hub, a, x)

\* The cache shows the table, and not because a favorite or an order was not read.
Counted(h, n, a, x) ==
  (x \in Flagged /\ <<a, x>> \in h) \/ (x \in Unflagged /\ <<a, x>> \notin n)
Counts(a, x) == Counted(has, unread, a, x)

\* A table shown that is wrong is somebody's to settle, and so are members that
\* the activity no longer has, offered or not: a read adds to them.  Favorites
\* and orders that are not read are gone.
StaleIsSetAside ==
  \A a \in Acts :
    /\ \A x \in Tables : Counts(a, x) /\ ~Right(a, x) => SetAside(a, x)
    /\ ~(tab[a]["members"] \subseteq Members(hub, a)) => SetAside(a, "members")
    /\ \A x \in Unflagged : <<a, x>> \in unread => tab[a][x] = Empty[x]

Parts  == {"on", "off", "button", "favs", "order"}
Fields == {"op", "at", "act", "dev", "ids", "fresh", "members", "source", "acts", "misread"}
Edits  == {"none", "assign", "add", "reorder", "remove", "bind", "delete", "sort", "erase"}

OfFavorites == {"add", "reorder", "remove"}

\* An edit as the code makes them.
Sound(job) ==
  DOMAIN job = Fields /\ job.op \in Edits /\ (job.at = "order" => job.op \in OfFavorites)

Shape ==
  /\ DOMAIN hub = Acts /\ \A a \in Acts : DOMAIN hub[a] = Parts
  /\ DOMAIN tab = Acts /\ \A a \in Acts : DOMAIN tab[a] = Tables
  /\ DOMAIN jobs = Threads /\ \A t \in Threads : Sound(jobs[t])

WritesInv == Shape /\ StaleIsSetAside

-----------------------------------------------------------------------------

\* A table of an activity is read off the hub's record of it.
LEMMA TruthIs ==
  ASSUME NEW h, NEW a
  PROVE  /\ Truth(h, a, "members") = Members(h, a)
         /\ Truth(h, a, "macros") = <<h[a].on, h[a].off>>
         /\ Truth(h, a, "buttons") = h[a].button
         /\ Truth(h, a, "favs") = h[a].favs
         /\ Truth(h, a, "order") = h[a].order
BY DEF Truth

LEMMA TruthSame ==
  ASSUME NEW h, NEW g, NEW a, h[a] = g[a], NEW x \in Tables
  PROVE  Truth(h, a, x) = Truth(g, a, x) /\ Members(h, a) = Members(g, a)
BY DEF Truth, Members

LEMMA EmptyIs ==
  /\ Empty["members"] = {} /\ Empty["favs"] = {} /\ DOMAIN Empty = Tables
  /\ Sound(Idle) /\ DOMAIN Idle = Fields /\ Idle.op = "none"
BY DEF Empty, Idle, Tables, Flagged, Unflagged, Fields, Sound, Edits

LEMMA ClearedIs ==
  ASSUME NEW tb, NEW as, NEW xs
  PROVE  /\ DOMAIN Cleared(tb, as, xs) = Acts
         /\ \A a \in Acts : DOMAIN Cleared(tb, as, xs)[a] = Tables
         /\ \A a \in Acts : \A x \in Tables :
              a \in as /\ x \in xs => Cleared(tb, as, xs)[a][x] = Empty[x]
         /\ \A a \in Acts : \A x \in Tables :
              a \notin as \/ x \notin xs => Cleared(tb, as, xs)[a][x] = tb[a][x]
BY DEF Cleared

\* What a thread does to its own edit leaves those of others what they are.
OthersGoOn(t) ==
  \A u \in Threads \ {t} : /\ jobs'[u].op = jobs[u].op /\ jobs'[u].at = jobs[u].at
                           /\ jobs'[u].act = jobs[u].act /\ jobs'[u].acts = jobs[u].acts

LEMMA MovedIs ==
  ASSUME Shape, NEW t \in Threads, NEW job, NEW h, Moved(t, job, h)
  PROVE  /\ jobs'[t] = job /\ OthersGoOn(t)
         /\ DOMAIN jobs' = Threads
         /\ \A u \in Threads \ {t} : DOMAIN jobs'[u] = Fields
<1> DEFINE hit(u) == jobs[u].misread \/ \E a \in Acts : jobs[u].act = a /\ h[a] # hub[a]
<1>1. jobs' = [u \in Threads |-> IF u = t THEN job ELSE [jobs[u] EXCEPT !.misread = hit(u)]]
  BY DEF Moved
<1> HIDE DEF hit
<1>2. \A u \in Threads \ {t} : jobs'[u] = [jobs[u] EXCEPT !.misread = hit(u)]
  BY <1>1
<1>3. \A u \in Threads : DOMAIN jobs[u] = Fields
  BY DEF Shape, Sound
<1> QED
  BY <1>1, <1>2, <1>3 DEF OthersGoOn, Fields

LEMMA OthersOwe ==
  ASSUME NEW t \in Threads, OthersGoOn(t), NEW u \in Threads \ {t}, NEW a, NEW x
  PROVE  Owes(u, a, x)' <=> Owes(u, a, x)
BY DEF OthersGoOn, Owes

\* A step that leaves the cache alone: what it changes on the hub is its own to
\* settle, or marked.
LEMMA HubChanges ==
  ASSUME WritesInv, NEW t \in Threads, OthersGoOn(t), UNCHANGED tabs, torn \subseteq torn',
         \A a \in Acts : \A x \in Tables :
           \/ Owes(t, a, x)'
           \/ tab[a][x] # Truth(hub', a, x) => <<a, x>> \in torn'
           \/ Truth(hub', a, x) = Truth(hub, a, x) /\ ~Owes(t, a, x)
  PROVE  StaleIsSetAside'
<1>0. UNCHANGED <<tab, has, unread>> /\ \A a, x : Counts(a, x)' <=> Counts(a, x)
  BY DEF tabs, Counts, Counted
<1>1. ASSUME NEW a \in Acts, NEW x \in Tables, ~SetAside(a, x)'
      PROVE  Right(a, x)' \/ (Truth(hub', a, x) = Truth(hub, a, x) /\ ~SetAside(a, x))
  <2>1. <<a, x>> \notin torn' /\ \A u \in Threads : ~Owes(u, a, x)'
    BY <1>1 DEF SetAside
  <2>2. \A u \in Threads \ {t} : ~Owes(u, a, x)
    BY <2>1, OthersOwe
  <2>3. tab'[a][x] = Truth(hub', a, x) \/ (Truth(hub', a, x) = Truth(hub, a, x) /\ ~Owes(t, a, x))
    BY <1>0, <2>1
  <2> QED
    BY <1>0, <2>1, <2>2, <2>3 DEF SetAside, Right
<1>2. ASSUME NEW a \in Acts, NEW x \in Tables, Counts(a, x)', ~Right(a, x)'
      PROVE  SetAside(a, x)'
  <2> SUFFICES ASSUME ~SetAside(a, x)' PROVE FALSE
    OBVIOUS
  <2>1. Truth(hub', a, x) = Truth(hub, a, x) /\ ~SetAside(a, x)
    BY <1>1, <1>2
  <2> QED
    BY <1>0, <1>2, <2>1 DEF WritesInv, StaleIsSetAside, Right
<1>3. ASSUME NEW a \in Acts, ~(tab'[a]["members"] \subseteq Members(hub', a))
      PROVE  SetAside(a, "members")'
  <2> SUFFICES ASSUME ~SetAside(a, "members")' PROVE FALSE
    OBVIOUS
  <2>1. "members" \in Tables
    BY DEF Tables, Flagged, Unflagged
  <2>2. CASE Right(a, "members")'
    BY <1>3, <2>2, TruthIs DEF Right
  <2>3. CASE Truth(hub', a, "members") = Truth(hub, a, "members") /\ ~SetAside(a, "members")
    <3>1. Members(hub', a) = Members(hub, a) /\ ~(tab[a]["members"] \subseteq Members(hub, a))
      BY <1>0, <1>3, <2>3, TruthIs
    <3> QED
      BY <2>3, <3>1 DEF WritesInv, StaleIsSetAside
  <2> QED
    BY <1>1, <2>1, <2>2, <2>3
<1>4. \A a \in Acts : \A x \in Unflagged : <<a, x>> \in unread' => tab'[a][x] = Empty[x]
  BY <1>0 DEF WritesInv, StaleIsSetAside
<1> QED
  BY <1>2, <1>3, <1>4 DEF StaleIsSetAside

\* A step that leaves the hub alone and changes the cache, table by table.
LEMMA CacheChanges ==
  ASSUME WritesInv, NEW t \in Threads, OthersGoOn(t), UNCHANGED hub,
         NEW tb, NEW h, NEW n, NEW left, Store(tb, h, n, left),
         \A a \in Acts : \A x \in Tables :
           \/ Owes(t, a, x)' \/ <<a, x>> \in left
           \/ tb[a][x] = Empty[x] /\ ~Counted(h, n, a, x)
           \/ tb[a][x] = Truth(hub, a, x)
           \/ tb[a][x] = tab[a][x] /\ (Counted(h, n, a, x) => Counts(a, x)) /\ ~Owes(t, a, x),
         \A a \in Acts : \A x \in Unflagged : <<a, x>> \in n =>
           tb[a][x] = Empty[x] \/ (tb[a][x] = tab[a][x] /\ <<a, x>> \in unread)
  PROVE  StaleIsSetAside'
<1>0. /\ tab' = tb /\ \A a, x : Counts(a, x)' <=> Counted(h, n, a, x)
      /\ unread' = n
      /\ \A a \in Acts : \A x \in Tables :
           (<<a, x>> \in torn \cup left /\ tb[a][x] # Truth(hub, a, x)) => <<a, x>> \in torn'
  BY DEF Store, Counts, Counted
<1>1. ASSUME NEW a \in Acts, NEW x \in Tables, ~SetAside(a, x)'
      PROVE  \/ tb[a][x] = Empty[x] /\ ~Counted(h, n, a, x)
             \/ Right(a, x)'
             \/ tb[a][x] = tab[a][x] /\ (Counted(h, n, a, x) => Counts(a, x)) /\ ~SetAside(a, x)
  <2>1. <<a, x>> \notin torn' /\ \A u \in Threads : ~Owes(u, a, x)'
    BY <1>1 DEF SetAside
  <2>2. \A u \in Threads \ {t} : ~Owes(u, a, x)
    BY <2>1, OthersOwe
  <2>3. CASE tb[a][x] = Truth(hub, a, x)
    BY <1>0, <2>3 DEF Right
  <2>4. CASE tb[a][x] # Truth(hub, a, x)
    <3>1. <<a, x>> \notin torn \cup left
      BY <1>0, <2>1, <2>4
    <3> QED
      BY <2>1, <2>2, <2>4, <3>1 DEF SetAside
  <2> QED
    BY <2>3, <2>4
<1>2. ASSUME NEW a \in Acts, NEW x \in Tables, Counts(a, x)', ~Right(a, x)'
      PROVE  SetAside(a, x)'
  <2> SUFFICES ASSUME ~SetAside(a, x)' PROVE FALSE
    OBVIOUS
  <2>1. tb[a][x] = tab[a][x] /\ Counts(a, x) /\ ~SetAside(a, x)
    BY <1>0, <1>1, <1>2
  <2> QED
    BY <1>0, <1>2, <2>1 DEF WritesInv, StaleIsSetAside, Right
<1>3. ASSUME NEW a \in Acts, ~(tab'[a]["members"] \subseteq Members(hub', a))
      PROVE  SetAside(a, "members")'
  <2> SUFFICES ASSUME ~SetAside(a, "members")' PROVE FALSE
    OBVIOUS
  <2>1. "members" \in Tables
    BY DEF Tables, Flagged, Unflagged
  <2>2. ~Right(a, "members")' /\ tb[a]["members"] # Empty["members"]
    BY <1>0, <1>3, TruthIs, EmptyIs DEF Right
  <2>3. tb[a]["members"] = tab[a]["members"] /\ ~SetAside(a, "members")
    BY <1>1, <2>1, <2>2
  <2> QED
    BY <1>0, <1>3, <2>3 DEF WritesInv, StaleIsSetAside
<1>4. \A a \in Acts : \A x \in Unflagged : <<a, x>> \in unread' => tab'[a][x] = Empty[x]
  BY <1>0 DEF WritesInv, StaleIsSetAside
<1> QED
  BY <1>2, <1>3, <1>4 DEF StaleIsSetAside

-----------------------------------------------------------------------------
(* The steps of an edit.                                                    *)

\* What is cleared no longer counts, and nothing counts that did not.
LEMMA CountedCleared ==
  ASSUME NEW as, NEW xs, NEW ys, xs \subseteq ys, NEW h, h = has \ (as \X ys)
  PROVE  \A a : \A x \in Tables :
           /\ a \in as /\ x \in xs => ~Counted(h, Forgotten(as, xs), a, x)
           /\ Counted(h, Forgotten(as, xs), a, x) => Counts(a, x)
BY DEF Counted, Counts, Forgotten, Tables, Flagged, Unflagged

LEMMA ClearedForgotten ==
  ASSUME NEW as, NEW xs, NEW a \in Acts, NEW x \in Unflagged, <<a, x>> \in Forgotten(as, xs)
  PROVE  LET tb == Cleared(tab, as, xs)
         IN  tb[a][x] = Empty[x] \/ (tb[a][x] = tab[a][x] /\ <<a, x>> \in unread)
<1>1. x \in Tables
  BY DEF Tables
<1>2. <<a, x>> \in unread \/ (a \in as /\ x \in xs)
  BY DEF Forgotten
<1>3. /\ a \in as /\ x \in xs => Cleared(tab, as, xs)[a][x] = Empty[x]
      /\ a \notin as \/ x \notin xs => Cleared(tab, as, xs)[a][x] = tab[a][x]
  BY <1>1 DEF Cleared
<1> QED
  BY <1>2, <1>3

LEMMA BeginKeeps ==
  ASSUME WritesInv, NEW t \in Threads, NEW job, Sound(job),
         Begin(t, job)
  PROVE  /\ OthersGoOn(t) /\ jobs[t] = Idle /\ jobs'[t] = job /\ UNCHANGED hub
         /\ \A a, x : ~Owes(t, a, x)
         /\ (DOMAIN tab' = Acts /\ \A a \in Acts : DOMAIN tab'[a] = Tables) => Shape'
<1>1. /\ jobs[t] = Idle /\ jobs' = [jobs EXCEPT ![t] = job] /\ UNCHANGED hub
      /\ DOMAIN jobs = Threads
  BY DEF Begin, WritesInv, Shape
<1>2. jobs'[t] = job /\ \A u \in Threads \ {t} : jobs'[u] = jobs[u]
  BY <1>1
<1>3. \A a, x : ~Owes(t, a, x)
  BY <1>1, EmptyIs DEF Owes
<1> QED
  BY <1>1, <1>2, <1>3 DEF OthersGoOn, WritesInv, Shape

\* The steps that touch the cache and the hub one way or another keep the shape.
LEMMA MovedShape ==
  ASSUME WritesInv, NEW t \in Threads, NEW job, NEW h, Moved(t, job, h),
         Sound(job),
         DOMAIN hub' = Acts, \A a \in Acts : DOMAIN hub'[a] = Parts,
         DOMAIN tab' = Acts, \A a \in Acts : DOMAIN tab'[a] = Tables
  PROVE  Shape'
<1>1. jobs'[t] = job /\ OthersGoOn(t) /\ DOMAIN jobs' = Threads
      /\ \A u \in Threads \ {t} : DOMAIN jobs'[u] = Fields
  BY MovedIs DEF WritesInv
<1> QED
  BY <1>1 DEF WritesInv, Shape, Sound, OthersGoOn

LEMMA AbandonKeeps ==
  ASSUME WritesInv, NEW t \in Threads, NEW h, Abandon(t, h),
         DOMAIN h = Acts, \A a \in Acts : DOMAIN h[a] = Parts,
         \A a \in Acts : a \in Touched(jobs[t]) \/ h[a] = hub[a]
  PROVE  WritesInv'
<1>1. /\ hub' = h /\ Moved(t, Idle, h) /\ UNCHANGED tabs /\ UNCHANGED tab
      /\ torn' = torn \cup Wrong(Touched(jobs[t]), h)
  BY DEF Abandon, tabs
<1>2. Shape'
  BY <1>1, MovedShape, EmptyIs DEF WritesInv, Shape
<1>3. jobs'[t] = Idle /\ OthersGoOn(t)
  BY <1>1, MovedIs DEF WritesInv
<1>4. ASSUME NEW a \in Acts, NEW x \in Tables, Owes(t, a, x) PROVE a \in Touched(jobs[t])
  BY <1>4 DEF Owes, Touched
<1>5. ASSUME NEW a \in Acts, NEW x \in Tables
      PROVE  \/ tab[a][x] # Truth(hub', a, x) => <<a, x>> \in torn'
             \/ Truth(hub', a, x) = Truth(hub, a, x) /\ ~Owes(t, a, x)
  <2>1. CASE a \in Touched(jobs[t])
    <3>1. tab[a][x] # Truth(hub', a, x) => <<a, x>> \in Wrong(Touched(jobs[t]), h)
      BY <1>1, <2>1 DEF Wrong
    <3> QED
      BY <1>1, <3>1
  <2>2. CASE a \notin Touched(jobs[t])
    BY <1>1, <1>4, <2>2, TruthSame
  <2> QED
    BY <2>1, <2>2
<1> QED
  BY <1>1, <1>2, <1>3, <1>5, HubChanges DEF WritesInv

\* What can come of an exchange: the edit goes on, or ends.
Outcome(t, h, job) ==
  \/ hub' = h /\ Moved(t, job, h) /\ UNCHANGED <<tabs, torn>>
  \/ Abandon(t, h)
  \/ Abandon(t, hub)

LEMMA StepIs ==
  ASSUME NEW t, NEW h, NEW job, Step(t, h, job)
  PROVE  Outcome(t, h, job)
BY DEF Step, Outcome

LEMMA StepKeeps ==
  ASSUME WritesInv, NEW t \in Threads, NEW h, NEW job, Outcome(t, h, job),
         DOMAIN h = Acts, \A a \in Acts : DOMAIN h[a] = Parts,
         Sound(job),
         \A a \in Acts : a \in Touched(jobs[t]) \/ h[a] = hub[a],
         hub' = h /\ jobs'[t] = job =>
           \A a \in Acts : \A x \in Tables :
             \/ Owes(t, a, x)'
             \/ Truth(h, a, x) = Truth(hub, a, x) /\ ~Owes(t, a, x)
  PROVE  WritesInv'
<1>1. CASE hub' = h /\ Moved(t, job, h) /\ UNCHANGED <<tabs, torn>>
  <2>1. jobs'[t] = job /\ OthersGoOn(t)
    BY <1>1, MovedIs DEF WritesInv
  <2>2. Shape'
    BY <1>1, MovedShape DEF WritesInv, Shape, tabs
  <2> QED
    BY <1>1, <2>1, <2>2, HubChanges DEF WritesInv
<1>2. CASE Abandon(t, h)
  BY <1>2, AbandonKeeps
<1>3. CASE Abandon(t, hub)
  BY <1>3, AbandonKeeps DEF WritesInv, Shape
<1> QED
  BY <1>1, <1>2, <1>3 DEF Outcome

LEMMA AssignKeeps ==
  ASSUME WritesInv, NEW t \in Threads,
         \/ \E a \in Acts, d \in Devs : AddDevice(t, a, d)
         \/ MapRead(t) \/ ConfirmMembers(t)
         \/ \E key \in {"on", "off"} : FetchMacro(t, key) \/ SaveMacro(t, key)
         \/ AddDeviceEnds(t)
  PROVE  WritesInv'
<1>1. ASSUME NEW a \in Acts, NEW d \in Devs, AddDevice(t, a, d) PROVE WritesInv'
  <2> DEFINE job == [Idle EXCEPT !.op = "assign", !.at = "map", !.act = a, !.dev = d]
             tb == Cleared(tab, {a}, Favorites)
             h == has \ ({a} \X (Favorites \cup {}))
             n == Forgotten({a}, Favorites)
  <2>1. Begin(t, job) /\ Store(tb, h, n, {})
    BY <1>1 DEF AddDevice, Clear
  <2>2. Sound(job) /\ job.op = "assign" /\ job.act = a
    BY EmptyIs DEF Idle, Fields, Edits, Sound
  <2> HIDE DEF job
  <2>3. tab' = tb
    BY <2>1 DEF Store
  <2>4. /\ OthersGoOn(t) /\ jobs'[t] = job /\ UNCHANGED hub /\ Shape'
        /\ \A b, x : ~Owes(t, b, x)
    BY <2>1, <2>2, <2>3, BeginKeeps, ClearedIs
  <2>7. \A b : \A x \in Tables :
         /\ b = a /\ x \in Favorites => ~Counted(h, n, b, x)
         /\ Counted(h, n, b, x) => Counts(b, x)
    BY CountedCleared
  <2>5. ASSUME NEW b \in Acts, NEW x \in Tables
        PROVE  \/ Owes(t, b, x)' \/ <<b, x>> \in {}
               \/ tb[b][x] = Empty[x] /\ ~Counted(h, n, b, x)
               \/ tb[b][x] = Truth(hub, b, x)
               \/ tb[b][x] = tab[b][x] /\ (Counted(h, n, b, x) => Counts(b, x)) /\ ~Owes(t, b, x)
    <3>1. CASE b = a /\ x \in Flagged
      BY <2>2, <2>4, <3>1 DEF Owes
    <3>2. CASE b = a /\ x \in Favorites
      <4>1. tb[b][x] = Empty[x]
        BY <3>2 DEF Cleared
      <4> QED
        BY <2>7, <3>2, <4>1
    <3>3. CASE b # a \/ x = "order"
      <4>1. tb[b][x] = tab[b][x]
        BY <3>3 DEF Cleared, Favorites
      <4> HIDE DEF tb, h, n
      <4> QED
        BY <2>4, <2>7, <4>1
    <3> QED
      BY <3>1, <3>2, <3>3 DEF Favorites, Tables, Flagged, Unflagged
  <2>6. ASSUME NEW b \in Acts, NEW x \in Unflagged, <<b, x>> \in n
        PROVE  tb[b][x] = Empty[x] \/ (tb[b][x] = tab[b][x] /\ <<b, x>> \in unread)
    BY <2>6, ClearedForgotten
  <2> HIDE DEF tb, h, n
  <2> QED
    BY <2>1, <2>4, <2>5, <2>6, CacheChanges DEF WritesInv
<1>2. CASE MapRead(t)
  <2> DEFINE a == jobs[t].act
  <2>1. At(t, "assign", "map") /\ UNCHANGED hub
    BY <1>2 DEF MapRead
  <2>2. CASE Abandon(t, hub)
    BY <2>2, AbandonKeeps DEF WritesInv, Shape
  <2>3. ASSUME NEW read \in SUBSET Members(hub, a), NEW ms,
               Store([tab EXCEPT ![a].members = @ \cup read], has \cup {<<a, "members">>}, unread,
                     IF read = Members(hub, a) THEN {} ELSE {<<a, "members">>}),
               jobs' = [jobs EXCEPT ![t].at = "confirm", ![t].misread = read # Members(hub, a),
                                    ![t].members = ms]
        PROVE  WritesInv'
    <3> DEFINE tb == [tab EXCEPT ![a].members = @ \cup read]
               h == has \cup {<<a, "members">>}
               n == unread
               left == IF read = Members(hub, a) THEN {} ELSE {<<a, "members">>}
    <3>1. /\ jobs'[t].op = "assign" /\ jobs'[t].act = a /\ OthersGoOn(t)
          /\ DOMAIN jobs' = Threads /\ \A u \in Threads : Sound(jobs'[u])
      BY <2>1, <2>3 DEF At, WritesInv, Shape, Sound, OthersGoOn, Fields
    <3>2. /\ DOMAIN tb = Acts /\ \A b \in Acts : DOMAIN tb[b] = Tables
          /\ \A b \in Acts \ {a} : tb[b] = tab[b]
          /\ a \in Acts => \A x \in Unflagged : tb[a][x] = tab[a][x]
      BY DEF WritesInv, Shape, Tables, Flagged, Unflagged
    <3>3. tab' = tb
      BY <2>3 DEF Store
    <3>4. Shape'
      BY <2>1, <3>1, <3>2, <3>3 DEF WritesInv, Shape
    <3>5. ASSUME NEW b \in Acts, NEW x \in Tables
          PROVE  \/ Owes(t, b, x)'
                 \/ tb[b][x] = tab[b][x] /\ (Counted(h, n, b, x) => Counts(b, x)) /\ ~Owes(t, b, x)
      <4>1. CASE b = a /\ x \in Flagged
        BY <3>1, <4>1 DEF Owes
      <4>2. CASE b # a \/ x \in Unflagged
        <5>1. tb[b][x] = tab[b][x]
          BY <3>2, <4>2
        <5>2. ~Owes(t, b, x)
          BY <2>1, <4>2 DEF Owes, At, Flagged, Unflagged
        <5>3. Counted(h, n, b, x) => Counts(b, x)
          BY <4>2 DEF Counted, Counts, Unflagged
        <5> QED
          BY <5>1, <5>2, <5>3
      <4> QED
        BY <4>1, <4>2 DEF Tables
    <3>6. ASSUME NEW b \in Acts, NEW x \in Unflagged, <<b, x>> \in n
          PROVE  tb[b][x] = tab[b][x] /\ <<b, x>> \in unread
      BY <3>2, <3>6
    <3>7. Store(tb, h, n, left)
      BY <2>3
    <3> HIDE DEF tb, h, n, left
    <3>8. StaleIsSetAside'
      BY <2>1, <3>1, <3>5, <3>6, <3>7, CacheChanges
    <3> QED
      BY <3>4, <3>8 DEF WritesInv
  <2> QED
    BY <1>2, <2>2, <2>3 DEF MapRead
<1>3. ASSUME NEW job, NEW h, Step(t, h, job), jobs[t].op = "assign",
             DOMAIN job = Fields, job.op = "assign", job.at # "order", job.act = jobs[t].act,
             DOMAIN h = Acts, \A a \in Acts : DOMAIN h[a] = Parts,
             \A a \in Acts \ {jobs[t].act} : h[a] = hub[a],
             \A a \in Acts : h[a].favs = hub[a].favs /\ h[a].order = hub[a].order
      PROVE  WritesInv'
  <2>1. \A a \in Acts : a \in Touched(jobs[t]) \/ h[a] = hub[a]
    BY <1>3 DEF Touched
  <2>2. ASSUME jobs'[t] = job, NEW a \in Acts, NEW x \in Tables
        PROVE  \/ Owes(t, a, x)'
               \/ Truth(h, a, x) = Truth(hub, a, x) /\ ~Owes(t, a, x)
    <3>1. CASE a = jobs[t].act /\ x \in Flagged
      BY <1>3, <2>2, <3>1 DEF Owes
    <3>3. CASE x \in Unflagged
      <4>1. ~Owes(t, a, x)
        BY <1>3, <3>3 DEF Owes, Flagged, Unflagged
      <4>2. Truth(h, a, x) = Truth(hub, a, x)
        BY <1>3, <3>3, TruthIs DEF Unflagged
      <4> QED
        BY <4>1, <4>2
    <3>2. CASE a # jobs[t].act
      <4>1. ~Owes(t, a, x)
        BY <1>3, <3>2 DEF Owes
      <4>2. h[a] = hub[a]
        BY <1>3, <3>2
      <4> QED
        BY <4>1, <4>2, TruthSame
    <3> QED
      BY <3>1, <3>2, <3>3 DEF Tables
  <2>3. Sound(job)
    BY <1>3 DEF Edits, Sound
  <2> QED
    BY <1>3, <2>1, <2>2, <2>3, StepIs, StepKeeps
<1>4. DOMAIN jobs[t] = Fields /\ DOMAIN hub = Acts /\ \A a \in Acts : DOMAIN hub[a] = Parts
  BY DEF WritesInv, Shape, Sound
<1>5. CASE ConfirmMembers(t)
  <2> DEFINE job == [jobs[t] EXCEPT !.at = "fetch on"]
  <2>1. Step(t, hub, job) /\ jobs[t].op = "assign"
    BY <1>5 DEF ConfirmMembers, At
  <2>2. DOMAIN job = Fields /\ job.op = "assign" /\ job.at # "order" /\ job.act = jobs[t].act
    BY <1>4, <2>1 DEF Fields
  <2> HIDE DEF job
  <2> QED
    BY <1>3, <1>4, <2>1, <2>2
<1>6. ASSUME NEW key \in {"on", "off"}, FetchMacro(t, key) PROVE WritesInv'
  <2> DEFINE job == [jobs[t] EXCEPT !.at = IF key = "on" THEN "save on" ELSE "save off",
                                    !.source = IF key = "on" THEN hub[jobs[t].act].on
                                                             ELSE hub[jobs[t].act].off]
  <2>1. Step(t, hub, job) /\ jobs[t].op = "assign"
    BY <1>6 DEF FetchMacro, At
  <2>2. DOMAIN job = Fields /\ job.op = "assign" /\ job.at # "order" /\ job.act = jobs[t].act
    BY <1>4, <2>1 DEF Fields
  <2> HIDE DEF job
  <2> QED
    BY <1>3, <1>4, <2>1, <2>2
<1>7. ASSUME NEW key \in {"on", "off"}, SaveMacro(t, key) PROVE WritesInv'
  <2> DEFINE h == WithMacro(key, SavedRows(jobs[t]), jobs[t].act)
             job == [jobs[t] EXCEPT !.at = IF key = "on" THEN "fetch off" ELSE "end"]
  <2>1. Step(t, h, job) /\ jobs[t].op = "assign"
    BY <1>7 DEF SaveMacro, At
  <2>2. DOMAIN job = Fields /\ job.op = "assign" /\ job.at # "order" /\ job.act = jobs[t].act
    BY <1>4, <2>1 DEF Fields
  <2>3. /\ DOMAIN h = Acts /\ \A a \in Acts : DOMAIN h[a] = Parts
        /\ \A a \in Acts \ {jobs[t].act} : h[a] = hub[a]
        /\ \A a \in Acts : h[a].favs = hub[a].favs /\ h[a].order = hub[a].order
    BY <1>4 DEF WithMacro, Parts
  <2> HIDE DEF job, h
  <2> QED
    BY <1>3, <2>1, <2>2, <2>3
<1>8. CASE AddDeviceEnds(t)
  <2> DEFINE a == jobs[t].act
             tb == Cleared(tab, {a}, Macros)
             h == has \ {<<a, "macros">>}
             n == unread
             left == {w \in Wrong({a}, hub) : w[2] \in {"members", "buttons"}}
  <2>1. /\ At(t, "assign", "end") /\ Store(tb, h, n, left)
        /\ Moved(t, Idle, hub) /\ UNCHANGED hub
    BY <1>8 DEF AddDeviceEnds
  <2>2. tab' = tb /\ OthersGoOn(t)
    BY <2>1, MovedIs DEF Store, WritesInv
  <2>3. Shape'
    BY <1>4, <2>1, <2>2, MovedShape, ClearedIs, EmptyIs
  <2>4. ASSUME NEW b \in Acts, NEW x \in Tables
        PROVE  \/ Owes(t, b, x)' \/ <<b, x>> \in left
               \/ tb[b][x] = Empty[x] /\ ~Counted(h, n, b, x)
               \/ tb[b][x] = Truth(hub, b, x)
               \/ tb[b][x] = tab[b][x] /\ (Counted(h, n, b, x) => Counts(b, x)) /\ ~Owes(t, b, x)
    <3>1. CASE b = a /\ x = "macros"
      BY <3>1, ClearedIs DEF Macros, Counted, Unflagged
    <3>2. CASE b = a /\ x \in {"members", "buttons"}
      BY <3>2, ClearedIs DEF Macros, Wrong
    <3>3. CASE b # a \/ x \in Unflagged
      <4>1. ~Owes(t, b, x)
        BY <2>1, <3>3 DEF Owes, At, Flagged, Unflagged
      <4>2. tb[b][x] = tab[b][x]
        BY <3>3, ClearedIs DEF Macros, Unflagged
      <4>3. Counted(h, n, b, x) => Counts(b, x)
        BY DEF Counted, Counts
      <4> QED
        BY <4>1, <4>2, <4>3
    <3> QED
      BY <3>1, <3>2, <3>3 DEF Tables, Flagged
  <2>5. ASSUME NEW b \in Acts, NEW x \in Unflagged, <<b, x>> \in n
        PROVE  tb[b][x] = tab[b][x] /\ <<b, x>> \in unread
    BY <2>5, ClearedIs DEF Macros, Tables, Flagged, Unflagged
  <2> HIDE DEF tb, h, n, left
  <2>6. StaleIsSetAside'
    BY <2>1, <2>2, <2>4, <2>5, CacheChanges
  <2> QED
    BY <2>3, <2>6 DEF WritesInv
<1> QED
  BY <1>1, <1>2, <1>5, <1>6, <1>7, <1>8

\* A step that only moves the edit on.
LEMMA OnlyJob ==
  ASSUME WritesInv, NEW t \in Threads, NEW job, Sound(job), jobs' = [jobs EXCEPT ![t] = job],
         UNCHANGED <<hub, tabs, torn>>,
         jobs'[t] = job => \A a \in Acts : \A x \in Tables : Owes(t, a, x) => Owes(t, a, x)'
  PROVE  WritesInv'
<1>1. DOMAIN jobs = Threads
  BY DEF WritesInv, Shape
<1>2. jobs'[t] = job /\ DOMAIN jobs' = Threads /\ \A u \in Threads \ {t} : jobs'[u] = jobs[u]
  BY <1>1
<1>3. OthersGoOn(t)
  BY <1>2 DEF OthersGoOn
<1>4. Shape'
  BY <1>2 DEF WritesInv, Shape, tabs
<1> QED
  BY <1>2, <1>3, <1>4, HubChanges DEF WritesInv

LEMMA PlainBegin ==
  ASSUME WritesInv, NEW t \in Threads, NEW job, Sound(job), Begin(t, job),
         UNCHANGED <<tabs, torn>>
  PROVE  WritesInv'
<1>1. \A a, x : ~Owes(t, a, x)
  BY BeginKeeps
<1>2. jobs' = [jobs EXCEPT ![t] = job] /\ UNCHANGED hub
  BY DEF Begin
<1> QED
  BY <1>1, <1>2, OnlyJob

FavoritesOnly(h, a) ==
  /\ DOMAIN h = Acts /\ \A b \in Acts : DOMAIN h[b] = Parts
  /\ \A b \in Acts \ {a} : h[b] = hub[b]
  /\ a \in Acts => h[a].on = hub[a].on /\ h[a].off = hub[a].off /\ h[a].button = hub[a].button

\* An edit of favorites writes to the favorites and the order of its activity.
LEMMA FavoritesStep ==
  ASSUME WritesInv, NEW t \in Threads, jobs[t].op \in OfFavorites, jobs[t].at # "order",
         NEW job, NEW h, Outcome(t, h, job), FavoritesOnly(h, jobs[t].act),
         DOMAIN job = Fields, job.op = jobs[t].op, job.at # "order", job.act = jobs[t].act
  PROVE  WritesInv'
<1> DEFINE a == jobs[t].act
<1>1. /\ DOMAIN h = Acts /\ \A b \in Acts : DOMAIN h[b] = Parts
      /\ \A b \in Acts \ {a} : h[b] = hub[b]
      /\ a \in Acts => /\ h[a].on = hub[a].on /\ h[a].off = hub[a].off
                       /\ h[a].button = hub[a].button
  BY DEF FavoritesOnly
<1>2. Sound(job) /\ job.op \in OfFavorites
  BY DEF Sound, Edits, OfFavorites
<1>3. \A b \in Acts : b \in Touched(jobs[t]) \/ h[b] = hub[b]
  BY <1>1 DEF Touched, OfFavorites
<1>4. ASSUME jobs'[t] = job, NEW b \in Acts, NEW x \in Tables
      PROVE  \/ Owes(t, b, x)'
             \/ Truth(h, b, x) = Truth(hub, b, x) /\ ~Owes(t, b, x)
  <2>1. CASE b = a /\ x \in {"favs", "order"}
    BY <1>2, <1>4, <2>1 DEF Owes, OfFavorites
  <2>2. CASE b = a /\ x \notin {"favs", "order"}
    <3>1. ~Owes(t, b, x)
      BY <2>2 DEF Owes, OfFavorites
    <3>2. Truth(h, b, x) = Truth(hub, b, x)
      <4>1. Members(h, b) = Members(hub, b) /\ h[b].button = hub[b].button
        BY <1>1, <2>2 DEF Members
      <4>2. x = "members" \/ x = "macros" \/ x = "buttons"
        BY <2>2 DEF Tables, Flagged, Unflagged
      <4>3. <<h[b].on, h[b].off>> = <<hub[b].on, hub[b].off>>
        BY <1>1, <2>2
      <4>4. /\ Truth(h, b, "members") = Truth(hub, b, "members")
            /\ Truth(h, b, "macros") = Truth(hub, b, "macros")
            /\ Truth(h, b, "buttons") = Truth(hub, b, "buttons")
        BY <4>1, <4>3, Zenon DEF Truth
      <4> QED
        BY <4>2, <4>4
    <3> QED
      BY <3>1, <3>2
  <2>3. CASE b # a
    <3>1. ~Owes(t, b, x)
      BY <2>3 DEF Owes, OfFavorites
    <3> QED
      BY <1>1, <2>3, <3>1, TruthSame
  <2> QED
    BY <2>1, <2>2, <2>3
<1> HIDE DEF a
<1> QED
  BY <1>1, <1>2, <1>3, <1>4, StepKeeps

LEMMA FavoritesKeep ==
  ASSUME WritesInv, NEW t \in Threads,
         \/ \E a \in Acts, d \in Devs : AddFavorite(t, a, d)
         \/ \E a \in Acts, ids \in Orders : ReorderFavorites(t, a, ids)
         \/ \E a \in Acts, id \in FavIds : DeleteFavorite(t, a, id)
         \/ ReadOrder(t) \/ MapFavorite(t) \/ DropFavorite(t) \/ StageOrder(t) \/ CommitFavorites(t)
  PROVE  WritesInv'
<1>0. /\ DOMAIN jobs = Threads /\ Sound(jobs[t]) /\ DOMAIN hub = Acts
      /\ \A a \in Acts : DOMAIN hub[a] = Parts
      /\ DOMAIN tab = Acts /\ \A a \in Acts : DOMAIN tab[a] = Tables
  BY DEF WritesInv, Shape
<1>1. ASSUME NEW a, NEW d, AddFavorite(t, a, d) PROVE WritesInv'
  <2> DEFINE job == [Idle EXCEPT !.op = "add", !.at = IF version = "X1" THEN "order" ELSE "map",
                                 !.act = a, !.dev = d]
  <2>1. Begin(t, job) /\ UNCHANGED <<tabs, torn>>
    BY <1>1 DEF AddFavorite, cache
  <2>2. Sound(job)
    BY EmptyIs DEF Idle, Fields, Edits, Sound, OfFavorites
  <2> HIDE DEF job
  <2> QED
    BY <2>1, <2>2, PlainBegin
<1>2. ASSUME NEW a, NEW ids, ReorderFavorites(t, a, ids) PROVE WritesInv'
  <2> DEFINE job == [Idle EXCEPT !.op = "reorder", !.at = "order", !.act = a, !.ids = ids]
  <2>1. Begin(t, job) /\ UNCHANGED <<tabs, torn>>
    BY <1>2 DEF ReorderFavorites, cache
  <2>2. Sound(job)
    BY EmptyIs DEF Idle, Fields, Edits, Sound, OfFavorites
  <2> HIDE DEF job
  <2> QED
    BY <2>1, <2>2, PlainBegin
<1>3. ASSUME NEW a, NEW id, DeleteFavorite(t, a, id) PROVE WritesInv'
  <2> DEFINE job == [Idle EXCEPT !.op = "remove", !.at = "order", !.act = a, !.fresh = id]
  <2>1. Begin(t, job) /\ UNCHANGED <<tabs, torn>>
    BY <1>3 DEF DeleteFavorite, cache
  <2>2. Sound(job)
    BY EmptyIs DEF Idle, Fields, Edits, Sound, OfFavorites
  <2> HIDE DEF job
  <2> QED
    BY <2>1, <2>2, PlainBegin
<1>4. CASE ReadOrder(t)
  <2> DEFINE job  == jobs[t]
             a    == job.act
             next == WithOrder(job, hub[a].order)
             read == [next EXCEPT !.misread = FALSE]
             lost == [job EXCEPT !.at = "map", !.misread = TRUE]
             tb   == [tab EXCEPT ![a].order = hub[a].order]
             h    == has
             n    == unread \ {<<a, "order">>}
  <2>1. job.at = "order" /\ job.op \in OfFavorites /\ UNCHANGED hub
    BY <1>0, <1>4 DEF ReadOrder, Sound
  <2>2. \A b, x : ~Owes(t, b, x)
    BY <2>1 DEF Owes, OfFavorites
  <2>3. Sound(next) /\ Sound(read)
    BY <1>0, <2>1 DEF WithOrder, Sound, Fields, OfFavorites
  <2>4. Sound(lost)
    BY <1>0 DEF Sound, Fields
  <2>5. ASSUME NEW new, Sound(new), jobs' = [jobs EXCEPT ![t] = new], UNCHANGED <<tabs, torn>>
        PROVE  WritesInv'
    BY <2>1, <2>2, <2>5, OnlyJob
  <2>6. ASSUME NEW new, Sound(new), jobs' = [jobs EXCEPT ![t] = new], Store(tb, h, n, {})
        PROVE  WritesInv'
    <3>1. jobs'[t] = new /\ DOMAIN jobs' = Threads /\ \A u \in Threads \ {t} : jobs'[u] = jobs[u]
      BY <1>0, <2>6
    <3>2. OthersGoOn(t)
      BY <3>1 DEF OthersGoOn
    <3>3. /\ DOMAIN tb = Acts /\ \A b \in Acts : DOMAIN tb[b] = Tables
          /\ \A b \in Acts, x \in Tables :
               tb[b][x] = IF b = a /\ x = "order" THEN hub[a].order ELSE tab[b][x]
      BY <1>0 DEF Tables, Flagged, Unflagged
    <3>4. tab' = tb
      BY <2>6 DEF Store
    <3>5. Shape'
      BY <2>1, <2>6, <3>1, <3>3, <3>4 DEF WritesInv, Shape
    <3>6. ASSUME NEW b \in Acts, NEW x \in Tables
          PROVE  \/ tb[b][x] = Truth(hub, b, x)
                 \/ tb[b][x] = tab[b][x] /\ (Counted(h, n, b, x) => Counts(b, x)) /\ ~Owes(t, b, x)
      <4>1. CASE b = a /\ x = "order"
        BY <3>3, <4>1, TruthIs
      <4>2. CASE ~(b = a /\ x = "order")
        BY <2>2, <3>3, <4>2 DEF Counted, Counts
      <4> QED
        BY <4>1, <4>2
    <3>7. ASSUME NEW b \in Acts, NEW x \in Unflagged, <<b, x>> \in n
          PROVE  tb[b][x] = tab[b][x] /\ <<b, x>> \in unread
      BY <3>3, <3>7 DEF Tables
    <3> HIDE DEF tb, h, n
    <3>8. StaleIsSetAside'
      BY <2>1, <2>6, <3>2, <3>6, <3>7, CacheChanges
    <3> QED
      BY <3>5, <3>8 DEF WritesInv
  <2>7. \/ /\ jobs' = [jobs EXCEPT ![t] = Idle] \/ jobs' = [jobs EXCEPT ![t] = read]
           /\ Store(tb, h, n, {})
        \/ /\ jobs' = [jobs EXCEPT ![t] = Idle] \/ jobs' = [jobs EXCEPT ![t] = lost]
           /\ UNCHANGED <<tabs, torn>>
    BY <1>4 DEF ReadOrder
  <2> HIDE DEF next, read, lost, tb, h, n
  <2> QED
    BY <2>3, <2>4, <2>5, <2>6, <2>7, EmptyIs
<1>5. ASSUME NEW favs, NEW order,
             NEW h, h = [hub EXCEPT ![jobs[t].act].favs = favs, ![jobs[t].act].order = order]
      PROVE  FavoritesOnly(h, jobs[t].act)
  BY <1>0, <1>5 DEF FavoritesOnly, Parts
<1>6. ASSUME NEW at \in {"stage", "commit"}, NEW fresh
      PROVE  LET job == [jobs[t] EXCEPT !.at = at, !.fresh = fresh]
             IN  /\ DOMAIN job = Fields /\ job.op = jobs[t].op /\ job.act = jobs[t].act
                 /\ job.at # "order" /\ Sound(job)
  BY <1>0 DEF Sound, Fields
<1>7. CASE MapFavorite(t)
  <2> DEFINE a     == jobs[t].act
             d     == jobs[t].dev
             once  == [hub EXCEPT ![a].favs = WithFavorite(@, d)]
             twice == [once EXCEPT ![a].favs = WithFavorite(@, d)]
             job(f) == [jobs[t] EXCEPT !.at = "stage", !.fresh = f]
  <2>1. jobs[t].op = "add" /\ jobs[t].at # "order" /\ UNCHANGED tabs
    BY <1>7 DEF MapFavorite, At, cache
  <2>2. FavoritesOnly(once, a) /\ FavoritesOnly(twice, a) /\ FavoritesOnly(hub, a)
    BY <1>0 DEF FavoritesOnly, Parts
  <2>3. ASSUME NEW h, FavoritesOnly(h, a), NEW f,
               \/ hub' = h /\ Moved(t, job(f), h) /\ UNCHANGED torn
               \/ Abandon(t, h)
        PROVE  WritesInv'
    <3>1. Outcome(t, h, job(f))
      BY <2>1, <2>3 DEF Outcome
    <3>2. /\ DOMAIN job(f) = Fields /\ job(f).op = jobs[t].op /\ job(f).act = jobs[t].act
          /\ job(f).at # "order"
      BY <1>6
    <3> HIDE DEF job
    <3> QED
      BY <2>1, <2>3, <3>1, <3>2, FavoritesStep DEF OfFavorites
  <2>4. CASE UNCHANGED <<hub, torn>> /\ jobs' = [jobs EXCEPT ![t].at = "stage"]
    <3> DEFINE new == [jobs[t] EXCEPT !.at = "stage"]
    <3>1. /\ jobs' = [jobs EXCEPT ![t] = new] /\ Sound(new)
          /\ new.op = "add" /\ new.at = "stage" /\ new.act = jobs[t].act
      BY <1>0, <2>1, <2>4 DEF Sound, Fields
    <3> HIDE DEF new
    <3>2. jobs'[t] = new => \A b \in Acts : \A x \in Tables : Owes(t, b, x) => Owes(t, b, x)'
      BY <2>1, <3>1 DEF Owes
    <3> QED
      BY <2>1, <2>4, <3>1, <3>2, OnlyJob
  <2>5. \/ hub' = once /\ Moved(t, job(FreeId(hub[a].favs)), once) /\ UNCHANGED torn
        \/ hub' = twice /\ Moved(t, job(FreeId(once[a].favs)), twice) /\ UNCHANGED torn
        \/ UNCHANGED <<hub, torn>> /\ jobs' = [jobs EXCEPT ![t].at = "stage"]
        \/ Abandon(t, hub) \/ Abandon(t, once) \/ Abandon(t, twice)
    BY <1>7 DEF MapFavorite
  <2> HIDE DEF once, twice, job
  <2> QED
    BY <2>2, <2>3, <2>4, <2>5
<1>8. CASE DropFavorite(t)
  <2> DEFINE a   == jobs[t].act
             h   == [hub EXCEPT ![a].favs = {f \in @ : f[1] # jobs[t].fresh},
                                ![a].order = But(@, jobs[t].fresh)]
             job == [jobs[t] EXCEPT !.at = "stage"]
  <2>1. jobs[t].op = "remove" /\ jobs[t].at # "order" /\ Outcome(t, h, job)
    BY <1>8, StepIs DEF DropFavorite, At
  <2>2. FavoritesOnly(h, a)
    BY <1>0 DEF FavoritesOnly, Parts
  <2>3. DOMAIN job = Fields /\ job.op = jobs[t].op /\ job.act = jobs[t].act /\ job.at # "order"
    BY <1>0 DEF Sound, Fields
  <2> HIDE DEF h, job
  <2> QED
    BY <2>1, <2>2, <2>3, FavoritesStep DEF OfFavorites
<1>9. CASE StageOrder(t)
  <2> DEFINE a   == jobs[t].act
             h   == [hub EXCEPT ![a].order = Those(Staged(jobs[t]), Ids(hub[a].favs))]
             job == [jobs[t] EXCEPT !.at = "commit"]
  <2>1. jobs[t].op \in OfFavorites /\ jobs[t].at # "order" /\ Outcome(t, h, job)
    BY <1>9, StepIs DEF StageOrder, OfFavorites
  <2>2. FavoritesOnly(h, a)
    BY <1>0 DEF FavoritesOnly, Parts
  <2>3. DOMAIN job = Fields /\ job.op = jobs[t].op /\ job.act = jobs[t].act /\ job.at # "order"
    BY <1>0 DEF Sound, Fields
  <2> HIDE DEF h, job
  <2> QED
    BY <2>1, <2>2, <2>3, FavoritesStep
<1>10. CASE CommitFavorites(t)
  <2> DEFINE a    == jobs[t].act
             xs   == Written(jobs[t])
             tb   == Cleared(tab, {a}, xs)
             h    == has \ ({a} \X xs)
             n    == Forgotten({a}, xs)
             left == {w \in Wrong({a}, hub) : w[2] \in {"order"} \ xs}
  <2>1. jobs[t].op \in OfFavorites /\ jobs[t].at # "order"
    BY <1>10 DEF CommitFavorites, OfFavorites
  <2>2. CASE Abandon(t, hub)
    BY <1>0, <2>2, AbandonKeeps
  <2>3. CASE Store(tb, h, n, left) /\ Moved(t, Idle, hub) /\ UNCHANGED hub
    <3>1. tab' = tb /\ OthersGoOn(t)
      BY <2>3, MovedIs DEF Store, WritesInv
    <3>2. Shape'
      BY <1>0, <2>3, <3>1, MovedShape, ClearedIs, EmptyIs
    <3>3. "favs" \in xs /\ xs \in SUBSET {"favs", "members", "order"}
      BY DEF Written, Favorites
    <3>7. \A b : \A x \in Tables :
           /\ b = a /\ x \in xs => ~Counted(h, n, b, x)
           /\ Counted(h, n, b, x) => Counts(b, x)
      BY CountedCleared
    <3>4. ASSUME NEW b \in Acts, NEW x \in Tables
          PROVE  \/ <<b, x>> \in left
                 \/ tb[b][x] = Empty[x] /\ ~Counted(h, n, b, x)
                 \/ tb[b][x] = Truth(hub, b, x)
                 \/ tb[b][x] = tab[b][x] /\ (Counted(h, n, b, x) => Counts(b, x)) /\ ~Owes(t, b, x)
      <4>1. CASE b = a /\ x \in xs
        <5>1. tb[b][x] = Empty[x]
          BY <4>1 DEF Cleared
        <5> HIDE DEF tb, h, n
        <5> QED
          BY <3>7, <4>1, <5>1
      <4>2. CASE b = a /\ x = "order" /\ x \notin xs
        BY <4>2, ClearedIs DEF Wrong
      <4>3. CASE b # a \/ (x # "order" /\ x \notin xs)
        <5>1. ~Owes(t, b, x)
          BY <2>1, <3>3, <4>3 DEF Owes, OfFavorites
        <5> QED
          BY <3>7, <4>1, <4>3, <5>1 DEF Cleared
      <4> QED
        BY <4>1, <4>2, <4>3
    <3>5. ASSUME NEW b \in Acts, NEW x \in Unflagged, <<b, x>> \in n
          PROVE  tb[b][x] = Empty[x] \/ (tb[b][x] = tab[b][x] /\ <<b, x>> \in unread)
      BY <3>5, ClearedForgotten
    <3> HIDE DEF tb, h, n, left
    <3>6. StaleIsSetAside'
      BY <2>3, <3>1, <3>4, <3>5, CacheChanges
    <3> QED
      BY <3>2, <3>6 DEF WritesInv
  <2>4. Abandon(t, hub) \/ (Store(tb, h, n, left) /\ Moved(t, Idle, hub) /\ UNCHANGED hub)
    BY <1>10 DEF CommitFavorites
  <2> QED
    BY <2>2, <2>3, <2>4
<1> QED
  BY <1>1, <1>2, <1>3, <1>4, <1>7, <1>8, <1>9, <1>10

LEMMA BindKeeps ==
  ASSUME WritesInv, NEW t \in Threads,
         (\E a \in Acts, d \in Devs : BindButton(t, a, d)) \/ WriteButton(t) \/ CommitButton(t)
  PROVE  WritesInv'
<1>0. /\ DOMAIN jobs = Threads /\ Sound(jobs[t]) /\ DOMAIN hub = Acts
      /\ \A a \in Acts : DOMAIN hub[a] = Parts
      /\ DOMAIN tab = Acts /\ \A a \in Acts : DOMAIN tab[a] = Tables
  BY DEF WritesInv, Shape
<1>1. ASSUME NEW a, NEW d, BindButton(t, a, d) PROVE WritesInv'
  <2> DEFINE job == [Idle EXCEPT !.op = "bind", !.at = "write", !.act = a, !.dev = d]
  <2>1. Begin(t, job) /\ UNCHANGED <<tabs, torn>>
    BY <1>1 DEF BindButton, cache
  <2>2. Sound(job)
    BY EmptyIs DEF Idle, Fields, Edits, Sound, OfFavorites
  <2> HIDE DEF job
  <2> QED
    BY <2>1, <2>2, PlainBegin
<1> DEFINE a == jobs[t].act
<1>2. CASE WriteButton(t)
  <2> DEFINE h   == [hub EXCEPT ![a].button = jobs[t].dev]
             job == [jobs[t] EXCEPT !.at = "commit"]
  <2>1. jobs[t].op = "bind" /\ Outcome(t, h, job)
    BY <1>2, StepIs DEF WriteButton, At
  <2>2. /\ DOMAIN h = Acts /\ \A b \in Acts : DOMAIN h[b] = Parts
        /\ \A b \in Acts \ {a} : h[b] = hub[b]
        /\ a \in Acts => /\ h[a].on = hub[a].on /\ h[a].off = hub[a].off
                         /\ h[a].favs = hub[a].favs /\ h[a].order = hub[a].order
    BY <1>0 DEF Parts
  <2>3. Sound(job) /\ job.op = "bind" /\ job.act = a
    BY <1>0, <2>1 DEF Sound, Fields, Edits
  <2> HIDE DEF h, job
  <2>4. \A b \in Acts : b \in Touched(jobs[t]) \/ h[b] = hub[b]
    BY <2>1, <2>2 DEF Touched
  <2>5. ASSUME jobs'[t] = job, NEW b \in Acts, NEW x \in Tables
        PROVE  \/ Owes(t, b, x)'
               \/ Truth(h, b, x) = Truth(hub, b, x) /\ ~Owes(t, b, x)
    <3>1. CASE b = a /\ x = "buttons"
      BY <2>3, <2>5, <3>1 DEF Owes
    <3>2. CASE b # a \/ x # "buttons"
      <4>1. ~Owes(t, b, x)
        BY <2>1, <3>2 DEF Owes
      <4>2. CASE b # a
        BY <2>2, <4>1, <4>2, TruthSame
      <4>3. CASE b = a
        <5>1. /\ Members(h, b) = Members(hub, b) /\ h[b].favs = hub[b].favs
              /\ h[b].order = hub[b].order
              /\ <<h[b].on, h[b].off>> = <<hub[b].on, hub[b].off>>
          BY <2>2, <4>3 DEF Members
        <5>2. x = "members" \/ x = "macros" \/ x = "favs" \/ x = "order"
          BY <3>2, <4>3 DEF Tables, Flagged, Unflagged
        <5>3. /\ Truth(h, b, "members") = Truth(hub, b, "members")
              /\ Truth(h, b, "macros") = Truth(hub, b, "macros")
              /\ Truth(h, b, "favs") = Truth(hub, b, "favs")
              /\ Truth(h, b, "order") = Truth(hub, b, "order")
          BY <5>1, Zenon DEF Truth
        <5> QED
          BY <4>1, <5>2, <5>3
      <4> QED
        BY <4>2, <4>3
    <3> QED
      BY <3>1, <3>2
  <2> QED
    BY <2>1, <2>2, <2>3, <2>4, <2>5, StepKeeps
<1>3. CASE CommitButton(t)
  <2> DEFINE tb == Cleared(tab, {a}, BoundTables)
             h  == has \ ({a} \X (BoundTables \cup {"members"}))
             n  == Forgotten({a}, BoundTables)
  <2>1. jobs[t].op = "bind"
    BY <1>3 DEF CommitButton, At
  <2>2. CASE Abandon(t, hub)
    BY <1>0, <2>2, AbandonKeeps
  <2>3. CASE Store(tb, h, n, {}) /\ Moved(t, Idle, hub) /\ UNCHANGED hub
    <3>1. tab' = tb /\ OthersGoOn(t)
      BY <2>3, MovedIs DEF Store, WritesInv
    <3>2. Shape'
      BY <1>0, <2>3, <3>1, MovedShape, ClearedIs, EmptyIs
    <3>6. \A b : \A x \in Tables :
           /\ b = a /\ x \in BoundTables => ~Counted(h, n, b, x)
           /\ Counted(h, n, b, x) => Counts(b, x)
      BY CountedCleared
    <3>3. ASSUME NEW b \in Acts, NEW x \in Tables
          PROVE  \/ tb[b][x] = Empty[x] /\ ~Counted(h, n, b, x)
                 \/ tb[b][x] = tab[b][x] /\ (Counted(h, n, b, x) => Counts(b, x)) /\ ~Owes(t, b, x)
      <4>1. CASE b = a /\ x = "buttons"
        <5>1. tb[b][x] = Empty[x]
          BY <4>1 DEF Cleared, BoundTables, Buttons
        <5> HIDE DEF tb, h, n
        <5> QED
          BY <3>6, <4>1, <5>1 DEF BoundTables, Buttons
      <4>2. CASE b # a \/ x # "buttons"
        BY <2>1, <3>6, <4>2 DEF Cleared, BoundTables, Buttons, Owes
      <4> QED
        BY <4>1, <4>2
    <3>4. ASSUME NEW b \in Acts, NEW x \in Unflagged, <<b, x>> \in n
          PROVE  tb[b][x] = Empty[x] \/ (tb[b][x] = tab[b][x] /\ <<b, x>> \in unread)
      BY <3>4, ClearedForgotten
    <3> HIDE DEF tb, h, n
    <3>5. StaleIsSetAside'
      BY <2>3, <3>1, <3>3, <3>4, CacheChanges
    <3> QED
      BY <3>2, <3>5 DEF WritesInv
  <2>4. Abandon(t, hub) \/ (Store(tb, h, n, {}) /\ Moved(t, Idle, hub) /\ UNCHANGED hub)
    BY <1>3 DEF CommitButton, Clear
  <2> QED
    BY <2>2, <2>3, <2>4
<1> QED
  BY <1>1, <1>2, <1>3

LEMMA DeleteKeeps ==
  ASSUME WritesInv, NEW t \in Threads,
         \/ \E d \in Devs : DeleteDevice(t, d)
         \/ DropDevice(t) \/ RefreshActivities(t)
         \/ \E a \in Acts : ConfirmActivity(t, a)
         \/ DeleteEnds(t)
  PROVE  WritesInv'
<1>0. /\ DOMAIN jobs = Threads /\ Sound(jobs[t]) /\ DOMAIN jobs[t] = Fields
      /\ DOMAIN hub = Acts /\ \A a \in Acts : DOMAIN hub[a] = Parts
      /\ DOMAIN tab = Acts /\ \A a \in Acts : DOMAIN tab[a] = Tables
  BY DEF WritesInv, Shape, Sound
<1>1. ASSUME NEW d, DeleteDevice(t, d) PROVE WritesInv'
  <2> DEFINE job == [Idle EXCEPT !.op = "delete", !.at = "delete", !.dev = d, !.acts = Referencing(d)]
  <2>1. Begin(t, job) /\ UNCHANGED <<tabs, torn>>
    BY <1>1 DEF DeleteDevice, cache
  <2>2. Sound(job)
    BY EmptyIs DEF Idle, Fields, Edits, Sound, OfFavorites
  <2> HIDE DEF job
  <2> QED
    BY <2>1, <2>2, PlainBegin
<1>2. jobs[t].op = "delete" => \A a \in Acts : a \in Touched(jobs[t])
  BY DEF Touched
<1>3. CASE DropDevice(t)
  <2> DEFINE h   == Without(jobs[t].dev)
             changed == {a \in Acts : h[a] # hub[a]}
             job == [jobs[t] EXCEPT !.at = "refresh"]
  <2>1. jobs[t].op = "delete" /\ jobs[t].at = "delete"
    BY <1>3 DEF DropDevice, At
  <2>2. DOMAIN h = Acts /\ \A a \in Acts : DOMAIN h[a] = Parts
    BY DEF Without, Parts
  <2>3. /\ Sound(job) /\ job.op = "delete" /\ job.at = "refresh" /\ job.acts = jobs[t].acts
    BY <1>0, <2>1 DEF Sound, Fields, Edits
  <2>4. \/ Abandon(t, hub) \/ Abandon(t, h)
        \/ /\ hub' = h /\ Moved(t, job, h) /\ UNCHANGED tabs
           /\ torn' = torn \cup Wrong(Acts \ jobs[t].acts, h)
                           \cup {w \in Wrong(changed, h) : w[2] = "order"}
    BY <1>3 DEF DropDevice
  <2> HIDE DEF h, job
  <2>5. CASE Abandon(t, hub) \/ Abandon(t, h)
    BY <1>0, <1>2, <2>1, <2>2, <2>5, AbandonKeeps
  <2>6. CASE /\ hub' = h /\ Moved(t, job, h) /\ UNCHANGED tabs
             /\ torn' = torn \cup Wrong(Acts \ jobs[t].acts, h)
                             \cup {w \in Wrong(changed, h) : w[2] = "order"}
    <3>1. jobs'[t] = job /\ OthersGoOn(t)
      BY <2>6, MovedIs DEF WritesInv
    <3>2. Shape'
      BY <1>0, <2>2, <2>3, <2>6, MovedShape DEF tabs
    <3>3. ASSUME NEW a \in Acts, NEW x \in Tables
          PROVE  \/ Owes(t, a, x)' \/ (tab[a][x] # Truth(hub', a, x) => <<a, x>> \in torn')
                 \/ Truth(hub', a, x) = Truth(hub, a, x) /\ ~Owes(t, a, x)
      <4>1. CASE a \in jobs[t].acts /\ x # "order"
        BY <2>3, <3>1, <4>1 DEF Owes
      <4>2. CASE a \notin jobs[t].acts
        BY <2>6, <4>2 DEF Wrong
      <4>3. CASE x = "order" /\ h[a] # hub[a]
        BY <2>6, <4>3 DEF Wrong
      <4>4. CASE h[a] = hub[a]
        BY <2>1, <2>6, <4>4, TruthSame DEF Owes
      <4> QED
        BY <4>1, <4>2, <4>3, <4>4
    <3> QED
      BY <2>6, <3>1, <3>2, <3>3, HubChanges DEF WritesInv
  <2> QED
    BY <2>4, <2>5, <2>6
<1>4. CASE RefreshActivities(t)
  <2>1. jobs[t].op = "delete" /\ jobs[t].at = "refresh" /\ UNCHANGED tabs
    BY <1>4 DEF RefreshActivities, At, cache
  <2>2. CASE Abandon(t, hub)
    BY <1>0, <2>2, AbandonKeeps
  <2>3. ASSUME NEW job, Sound(job), job.op = "delete", job.at = "confirm",
               job.acts = jobs[t].acts, job.act = jobs[t].act,
               jobs' = [jobs EXCEPT ![t] = job], UNCHANGED <<hub, torn>>
        PROVE  WritesInv'
    <3>1. jobs'[t] = job => \A a \in Acts : \A x \in Tables : Owes(t, a, x) => Owes(t, a, x)'
      BY <2>1, <2>3 DEF Owes
    <3> QED
      BY <2>1, <2>3, <3>1, OnlyJob
  <2>4. CASE jobs' = [jobs EXCEPT ![t].at = "confirm", ![t].members = confirm] /\ UNCHANGED <<torn, hub>>
    <3> DEFINE new == [jobs[t] EXCEPT !.at = "confirm", !.members = confirm]
    <3>1. /\ Sound(new) /\ new.op = "delete" /\ new.at = "confirm"
          /\ new.acts = jobs[t].acts /\ new.act = jobs[t].act
      BY <1>0, <2>1 DEF Sound, Fields
    <3>2. jobs' = [jobs EXCEPT ![t] = new]
      BY <1>0, <2>4
    <3> HIDE DEF new
    <3> QED
      BY <2>3, <2>4, <3>1, <3>2
  <2>5. CASE jobs' = [jobs EXCEPT ![t].at = "confirm"] /\ UNCHANGED <<torn, hub>>
    <3> DEFINE new == [jobs[t] EXCEPT !.at = "confirm"]
    <3>1. /\ Sound(new) /\ new.op = "delete" /\ new.at = "confirm"
          /\ new.acts = jobs[t].acts /\ new.act = jobs[t].act
      BY <1>0, <2>1 DEF Sound, Fields
    <3>2. jobs' = [jobs EXCEPT ![t] = new]
      BY <2>5
    <3> HIDE DEF new
    <3> QED
      BY <2>3, <2>5, <3>1, <3>2
  <2> QED
    BY <1>4, <2>2, <2>4, <2>5 DEF RefreshActivities
<1>5. ASSUME NEW a \in Acts, ConfirmActivity(t, a) PROVE WritesInv'
  <2> DEFINE xs  == Buttons \cup Favorites \cup Macros
             tb  == Cleared(tab, {a}, xs)
             h   == has \ ({a} \X (xs \cup {}))
             n   == Forgotten({a}, xs)
             job == [jobs[t] EXCEPT !.members = @ \ {a}, !.acts = @ \ {a}]
  <2>1. jobs[t].op = "delete" /\ jobs[t].at = "confirm"
    BY <1>5 DEF ConfirmActivity, At
  <2>2. CASE Abandon(t, hub)
    BY <1>0, <2>2, AbandonKeeps
  <2>3. CASE Store(tb, h, n, {}) /\ Moved(t, job, hub) /\ UNCHANGED hub
    <3>1. /\ Sound(job) /\ job.op = "delete" /\ job.at = "confirm"
          /\ job.acts = jobs[t].acts \ {a}
      BY <1>0, <2>1 DEF Sound, Fields
    <3> HIDE DEF job
    <3>2. tab' = tb /\ OthersGoOn(t) /\ jobs'[t] = job
      BY <2>3, MovedIs DEF Store, WritesInv
    <3>3. Shape'
      BY <1>0, <2>3, <3>1, <3>2, MovedShape, ClearedIs
    <3>4. xs = {"buttons", "favs", "members", "macros"}
      BY DEF Buttons, Favorites, Macros
    <3>8. \A b : \A x \in Tables :
           /\ b = a /\ x \in xs => ~Counted(h, n, b, x)
           /\ Counted(h, n, b, x) => Counts(b, x)
      BY CountedCleared
    <3>5. ASSUME NEW b \in Acts, NEW x \in Tables
          PROVE  \/ Owes(t, b, x)'
                 \/ tb[b][x] = Empty[x] /\ ~Counted(h, n, b, x)
                 \/ tb[b][x] = tab[b][x] /\ (Counted(h, n, b, x) => Counts(b, x)) /\ ~Owes(t, b, x)
      <4>1. CASE b = a /\ x \in xs
        <5>1. tb[b][x] = Empty[x]
          BY <4>1 DEF Cleared
        <5> HIDE DEF tb, h, n
        <5> QED
          BY <3>8, <4>1, <5>1
      <4>2. CASE x \notin xs
        <5>1. x = "order"
          BY <3>4, <4>2 DEF Tables, Flagged, Unflagged
        <5>2. ~Owes(t, b, x)
          BY <2>1, <5>1 DEF Owes
        <5> QED
          BY <4>2, <5>2, <3>8 DEF Cleared
      <4>3. CASE b # a
        <5>1. Owes(t, b, x)' \/ ~Owes(t, b, x)
          BY <2>1, <3>1, <3>2, <4>3 DEF Owes
        <5> QED
          BY <4>3, <5>1, <3>8 DEF Cleared
      <4> QED
        BY <4>1, <4>2, <4>3
    <3>6. ASSUME NEW b \in Acts, NEW x \in Unflagged, <<b, x>> \in n
          PROVE  tb[b][x] = Empty[x] \/ (tb[b][x] = tab[b][x] /\ <<b, x>> \in unread)
      BY <3>6, ClearedForgotten
    <3> HIDE DEF tb, h, n
    <3>7. StaleIsSetAside'
      BY <2>3, <3>2, <3>5, <3>6, CacheChanges
    <3> QED
      BY <3>3, <3>7 DEF WritesInv
  <2>4. Abandon(t, hub) \/ (Store(tb, h, n, {}) /\ Moved(t, job, hub) /\ UNCHANGED hub)
    BY <1>5 DEF ConfirmActivity, Clear
  <2> QED
    BY <2>2, <2>3, <2>4
<1>6. CASE DeleteEnds(t)
  <2> DEFINE gone == jobs[t].acts
             xs   == Buttons \cup Favorites \cup Macros
             tb   == Cleared(tab, gone, xs)
             h    == has \ (gone \X (xs \cup {}))
             n    == Forgotten(gone, xs)
  <2>1. /\ jobs[t].op = "delete" /\ Store(tb, h, n, {}) /\ Moved(t, Idle, hub) /\ UNCHANGED hub
    BY <1>6 DEF DeleteEnds, At, AlsoCleared, Clear
  <2>2. tab' = tb /\ OthersGoOn(t)
    BY <2>1, MovedIs DEF Store, WritesInv
  <2>3. Shape'
    BY <1>0, <2>1, <2>2, MovedShape, ClearedIs, EmptyIs
  <2>4. xs = {"buttons", "favs", "members", "macros"}
    BY DEF Buttons, Favorites, Macros
  <2>8. \A b : \A x \in Tables :
         /\ b \in gone /\ x \in xs => ~Counted(h, n, b, x)
         /\ Counted(h, n, b, x) => Counts(b, x)
    BY CountedCleared
  <2>5. ASSUME NEW b \in Acts, NEW x \in Tables
        PROVE  \/ tb[b][x] = Empty[x] /\ ~Counted(h, n, b, x)
               \/ tb[b][x] = tab[b][x] /\ (Counted(h, n, b, x) => Counts(b, x)) /\ ~Owes(t, b, x)
    <3>1. CASE b \in gone /\ x \in xs
      <4>1. tb[b][x] = Empty[x]
        BY <3>1 DEF Cleared
      <4> HIDE DEF tb, h, n
      <4> QED
        BY <2>8, <3>1, <4>1
    <3>2. CASE b \notin gone \/ x = "order"
      <4>1. ~Owes(t, b, x)
        BY <2>1, <3>2 DEF Owes
      <4>2. ~(b \in gone /\ x \in xs)
        BY <2>4, <3>2
      <4> QED
        <5>1. tb[b][x] = tab[b][x]
          BY <4>2 DEF Cleared
        <5> HIDE DEF tb, h, n
        <5> QED
          BY <2>8, <4>1, <5>1
    <3> QED
      BY <2>4, <3>1, <3>2 DEF Tables, Flagged, Unflagged
  <2>6. ASSUME NEW b \in Acts, NEW x \in Unflagged, <<b, x>> \in n
        PROVE  tb[b][x] = Empty[x] \/ (tb[b][x] = tab[b][x] /\ <<b, x>> \in unread)
    BY <2>6, ClearedForgotten
  <2> HIDE DEF tb, h, n
  <2>7. StaleIsSetAside'
    BY <2>1, <2>2, <2>5, <2>6, CacheChanges
  <2> QED
    BY <2>3, <2>7 DEF WritesInv
<1> QED
  BY <1>1, <1>3, <1>4, <1>5, <1>6

LEMMA SortKeeps ==
  ASSUME WritesInv, NEW t \in Threads,
         (\E ids \in Sorts : SortDevices(t, ids)) \/ WriteSort(t) \/ RefreshDevices(t)
  PROVE  WritesInv'
<1>0. DOMAIN jobs = Threads /\ Sound(jobs[t]) /\ DOMAIN jobs[t] = Fields
  BY DEF WritesInv, Shape, Sound
<1>1. ASSUME NEW ids, SortDevices(t, ids) PROVE WritesInv'
  <2> DEFINE job == [Idle EXCEPT !.op = "sort", !.at = "write", !.ids = ids]
  <2>1. Begin(t, job) /\ UNCHANGED <<tabs, torn>>
    BY <1>1 DEF SortDevices, cache
  <2>2. Sound(job)
    BY EmptyIs DEF Idle, Fields, Edits, Sound, OfFavorites
  <2> HIDE DEF job
  <2> QED
    BY <2>1, <2>2, PlainBegin
<1>2. CASE WriteSort(t) \/ RefreshDevices(t)
  <2> DEFINE new == [jobs[t] EXCEPT !.at = "refresh"]
  <2>1. /\ jobs[t].op = "sort" /\ UNCHANGED <<hub, tabs, torn>>
        /\ jobs' = [jobs EXCEPT ![t] = new] \/ jobs' = [jobs EXCEPT ![t] = Idle]
    BY <1>2 DEF WriteSort, RefreshDevices, At, cache
  <2>2. Sound(new)
    BY <1>0 DEF Sound, Fields
  <2>3. \A a, x : ~Owes(t, a, x)
    BY <2>1 DEF Owes
  <2> HIDE DEF new
  <2> QED
    BY <2>1, <2>2, <2>3, EmptyIs, OnlyJob
<1> QED
  BY <1>1, <1>2

LEMMA EraseKeeps ==
  ASSUME WritesInv, NEW t \in Threads, Erase(t) \/ EraseAll(t)
  PROVE  WritesInv'
<1>0. DOMAIN hub = Acts /\ \A a \in Acts : DOMAIN hub[a] = Parts
  BY DEF WritesInv, Shape
<1>1. CASE Erase(t)
  <2> DEFINE job == [Idle EXCEPT !.op = "erase", !.at = "write"]
  <2>1. Begin(t, job) /\ UNCHANGED <<tabs, torn>>
    BY <1>1 DEF Erase, cache
  <2>2. Sound(job)
    BY EmptyIs DEF Idle, Fields, Edits, Sound, OfFavorites
  <2> HIDE DEF job
  <2> QED
    BY <2>1, <2>2, PlainBegin
<1>2. CASE EraseAll(t)
  <2>1. jobs[t].op = "erase"
    BY <1>2 DEF EraseAll, At
  <2>2. \A a \in Acts : a \in Touched(jobs[t])
    BY <2>1 DEF Touched
  <2>3. DOMAIN Erased = Acts /\ \A a \in Acts : DOMAIN Erased[a] = Parts
    BY DEF Erased, Parts
  <2>4. CASE Abandon(t, hub) \/ Abandon(t, Erased)
    BY <1>0, <2>2, <2>3, <2>4, AbandonKeeps
  <2>5. CASE /\ hub' = Erased /\ tab' = [a \in Acts |-> Empty] /\ has' = {}
             /\ unread' = Acts \X Unflagged
             /\ Moved(t, Idle, Erased)
    <3>1. /\ DOMAIN tab' = Acts
          /\ \A a \in Acts : DOMAIN tab'[a] = Tables /\ tab'[a]["members"] = {}
                           /\ \A x \in Unflagged : tab'[a][x] = Empty[x]
      BY <2>5, EmptyIs
    <3>2. Shape'
      BY <2>3, <2>5, <3>1, EmptyIs, MovedShape
    <3>3. \A a \in Acts : \A x \in Tables : ~Counts(a, x)'
      BY <2>5 DEF Counts, Counted
    <3>4. StaleIsSetAside'
      BY <3>1, <3>3 DEF StaleIsSetAside
    <3> QED
      BY <3>2, <3>4 DEF WritesInv
  <2> QED
    BY <1>2, <2>4, <2>5 DEF EraseAll, Store
<1> QED
  BY <1>1, <1>2

LEMMA ReadKeeps ==
  ASSUME WritesInv, NEW a \in Acts, Read(a)
  PROVE  WritesInv'
<1>0. /\ DOMAIN tab = Acts /\ \A b \in Acts : DOMAIN tab[b] = Tables
      /\ UNCHANGED <<hub, jobs>>
  BY DEF WritesInv, Shape, Read
<1>1. \A b, x : (\E t \in Threads : Owes(t, b, x))' <=> \E t \in Threads : Owes(t, b, x)
  BY <1>0 DEF Owes
<1>2. CASE ReadKeymap(a)
  <2> DEFINE kept == {f \in tab[a].favs : f[1] \notin Ids(hub[a].favs)}
             favs == hub[a].favs \cup kept
             tb == [tab EXCEPT ![a].buttons = hub[a].button, ![a].favs = favs]
             h  == has \cup {<<a, "buttons">>}
             n  == unread \ {<<a, "favs">>}
  <2>1. Store(tb, h, n, {})
    BY <1>2 DEF ReadKeymap
  <2>2. kept \subseteq tab[a]["favs"] /\ (tab[a]["favs"] = hub[a].favs => kept = {})
    BY DEF Ids
  <2> HIDE DEF kept
  <2>3. /\ DOMAIN tb = Acts /\ \A b \in Acts : DOMAIN tb[b] = Tables
        /\ tb[a]["buttons"] = hub[a].button /\ tb[a]["favs"] = favs
        /\ \A x \in Tables \ {"buttons", "favs"} : tb[a][x] = tab[a][x]
        /\ \A b \in Acts \ {a} : tb[b] = tab[b]
    BY <1>0 DEF Tables, Flagged, Unflagged
  <2> HIDE DEF tb
  <2>4. /\ tab' = tb /\ has' = h /\ unread' = n
        /\ \A b \in Acts, x \in Tables : <<b, x>> \in torn /\ tb[b][x] # Truth(hub, b, x)
                                           => <<b, x>> \in torn'
    BY <2>1 DEF Store
  <2>5. Shape'
    BY <1>0, <2>3, <2>4 DEF WritesInv, Shape
  <2>6. ASSUME NEW b \in Acts, NEW x \in Tables, Counts(b, x)', ~Right(b, x)'
        PROVE  SetAside(b, x)'
    <3>1. tb[b][x] # Truth(hub, b, x)
      BY <1>0, <2>4, <2>6 DEF Right
    <3>2. SetAside(b, x) => SetAside(b, x)'
      BY <1>1, <2>4, <3>1 DEF SetAside
    <3>3. CASE b = a /\ x = "buttons"
      BY <2>3, <3>1, <3>3, TruthIs
    <3>4. CASE b = a /\ x = "favs"
      <4>1. tab[a]["favs"] # {} /\ tab[a]["favs"] # hub[a].favs
        <5>1. Truth(hub, a, "favs") = hub[a].favs
          BY TruthIs
        <5>2. favs # hub[a].favs
          BY <2>3, <3>1, <3>4, <5>1
        <5> QED
          BY <2>2, <5>2
      <4>2. Counts(a, "favs")
        BY <4>1, EmptyIs DEF WritesInv, StaleIsSetAside, Counts, Counted, Unflagged
      <4>3. ~Right(a, "favs")
        BY <4>1, TruthIs DEF Right
      <4> QED
        BY <3>2, <3>4, <4>2, <4>3 DEF WritesInv, StaleIsSetAside
    <3>5. CASE ~(b = a /\ x \in {"buttons", "favs"})
      <4>1. tb[b][x] = tab[b][x] /\ Counts(b, x)
        BY <2>3, <2>4, <2>6, <3>5 DEF Counts, Counted
      <4> QED
        BY <3>1, <3>2, <4>1 DEF WritesInv, StaleIsSetAside, Right
    <3> QED
      BY <3>3, <3>4, <3>5
  <2>7. ASSUME NEW b \in Acts, ~(tab'[b]["members"] \subseteq Members(hub', b))
        PROVE  SetAside(b, "members")'
    <3>1. tb[b]["members"] = tab[b]["members"] /\ "members" \in Tables
      BY <2>3 DEF Tables, Flagged, Unflagged
    <3>2. ~(tab[b]["members"] \subseteq Members(hub, b))
      BY <1>0, <2>4, <2>7, <3>1
    <3>3. SetAside(b, "members")
      BY <3>2 DEF WritesInv, StaleIsSetAside
    <3>4. tb[b]["members"] # Truth(hub, b, "members")
      BY <3>1, <3>2, TruthIs
    <3> QED
      BY <1>1, <2>4, <3>1, <3>3, <3>4 DEF SetAside
  <2>8. \A b \in Acts : \A x \in Unflagged : <<b, x>> \in unread' => tab'[b][x] = Empty[x]
    BY <2>3, <2>4 DEF WritesInv, StaleIsSetAside, Tables, Flagged, Unflagged
  <2> QED
    BY <2>5, <2>6, <2>7, <2>8 DEF WritesInv, StaleIsSetAside
<1>3. ASSUME NEW x \in Tables, ReadOther(a, x) PROVE WritesInv'
  <2> DEFINE rows == IF x = "members" THEN tab[a][x] \cup Members(hub, a) ELSE Truth(hub, a, x)
             tb == [tab EXCEPT ![a][x] = rows]
             h  == has \cup {<<a, x>>}
  <2>1. Store(tb, h, unread, {}) /\ x \in {"members", "macros"}
    BY <1>3 DEF ReadOther
  <2>2. rows = Truth(hub, a, x) \/ (x = "members" /\ SetAside(a, "members"))
    <3>1. CASE x = "members"
      <4>1. CASE tab[a]["members"] \subseteq Members(hub, a)
        BY <3>1, <4>1, TruthIs
      <4>2. CASE ~(tab[a]["members"] \subseteq Members(hub, a))
        BY <3>1, <4>2 DEF WritesInv, StaleIsSetAside
      <4> QED
        BY <4>1, <4>2
    <3> QED
      BY <3>1
  <2>3. x = "members" => (~(rows \subseteq Members(hub, a)) => SetAside(a, "members"))
    BY DEF WritesInv, StaleIsSetAside
  <2> HIDE DEF rows
  <2>4. /\ DOMAIN tb = Acts /\ \A b \in Acts : DOMAIN tb[b] = Tables
        /\ tb[a][x] = rows
        /\ \A b \in Acts, y \in Tables : ~(b = a /\ y = x) => tb[b][y] = tab[b][y]
    BY <1>0
  <2> HIDE DEF tb
  <2>5. /\ tab' = tb /\ has' = h /\ unread' = unread
        /\ \A b \in Acts, y \in Tables : <<b, y>> \in torn /\ tb[b][y] # Truth(hub, b, y)
                                           => <<b, y>> \in torn'
    BY <2>1 DEF Store
  <2>6. Shape'
    BY <1>0, <2>4, <2>5 DEF WritesInv, Shape
  <2>7. ASSUME NEW b \in Acts, NEW y \in Tables, SetAside(b, y), ~Right(b, y)'
        PROVE  SetAside(b, y)'
    <3>1. tb[b][y] # Truth(hub, b, y)
      BY <1>0, <2>5, <2>7 DEF Right
    <3> QED
      BY <1>1, <2>5, <2>7, <3>1 DEF SetAside
  <2>8. ASSUME NEW b \in Acts, NEW y \in Tables, Counts(b, y)', ~Right(b, y)'
        PROVE  SetAside(b, y)'
    <3>1. CASE b = a /\ y = x
      <4>1. rows # Truth(hub, a, x)
        BY <1>0, <2>4, <2>5, <2>8, <3>1 DEF Right
      <4> QED
        BY <2>2, <2>7, <2>8, <3>1, <4>1
    <3>2. CASE ~(b = a /\ y = x)
      <4>1. tb[b][y] = tab[b][y] /\ Counts(b, y)
        BY <2>4, <2>5, <2>8, <3>2 DEF Counts, Counted
      <4>2. ~Right(b, y)
        BY <1>0, <2>5, <2>8, <4>1 DEF Right
      <4> QED
        BY <2>7, <2>8, <4>1, <4>2 DEF WritesInv, StaleIsSetAside
    <3> QED
      BY <3>1, <3>2
  <2>9. ASSUME NEW b \in Acts, ~(tab'[b]["members"] \subseteq Members(hub', b))
        PROVE  SetAside(b, "members")'
    <3>1. "members" \in Tables
      BY DEF Tables, Flagged, Unflagged
    <3>2. SetAside(b, "members")
      BY <1>0, <2>3, <2>4, <2>5, <2>9, <3>1 DEF WritesInv, StaleIsSetAside
    <3>3. ~Right(b, "members")'
      BY <2>9, TruthIs DEF Right
    <3> QED
      BY <2>7, <3>1, <3>2, <3>3
  <2>10. \A b \in Acts : \A y \in Unflagged : <<b, y>> \in unread' => tab'[b][y] = Empty[y]
    <3>1. \A y \in Unflagged : y \in Tables /\ y # x
      BY <2>1 DEF Tables, Flagged, Unflagged
    <3> QED
      BY <2>4, <2>5, <3>1 DEF WritesInv, StaleIsSetAside
  <2> QED
    BY <2>6, <2>8, <2>9, <2>10 DEF WritesInv, StaleIsSetAside
<1> QED
  BY <1>2, <1>3 DEF Read

LEMMA WritesInit ==
  ASSUME Init
  PROVE  WritesInv
<1>1. /\ DOMAIN hub = Acts /\ \A a \in Acts : DOMAIN hub[a] = Parts
  BY DEF Init, Start, Parts
<1>2. DOMAIN jobs = Threads /\ \A t \in Threads : Sound(jobs[t])
  BY EmptyIs DEF Init
<1>3. CASE has = {}
  <2>1. \A a \in Acts : tab[a] = Empty
    BY <1>3 DEF Init
  <2>2. DOMAIN tab = Acts /\ unread = Acts \X Unflagged
    BY <1>3 DEF Init
  <2>3. \A a \in Acts : \A x \in Tables : ~Counts(a, x)
    BY <1>3, <2>2 DEF Counts, Counted
  <2> QED
    BY <1>1, <1>2, <2>1, <2>2, <2>3, EmptyIs DEF WritesInv, Shape, StaleIsSetAside
<1>4. CASE has # {}
  <2>1. /\ DOMAIN tab = Acts /\ unread = {}
        /\ \A a \in Acts : tab[a] = [x \in Tables |-> Truth(hub, a, x)]
    BY <1>4 DEF Init
  <2>2. \A a \in Acts : DOMAIN tab[a] = Tables /\ \A x \in Tables : Right(a, x)
    BY <2>1 DEF Right
  <2>3. \A a \in Acts : tab[a]["members"] = Members(hub, a)
    <3>1. "members" \in Tables
      BY DEF Tables, Flagged, Unflagged
    <3> QED
      BY <2>2, <3>1, TruthIs DEF Right
  <2> QED
    BY <1>1, <1>2, <2>1, <2>2, <2>3 DEF WritesInv, Shape, StaleIsSetAside
<1> QED
  BY <1>3, <1>4

LEMMA WritesNext ==
  ASSUME WritesInv, [Next]_vars
  PROVE  WritesInv'
<1>1. CASE UNCHANGED vars
  <2>1. UNCHANGED <<hub, tab, has, unread, torn, jobs>>
    BY <1>1 DEF vars
  <2>3. \A a, x : Counts(a, x)' <=> Counts(a, x)
    BY <2>1 DEF Counts, Counted
  <2>2. \A a, x : (Right(a, x)' <=> Right(a, x)) /\ (SetAside(a, x)' <=> SetAside(a, x))
    BY <2>1 DEF Right, SetAside, Owes
  <2> QED
    BY <2>1, <2>2, <2>3 DEF WritesInv, Shape, StaleIsSetAside
<1>2. ASSUME NEW t \in Threads, Begins(t) PROVE WritesInv'
  BY <1>2, AssignKeeps, FavoritesKeep, BindKeeps, DeleteKeeps, SortKeeps, EraseKeeps DEF Begins
<1>3. ASSUME NEW t \in Threads, Goes(t) PROVE WritesInv'
  BY <1>3, AssignKeeps, FavoritesKeep, BindKeeps, DeleteKeeps, SortKeeps, EraseKeeps DEF Goes
<1>4. ASSUME NEW a \in Acts, Read(a) PROVE WritesInv'
  BY <1>4, ReadKeeps
<1> QED
  BY <1>1, <1>2, <1>3, <1>4 DEF Next

THEOREM WritesInvariant == Spec => []WritesInv
  BY WritesInit, WritesNext, PTL DEF Spec

\* When nobody writes, a table that the cache shows is the hub's, favorites and
\* orders without a flag of their own among them, unless an edit left it behind;
\* favorites and orders that are not read show as empty (clear_entity_cache at
\* the end of every edit).
THEOREM CacheIsRight == Spec => []CacheFollowsWrites
<1>1. WritesInv => CacheFollowsWrites
  <2> SUFFICES ASSUME WritesInv, NEW a \in Acts, NEW x \in Tables, <<a, x>> \notin torn,
                      \A t \in Threads : a \notin Touched(jobs[t])
               PROVE  /\ x \in Flagged /\ <<a, x>> \in has => tab[a][x] = Truth(hub, a, x)
                      /\ x \in Unflagged =>
                           tab[a][x] = IF <<a, x>> \in unread THEN Empty[x] ELSE Truth(hub, a, x)
    BY DEF CacheFollowsWrites
  <2>1. \A t \in Threads : ~Owes(t, a, x)
    BY DEF Owes, Touched
  <2>2. Counts(a, x) => tab[a][x] = Truth(hub, a, x)
    BY <2>1 DEF WritesInv, StaleIsSetAside, SetAside, Right
  <2>3. x \in Unflagged /\ <<a, x>> \in unread => tab[a][x] = Empty[x]
    BY DEF WritesInv, StaleIsSetAside
  <2> QED
    BY <2>2, <2>3 DEF Counts, Counted
<1> QED
  BY <1>1, WritesInvariant, PTL

-----------------------------------------------------------------------------
(* Subsequences.                                                            *)

\* In a finite set with a strict order, each number of predecessors up to the
\* size of the set occurs, and each once.
LEMMA EachRankTaken ==
  ASSUME NEW S, IsFiniteSet(S), NEW B,
         \A i \in S : <<i, i>> \notin B,
         \A i, j, k \in S : <<i, j>> \in B /\ <<j, k>> \in B => <<i, k>> \in B,
         \A i, j \in S : i # j => <<i, j>> \in B \/ <<j, i>> \in B
  PROVE  /\ Cardinality(S) \in Nat
         /\ \A n \in 1 .. Cardinality(S) :
              \E i \in S : Cardinality({j \in S : <<j, i>> \in B}) = n - 1
         /\ \A i \in S : Cardinality({j \in S : <<j, i>> \in B}) \in 0 .. Cardinality(S) - 1
         /\ \A i, j \in S : Cardinality({k \in S : <<k, i>> \in B})
                            = Cardinality({k \in S : <<k, j>> \in B}) => i = j
<1> DEFINE below(i) == {j \in S : <<j, i>> \in B}
           c == Cardinality(S)
           rank == [i \in S |-> Cardinality(below(i)) + 1]
<1>1. c \in Nat
  BY FS_CardinalityType
<1>2. ASSUME NEW i \in S
      PROVE  IsFiniteSet(below(i)) /\ Cardinality(below(i)) \in 0 .. (c - 1)
  <2>1. below(i) \in SUBSET S /\ i \notin below(i)
    OBVIOUS
  <2>2. IsFiniteSet(below(i)) /\ Cardinality(below(i)) <= c /\ Cardinality(below(i)) \in Nat
    BY <1>1, <2>1, FS_Subset, FS_CardinalityType
  <2>3. Cardinality(below(i)) # c
    BY <1>1, <2>1, FS_Subset
  <2> QED
    BY <1>1, <2>2, <2>3
<1>3. ASSUME NEW i \in S, NEW j \in S, <<i, j>> \in B
      PROVE  Cardinality(below(i)) < Cardinality(below(j))
  <2>1. below(i) \in SUBSET below(j) /\ i \in below(j) /\ i \notin below(i)
    BY <1>3
  <2> HIDE DEF below, c
  <2>2. IsFiniteSet(below(j)) /\ Cardinality(below(i)) \in Nat /\ Cardinality(below(j)) \in Nat
    BY <1>1, <1>2
  <2>3. Cardinality(below(i)) <= Cardinality(below(j))
    BY <2>1, <2>2, FS_Subset
  <2>4. Cardinality(below(i)) # Cardinality(below(j))
    BY <2>1, <2>2, FS_Subset
  <2> QED
    BY <2>2, <2>3, <2>4
<1>4. rank \in [S -> 1 .. c]
  <2>1. \A i \in S : Cardinality(below(i)) \in 0 .. (c - 1)
    BY <1>2
  <2> HIDE DEF below, c
  <2> QED
    BY <1>1, <2>1
<1>5. \A i, j \in S : rank[i] = rank[j] => i = j
  <2> SUFFICES ASSUME NEW i \in S, NEW j \in S, i # j PROVE rank[i] # rank[j]
    OBVIOUS
  <2>1. <<i, j>> \in B \/ <<j, i>> \in B
    OBVIOUS
  <2>2. Cardinality(below(i)) \in Nat /\ Cardinality(below(j)) \in Nat
    <3>1. Cardinality(below(i)) \in 0 .. (c - 1) /\ Cardinality(below(j)) \in 0 .. (c - 1)
      BY <1>2
    <3> HIDE DEF below, c
    <3> QED
      BY <1>1, <3>1
  <2>3. Cardinality(below(i)) < Cardinality(below(j)) \/ Cardinality(below(j)) < Cardinality(below(i))
    BY <1>3, <2>1
  <2> HIDE DEF below
  <2> QED
    BY <2>2, <2>3
<1>6. ASSUME NEW n \in 1 .. c PROVE \E i \in S : rank[i] = n
  <2> HIDE DEF rank
  <2>1. rank \in Injection(S, 1 .. c)
    BY <1>4, <1>5 DEF Injection, IsInjective
  <2>2. IsFiniteSet(1 .. c) /\ Cardinality(1 .. c) = c
    BY <1>1, FS_Interval
  <2>3. rank \in Surjection(S, 1 .. c)
    BY <2>1, <2>2, FS_Injection
  <2> QED
    BY <2>3 DEF Surjection
<1>7. ASSUME NEW n \in 1 .. c PROVE \E i \in S : Cardinality(below(i)) = n - 1
  <2>1. PICK i \in S : rank[i] = n
    BY <1>6
  <2>2. Cardinality(below(i)) \in Nat /\ Cardinality(below(i)) + 1 = n /\ n \in Nat
    BY <1>1, <1>2, <2>1
  <2> HIDE DEF below
  <2> QED
    BY <2>2
<1>8. \A i \in S : Cardinality(below(i)) \in 0 .. c - 1
  BY <1>2
<1>9. \A i, j \in S : Cardinality(below(i)) = Cardinality(below(j)) => i = j
  BY <1>5
<1> QED
  BY <1>1, <1>7, <1>8, <1>9

\* The elements of a set of numbers, in ascending order: each is there.
LEMMA AscendingIs ==
  ASSUME NEW S \in SUBSET Nat, IsFiniteSet(S)
  PROVE  /\ Cardinality(S) \in Nat /\ DOMAIN Ascending(S) = 1 .. Cardinality(S)
         /\ \A n \in 1 .. Cardinality(S) : Ascending(S)[n] \in S
         /\ \A i \in S : \E n \in 1 .. Cardinality(S) : Ascending(S)[n] = i
<1> DEFINE B == {p \in S \X S : p[1] < p[2]}
           c == Cardinality(S)
           below(i) == {j \in S : j < i}
           at(n) == CHOOSE i \in S : Cardinality({j \in S : j < i}) = n - 1
<1>1. \A i, j \in S : <<i, j>> \in B <=> i < j
  OBVIOUS
<1>2. \A i, j \in S : i \in Nat /\ j \in Nat
  OBVIOUS
<1>3. \A i \in S : {j \in S : <<j, i>> \in B} = below(i)
  BY <1>1
<1>4. /\ \A i \in S : <<i, i>> \notin B
      /\ \A i, j, k \in S : <<i, j>> \in B /\ <<j, k>> \in B => <<i, k>> \in B
      /\ \A i, j \in S : i # j => <<i, j>> \in B \/ <<j, i>> \in B
  <2> HIDE DEF B
  <2> QED
    BY <1>1, <1>2
<1>5. Ascending(S) = [n \in 1 .. c |-> at(n)]
  BY DEF Ascending, Sorted
<1> HIDE DEF B, c
<1>6. /\ c \in Nat
      /\ \A n \in 1 .. c : \E i \in S : Cardinality({j \in S : <<j, i>> \in B}) = n - 1
      /\ \A i \in S : Cardinality({j \in S : <<j, i>> \in B}) \in 0 .. c - 1
      /\ \A i, j \in S : Cardinality({k \in S : <<k, i>> \in B}) = Cardinality({k \in S : <<k, j>> \in B}) => i = j
  BY <1>4, EachRankTaken DEF c
<1>7. ASSUME NEW n \in 1 .. c PROVE at(n) \in S /\ Cardinality(below(at(n))) = n - 1
  <2>1. \E i \in S : Cardinality(below(i)) = n - 1
    BY <1>3, <1>6
  <2> QED
    BY <2>1
<1>8. ASSUME NEW i \in S PROVE \E n \in 1 .. c : at(n) = i
  <2>1. PICK m : m = Cardinality(below(i)) /\ m \in 0 .. c - 1
    BY <1>3, <1>6
  <2>2. PICK n : n = m + 1
    OBVIOUS
  <2>3. PICK j : j = at(n)
    OBVIOUS
  <2>4. j \in S /\ Cardinality(below(j)) = m
    <3>1. n \in 1 .. c /\ n - 1 = m
      BY <1>6, <2>1, <2>2
    <3>2. at(n) \in S /\ Cardinality(below(at(n))) = n - 1
      BY <1>7, <3>1
    <3> HIDE DEF at, below
    <3> QED
      BY <2>3, <3>1, <3>2
  <2> HIDE DEF below, at
  <2>5. i = j /\ n \in 1 .. c
    BY <1>3, <1>6, <2>1, <2>2, <2>4
  <2> QED
    BY <2>3, <2>5
<1> HIDE DEF at, below
<1> QED
  BY <1>5, <1>6, <1>7, <1>8 DEF c

\* The elements of a sequence that are in a set, and no others.
LEMMA ThoseAre ==
  ASSUME NEW X, NEW s \in Seq(X), NEW S
  PROVE  Those(s, S) \in Seq(X \cap S) /\ Range(Those(s, S)) = Range(s) \cap S
<1> DEFINE K == {k \in DOMAIN s : s[k] \in S}
           c == Cardinality(K)
           r == Those(s, S)
<1>1. DOMAIN s = 1 .. Len(s) /\ Len(s) \in Nat /\ \A k \in DOMAIN s : s[k] \in X
  BY LenProperties
<1>2. IsFiniteSet(K) /\ K \in SUBSET Nat
  <2>1. IsFiniteSet(1 .. Len(s))
    BY <1>1, FS_Interval
  <2>2. K \in SUBSET (1 .. Len(s))
    BY <1>1
  <2> QED
    BY <2>1, <2>2, FS_Subset
<1>3. /\ c \in Nat /\ DOMAIN Ascending(K) = 1 .. c
      /\ \A n \in 1 .. c : Ascending(K)[n] \in K
      /\ \A i \in K : \E n \in 1 .. c : Ascending(K)[n] = i
  BY <1>2, AscendingIs
<1>4. r = [n \in 1 .. c |-> s[Ascending(K)[n]]]
  BY DEF Those
<1>5. \A k \in K : k \in DOMAIN s /\ s[k] \in S
  OBVIOUS
<1>6. \A k \in DOMAIN s : s[k] \in S => k \in K
  OBVIOUS
<1> HIDE DEF K, c, r
<1>7. r \in [1 .. c -> X \cap S]
  BY <1>1, <1>3, <1>4, <1>5
<1>8. r \in Seq(X \cap S)
  BY <1>3, <1>7, SeqDef
<1>9. DOMAIN r = 1 .. c /\ \A n \in 1 .. c : r[n] = s[Ascending(K)[n]]
  BY <1>4
<1>10. ASSUME NEW n \in 1 .. c PROVE r[n] \in Range(s) \cap S
  <2>1. PICK k \in K : k = Ascending(K)[n]
    BY <1>3
  <2> QED
    BY <1>5, <1>9, <2>1 DEF Range
<1>11. ASSUME NEW x \in Range(s) \cap S PROVE x \in Range(r)
  <2>1. PICK k \in DOMAIN s : x = s[k]
    BY DEF Range
  <2>2. k \in K
    BY <1>6, <2>1
  <2>3. PICK n \in 1 .. c : Ascending(K)[n] = k
    BY <1>3, <2>2
  <2> QED
    BY <1>9, <2>1, <2>3 DEF Range
<1>12. Range(r) \subseteq Range(s) \cap S
  BY <1>9, <1>10 DEF Range
<1> QED
  BY <1>8, <1>11, <1>12 DEF r

\* A sequence without one element has the others.
LEMMA ButIs ==
  ASSUME NEW X, NEW s \in Seq(X), NEW x
  PROVE  But(s, x) \in Seq(X) /\ Range(But(s, x)) = Range(s) \ {x}
<1> DEFINE S == {s[k] : k \in DOMAIN s} \ {x}
<1>1. But(s, x) = Those(s, S)
  BY DEF But
<1>2. S = Range(s) \ {x}
  BY DEF Range
<1> HIDE DEF S
<1>3. But(s, x) \in Seq(X \cap S) /\ Range(But(s, x)) = Range(s) \cap S
  BY <1>1, ThoseAre
<1> QED
  BY <1>2, <1>3, SeqMonotonic

\* A finite set in some order is a sequence of its elements.
LEMMA SetToSeqIs ==
  ASSUME NEW S, IsFiniteSet(S)
  PROVE  SetToSeq(S) \in Seq(S)
<1> DEFINE c == Cardinality(S)
<1>1. c \in Nat /\ ExistsBijection(1 .. c, S)
  BY FS_CardinalityType
<1>2. PICK f \in Bijection(1 .. c, S) : TRUE
  BY <1>1 DEF ExistsBijection
<1>3. f \in [1 .. c -> S] /\ IsInjective(f)
  BY <1>2 DEF Bijection, Injection, IsInjective
<1>4. SetToSeq(S) = CHOOSE g \in [1 .. c -> S] : IsInjective(g)
  BY DEF SetToSeq
<1> HIDE DEF c
<1>5. SetToSeq(S) \in [1 .. c -> S]
  BY <1>3, <1>4, Zenon
<1> QED
  BY <1>1, <1>5, SeqDef

\* A set of numbers has a least one.
LEMMA LeastOf ==
  ASSUME NEW S \in SUBSET Nat, S # {}
  PROVE  \E n \in S : \A m \in S : n <= m
<1> DEFINE R == OpToRel(<, Nat)
<1>1. IsWellFoundedOn(R, Nat)
  BY NatLessThanWellFounded
<1>2. \A a, b \in Nat : << a, b >> \in R <=> a < b
  BY DEF OpToRel
<1> HIDE DEF R
<1>3. \E n \in S : \A m \in S : ~ (<< m, n >> \in R)
  BY <1>1, WFMin
<1>4. \A n, m \in S : n \in Nat /\ m \in Nat /\ (n <= m <=> ~ (m < n))
  OBVIOUS
<1> QED
  BY <1>2, <1>3, <1>4, Zenon

-----------------------------------------------------------------------------
(* HubWrites.  What an edit has read of the members and of the order, and   *)
(* is about to write back, is what the hub has, unless the read failed or   *)
(* another edit came in between.                                            *)

FavsOK(favs) == IsFiniteSet(favs) /\ Ids(favs) \subseteq Nat \ {0}
RowOK(row)   == FavsOK(row.favs) /\ row.order \in Seq(Range(row.order))

JobOK(job) ==
  /\ job.op \in {"assign", "add", "reorder", "remove"} => job.act \in Acts
  /\ job.op = "add" => job.fresh \in Nat
  /\ job.ids \in Seq(Range(job.ids))

\* The members that an assignment goes by, and the macro that it extends.
MembersHeld(job, h) ==
  job.op = "assign" /\ job.at # "map" /\ ~job.misread =>
    /\ Members(h, job.act) \subseteq job.members \cup {job.dev}
    /\ job.at = "save on" => job.source = h[job.act].on
    /\ job.at = "save off" => job.source = h[job.act].off

\* The order that an edit of favorites goes by.
OrderHeld(job, h, v) ==
  ~job.misread =>
    /\ job.op = "add" /\ job.at \in {"map", "stage"} /\ v = "X1" =>
         Range(h[job.act].order) \subseteq Range(job.ids)
    /\ job.op = "remove" /\ job.at = "delete" =>
         Range(h[job.act].order) \ {job.fresh} \subseteq Range(job.ids)
    /\ job.op = "remove" /\ job.at = "stage" =>
         Range(h[job.act].order) \subseteq Range(job.ids)

JobHolds(job, h, v) == JobOK(job) /\ MembersHeld(job, h) /\ OrderHeld(job, h, v)

KeepInv ==
  /\ version \in {"X1", "X1S"} /\ sort \in Seq(Range(sort))
  /\ \A a \in Acts : RowOK(hub[a])
  /\ \A t \in Threads : JobHolds(jobs[t], hub, version)

-----------------------------------------------------------------------------

LEMMA IdleHolds ==
  ASSUME NEW h, NEW v PROVE JobHolds(Idle, h, v) /\ Sound(Idle)
<1>1. Idle.op = "none" /\ Idle.ids = << >> /\ Sound(Idle)
  BY EmptyIs DEF Idle
<1>2. << >> \in Seq(Range(<< >>))
  OBVIOUS
<1> QED
  BY <1>1, <1>2 DEF JobHolds, JobOK, MembersHeld, OrderHeld

\* An edit that others leave alone, or that knows that they did not.
LEMMA StillHolds ==
  ASSUME NEW job, DOMAIN job = Fields, NEW h, NEW g, NEW v, JobHolds(job, h, v), NEW m,
         ~m => ~job.misread /\ (job.act \in Acts => g[job.act] = h[job.act])
  PROVE  JobHolds([job EXCEPT !.misread = m], g, v)
<1>1. PICK k : k = [job EXCEPT !.misread = m]
  OBVIOUS
<1>2. /\ k.op = job.op /\ k.at = job.at /\ k.act = job.act /\ k.fresh = job.fresh /\ k.ids = job.ids
      /\ k.members = job.members /\ k.dev = job.dev /\ k.source = job.source
  BY <1>1 DEF Fields
<1>3. ~k.misread => ~job.misread /\ (job.act \in Acts => g[job.act] = h[job.act])
  BY <1>1 DEF Fields
<1>4. JobOK(k)
  BY <1>2 DEF JobHolds, JobOK
<1>5. MembersHeld(k, g)
  BY <1>2, <1>3 DEF JobHolds, JobOK, MembersHeld, Members
<1>6. OrderHeld(k, g, v)
  BY <1>2, <1>3 DEF JobHolds, JobOK, OrderHeld
<1> QED
  BY <1>1, <1>4, <1>5, <1>6 DEF JobHolds

\* The three ways in which the edits move on.
LEMMA MovedHolds ==
  ASSUME Shape, KeepInv, NEW t \in Threads, NEW job, NEW h, Moved(t, job, h), hub' = h,
         JobHolds(job, h, version), \A a \in Acts : RowOK(h[a]),
         version' = version, sort' \in Seq(Range(sort'))
  PROVE  KeepInv'
<1> DEFINE hit(u) == jobs[u].misread \/ \E a \in Acts : jobs[u].act = a /\ h[a] # hub[a]
<1>1. jobs' = [u \in Threads |-> IF u = t THEN job ELSE [jobs[u] EXCEPT !.misread = hit(u)]]
  BY DEF Moved
<1>2. ASSUME NEW u \in Threads
      PROVE ~hit(u) => ~jobs[u].misread /\ (jobs[u].act \in Acts => h[jobs[u].act] = hub[jobs[u].act])
  OBVIOUS
<1> HIDE DEF hit
<1>3. ASSUME NEW u \in Threads PROVE JobHolds(jobs'[u], h, version)
  <2>1. CASE u = t
    BY <1>1, <2>1
  <2>2. CASE u # t
    <3>1. jobs'[u] = [jobs[u] EXCEPT !.misread = hit(u)]
      BY <1>1, <2>2
    <3>2. DOMAIN jobs[u] = Fields /\ JobHolds(jobs[u], hub, version)
      BY DEF Shape, Sound, KeepInv
    <3>3. JobHolds([jobs[u] EXCEPT !.misread = hit(u)], h, version)
      BY <1>2, <3>2, StillHolds
    <3> QED
      BY <3>1, <3>3
  <2> QED
    BY <2>1, <2>2
<1> QED
  BY <1>3 DEF KeepInv

LEMMA AloneHolds ==
  ASSUME Shape, KeepInv, NEW t \in Threads, NEW job, jobs' = [jobs EXCEPT ![t] = job], UNCHANGED hub,
         JobHolds(job, hub, version), version' = version, sort' \in Seq(Range(sort'))
  PROVE  KeepInv'
<1>1. DOMAIN jobs = Threads
  BY DEF Shape
<1>2. \A u \in Threads : jobs'[u] = IF u = t THEN job ELSE jobs[u]
  BY <1>1
<1>3. \A u \in Threads : JobHolds(jobs'[u], hub, version)
  BY <1>2 DEF KeepInv
<1> QED
  BY <1>3 DEF KeepInv

LEMMA GivenUpHolds ==
  ASSUME Shape, KeepInv, NEW t \in Threads, NEW h, Abandon(t, h), \A a \in Acts : RowOK(h[a]),
         version' = version, sort' \in Seq(Range(sort'))
  PROVE  KeepInv'
BY MovedHolds, IdleHolds DEF Abandon

LEMMA OutcomeHolds ==
  ASSUME Shape, KeepInv, NEW t \in Threads, NEW h, NEW job, Step(t, h, job),
         JobHolds(job, h, version), \A a \in Acts : RowOK(h[a]), UNCHANGED <<version, sort>>
  PROVE  KeepInv'
<1>1. sort' \in Seq(Range(sort')) /\ version' = version /\ \A a \in Acts : RowOK(hub[a])
  BY DEF KeepInv
<1>2. Outcome(t, h, job)
  BY StepIs
<1>3. CASE hub' = h /\ Moved(t, job, h)
  BY <1>1, <1>3, MovedHolds
<1>4. CASE Abandon(t, h)
  BY <1>1, <1>4, GivenUpHolds
<1>5. CASE Abandon(t, hub)
  BY <1>1, <1>5, GivenUpHolds
<1> QED
  BY <1>2, <1>3, <1>4, <1>5 DEF Outcome

LEMMA BegunHolds ==
  ASSUME Shape, KeepInv, NEW t \in Threads, NEW job, Begin(t, job), JobOK(job),
         job.op = "assign" => job.at = "map",
         job.op = "add" /\ version = "X1" => job.at = "order",
         job.op = "remove" => job.at = "order"
  PROVE  KeepInv'
<1>1. JobHolds(job, hub, version)
  BY DEF JobHolds, MembersHeld, OrderHeld
<1>2. jobs' = [jobs EXCEPT ![t] = job] /\ UNCHANGED <<hub, version, sort>>
  BY DEF Begin
<1> QED
  BY <1>1, <1>2, AloneHolds DEF KeepInv

\* The hub gives a new favorite an id that none has: among one more numbers than
\* there are favorites one is free.
LEMMA FreeIdIs ==
  ASSUME NEW favs, FavsOK(favs), NEW d
  PROVE  FavsOK(WithFavorite(favs, d)) /\ FreeId(favs) \in Nat \ {0}
<1> DEFINE n == Cardinality(favs)
           ids == Ids(favs)
           f == [p \in favs |-> p[1]]
           D == {i \in 1 .. (n + 1) : i \notin ids}
<1>1. n \in Nat /\ IsFiniteSet(favs) /\ ids \subseteq Nat \ {0}
  BY FS_CardinalityType DEF FavsOK
<1>2. f \in Surjection(favs, ids)
  BY DEF Surjection, Ids
<1> HIDE DEF f
<1>3. IsFiniteSet(ids) /\ Cardinality(ids) <= n
  BY <1>1, <1>2, FS_Surjection
<1> HIDE DEF ids, n
<1>4. D # {}
  <2> SUFFICES ASSUME D = {} PROVE FALSE
    OBVIOUS
  <2>1. (1 .. (n + 1)) \in SUBSET ids
    OBVIOUS
  <2>2. Cardinality(1 .. (n + 1)) <= Cardinality(ids)
    BY <1>3, <2>1, FS_Subset
  <2>3. Cardinality(1 .. (n + 1)) = n + 1 /\ Cardinality(ids) \in Nat
    BY <1>1, <1>3, FS_Interval, FS_CardinalityType
  <2> QED
    BY <1>1, <1>3, <2>2, <2>3
<1>5. D \in SUBSET Nat
  BY <1>1
<1>6. PICK m \in D : \A k \in D : m <= k
  BY <1>4, <1>5, LeastOf
<1>7. m \in 1 .. (n + 1) /\ m \notin ids /\ 1 .. (m - 1) \subseteq ids
  BY <1>1, <1>6
<1>8. FreeId(favs) = CHOOSE i \in 1 .. (n + 1) : i \notin ids /\ 1 .. (i - 1) \subseteq ids
  BY DEF FreeId, n, ids
<1>9. PICK i : i = FreeId(favs)
  OBVIOUS
<1>10. i \in 1 .. (n + 1)
  BY <1>7, <1>8, <1>9, Zenon
<1>11. i \in Nat \ {0}
  BY <1>1, <1>10
<1>12. WithFavorite(favs, d) = favs \cup {<<i, d>>}
  BY <1>9 DEF WithFavorite
<1>13. Ids(favs \cup {<<i, d>>}) = ids \cup {i}
  <2>1. PICK p : p = <<i, d>>
    OBVIOUS
  <2>2. p[1] = i
    BY <2>1
  <2>3. Ids(favs \cup {p}) = Ids(favs) \cup {p[1]}
    BY DEF Ids
  <2> QED
    BY <2>1, <2>2, <2>3 DEF ids
<1>14. IsFiniteSet(favs \cup {<<i, d>>})
  BY <1>1, FS_AddElement
<1> QED
  BY <1>1, <1>9, <1>11, <1>12, <1>13, <1>14 DEF FavsOK

\* Favorites that some are taken from, and sequences over what occurs in them.
LEMMA FewerOK ==
  ASSUME NEW favs, FavsOK(favs), NEW kept \in SUBSET favs
  PROVE  FavsOK(kept)
<1>1. IsFiniteSet(kept)
  BY FS_Subset DEF FavsOK
<1> QED
  BY <1>1 DEF FavsOK, Ids

LEMMA InRange ==
  ASSUME NEW X, NEW s \in Seq(X) PROVE s \in Seq(Range(s)) /\ Range(s) \subseteq X
<1>1. Len(s) \in Nat /\ s \in [1 .. Len(s) -> X] /\ DOMAIN s = 1 .. Len(s)
  BY LenProperties
<1>2. s \in [1 .. Len(s) -> Range(s)]
  BY <1>1 DEF Range
<1>3. s \in Seq(Range(s))
  BY <1>1, <1>2, SeqDef
<1> QED
  BY <1>1, <1>3 DEF Range

-----------------------------------------------------------------------------

\* Each operation keeps what its own edit and those of others go by.
LEMMA AssignHolds ==
  ASSUME Shape, KeepInv, NEW t \in Threads,
         \/ \E a \in Acts, d \in Devs : AddDevice(t, a, d)
         \/ MapRead(t) \/ ConfirmMembers(t)
         \/ \E key \in {"on", "off"} : FetchMacro(t, key) \/ SaveMacro(t, key)
         \/ AddDeviceEnds(t)
  PROVE  KeepInv'
<1> DEFINE job == jobs[t]
           a == jobs[t].act
<1>0. /\ DOMAIN jobs = Threads /\ DOMAIN job = Fields /\ DOMAIN hub = Acts
      /\ \A b \in Acts : DOMAIN hub[b] = Parts /\ RowOK(hub[b])
      /\ JobHolds(job, hub, version) /\ JobOK(job)
      /\ sort \in Seq(Range(sort)) /\ version \in {"X1", "X1S"}
  BY DEF Shape, Sound, KeepInv, JobHolds
<1>1. ASSUME NEW b \in Acts, NEW d \in Devs, AddDevice(t, b, d) PROVE KeepInv'
  <2>1. PICK j : j = [Idle EXCEPT !.op = "assign", !.at = "map", !.act = b, !.dev = d]
    OBVIOUS
  <2>2. j.op = "assign" /\ j.at = "map" /\ j.act = b /\ j.ids = << >>
    BY <2>1 DEF Idle
  <2>3. JobOK(j)
    BY <2>2 DEF JobOK
  <2>4. Begin(t, j)
    BY <1>1, <2>1 DEF AddDevice
  <2> QED
    BY <2>2, <2>3, <2>4, BegunHolds
<1>2. CASE MapRead(t)
  <2>1. At(t, "assign", "map") /\ UNCHANGED <<hub, version, sort>>
    BY <1>2 DEF MapRead
  <2>2. CASE Abandon(t, hub)
    BY <1>0, <2>1, <2>2, GivenUpHolds
  <2>3. ASSUME NEW read \in SUBSET Members(hub, a),
               Store([tab EXCEPT ![a].members = @ \cup read], has \cup {<<a, "members">>}, unread,
                     IF read = Members(hub, a) THEN {} ELSE {<<a, "members">>}),
               jobs' = [jobs EXCEPT ![t].at = "confirm", ![t].misread = read # Members(hub, a),
                     ![t].members = IF tab'[a].members # {} THEN tab'[a].members
                                    ELSE {f[2] : f \in tab[a].favs}]
        PROVE  KeepInv'
    <3>0. "members" \in Tables
      BY DEF Tables, Flagged
    <3>1. a \in Acts /\ DOMAIN tab = Acts /\ DOMAIN tab[a] = Tables /\ "members" \in Tables
      BY <1>0, <2>1, <3>0 DEF Shape, At, JobOK
    <3>2. tab' = [tab EXCEPT ![a].members = @ \cup read]
      BY <2>3 DEF Store
    <3>3. tab'[a].members = tab[a].members \cup read
      BY <3>1, <3>2
    <3>4. PICK ms : ms = IF tab'[a].members # {} THEN tab'[a].members ELSE {f[2] : f \in tab[a].favs}
      OBVIOUS
    <3>5. read \subseteq ms
      BY <3>3, <3>4
    <3>6. PICK mis : mis = (read # Members(hub, a))
      OBVIOUS
    <3>7. PICK j : j = [job EXCEPT !.at = "confirm", !.misread = mis, !.members = ms]
      OBVIOUS
    <3>8. /\ j.op = job.op /\ j.at = "confirm" /\ j.act = a /\ j.members = ms
          /\ j.fresh = job.fresh /\ j.ids = job.ids /\ j.misread = mis
      BY <1>0, <3>7 DEF Fields
    <3>9. jobs' = [jobs EXCEPT ![t] = j]
      BY <1>0, <2>3, <3>4, <3>6, <3>7
    <3>10. JobOK(j)
      BY <1>0, <3>8 DEF JobOK
    <3>11. MembersHeld(j, hub) /\ OrderHeld(j, hub, version)
      BY <2>1, <3>5, <3>6, <3>8 DEF At, MembersHeld, OrderHeld
    <3> QED
      BY <1>0, <2>1, <3>9, <3>10, <3>11, AloneHolds DEF JobHolds
  <2> QED
    BY <1>2, <2>2, <2>3 DEF MapRead
<1>3. CASE ConfirmMembers(t)
  <2>1. PICK j : j = [job EXCEPT !.at = "fetch on"]
    OBVIOUS
  <2>2. At(t, "assign", "confirm") /\ Step(t, hub, j) /\ UNCHANGED <<version, sort>>
    BY <1>3, <2>1 DEF ConfirmMembers, lists
  <2>3. /\ j.op = job.op /\ j.at = "fetch on" /\ j.act = a /\ j.members = job.members /\ j.dev = job.dev
        /\ j.fresh = job.fresh /\ j.ids = job.ids /\ j.misread = job.misread
    BY <1>0, <2>1 DEF Fields
  <2>4. JobHolds(j, hub, version)
    BY <1>0, <2>2, <2>3 DEF JobHolds, JobOK, MembersHeld, OrderHeld, At
  <2> QED
    BY <1>0, <2>2, <2>4, OutcomeHolds
<1>4. ASSUME NEW key \in {"on", "off"}, FetchMacro(t, key) PROVE KeepInv'
  <2>1. PICK source : source = IF key = "on" THEN hub[a].on ELSE hub[a].off
    OBVIOUS
  <2>2. PICK j : j = [job EXCEPT !.at = IF key = "on" THEN "save on" ELSE "save off", !.source = source]
    OBVIOUS
  <2>3. /\ At(t, "assign", IF key = "on" THEN "fetch on" ELSE "fetch off")
        /\ Step(t, hub, j) /\ UNCHANGED <<version, sort>>
    BY <1>4, <2>1, <2>2 DEF FetchMacro, lists
  <2>4. /\ j.op = job.op /\ j.at = (IF key = "on" THEN "save on" ELSE "save off") /\ j.act = a
        /\ j.members = job.members /\ j.dev = job.dev /\ j.source = source
        /\ j.fresh = job.fresh /\ j.ids = job.ids /\ j.misread = job.misread
    BY <1>0, <2>2 DEF Fields
  <2>5. job.op = "assign" /\ job.at # "map"
    BY <2>3 DEF At
  <2>6. JobOK(j)
    BY <1>0, <2>4 DEF JobOK
  <2>7. MembersHeld(j, hub)
    BY <1>0, <2>1, <2>4, <2>5 DEF JobHolds, MembersHeld
  <2>8. OrderHeld(j, hub, version)
    BY <2>4, <2>5 DEF OrderHeld
  <2> QED
    BY <1>0, <2>3, <2>6, <2>7, <2>8, OutcomeHolds DEF JobHolds
<1>5. ASSUME NEW key \in {"on", "off"}, SaveMacro(t, key) PROVE KeepInv'
  <2>1. PICK j : j = [job EXCEPT !.at = IF key = "on" THEN "fetch off" ELSE "end"]
    OBVIOUS
  <2>2. PICK rows : rows = SavedRows(job)
    OBVIOUS
  <2>3. PICK h : h = WithMacro(key, rows, a)
    OBVIOUS
  <2>4. /\ At(t, "assign", IF key = "on" THEN "save on" ELSE "save off")
        /\ Step(t, h, j) /\ UNCHANGED <<version, sort>>
    BY <1>5, <2>1, <2>2, <2>3 DEF SaveMacro, lists
  <2>5. /\ j.op = job.op /\ j.at = (IF key = "on" THEN "fetch off" ELSE "end") /\ j.act = a
        /\ j.members = job.members /\ j.dev = job.dev
        /\ j.fresh = job.fresh /\ j.ids = job.ids /\ j.misread = job.misread
    BY <1>0, <2>1 DEF Fields
  <2>6. job.op = "assign" /\ job.at # "map" /\ a \in Acts
    BY <1>0, <2>4 DEF At, JobOK
  <2>7. /\ DOMAIN h = Acts /\ \A b \in Acts \ {a} : h[b] = hub[b]
        /\ h[a].favs = hub[a].favs /\ h[a].order = hub[a].order
        /\ h[a].on = (IF key = "on" THEN rows ELSE hub[a].on)
        /\ h[a].off = (IF key = "on" THEN hub[a].off ELSE rows)
    BY <1>0, <2>3, <2>6 DEF WithMacro, Parts
  <2>8. \A b \in Acts : RowOK(h[b])
    BY <1>0, <2>6, <2>7 DEF RowOK
  <2>9. JobOK(j)
    BY <1>0, <2>5 DEF JobOK
  <2>10. rows \subseteq job.members \cup {job.dev}
    BY <2>2 DEF SavedRows
  <2>11. MembersHeld(j, h)
    BY <1>0, <2>5, <2>6, <2>7, <2>10 DEF JobHolds, MembersHeld, Members
  <2>12. OrderHeld(j, h, version)
    BY <2>5, <2>6 DEF OrderHeld
  <2> QED
    BY <1>0, <2>4, <2>8, <2>9, <2>11, <2>12, OutcomeHolds DEF JobHolds
<1>6. CASE AddDeviceEnds(t)
  <2>1. Moved(t, Idle, hub) /\ UNCHANGED <<hub, version, sort>>
    BY <1>6 DEF AddDeviceEnds, lists
  <2> QED
    BY <1>0, <2>1, MovedHolds, IdleHolds
<1> HIDE DEF job, a
<1> QED
  BY <1>1, <1>2, <1>3, <1>4, <1>5, <1>6

\* Dropping rows and reordering leave the favorites of an activity in order.
LEMMA RowsStay ==
  ASSUME NEW row, RowOK(row), NEW favs, FavsOK(favs), NEW s, s \in Seq(Range(s)),
         NEW g, g.favs = favs, g.order = s
  PROVE  RowOK(g)
BY DEF RowOK

LEMMA ThoseOK ==
  ASSUME NEW X, NEW s \in Seq(X), NEW S
  PROVE  Those(s, S) \in Seq(Range(Those(s, S))) /\ Range(Those(s, S)) = Range(s) \cap S
<1>1. Those(s, S) \in Seq(X \cap S) /\ Range(Those(s, S)) = Range(s) \cap S
  BY ThoseAre
<1> QED
  BY <1>1, InRange

LEMMA ButOK ==
  ASSUME NEW X, NEW s \in Seq(X), NEW x
  PROVE  But(s, x) \in Seq(Range(But(s, x))) /\ Range(But(s, x)) = Range(s) \ {x}
<1>1. But(s, x) \in Seq(X) /\ Range(But(s, x)) = Range(s) \ {x}
  BY ButIs
<1> QED
  BY <1>1, InRange

\* The order that is sent, and what of the favorites on display it leaves out.
LEMMA StagedIs ==
  ASSUME NEW job, JobOK(job), job.op \in OfFavorites, version \in {"X1", "X1S"}
  PROVE  /\ \E X : Staged(job) \in Seq(X)
         /\ job.op # "add" => Staged(job) = job.ids
         /\ job.op = "add" /\ version = "X1" => Range(job.ids) \subseteq Range(Staged(job))
         /\ job.op = "add" /\ version = "X1S" =>
              \A i \in Nat \ {0} : i <= job.fresh => i \in Range(Staged(job))
<1> DEFINE n == IF job.fresh = 0 THEN 4 ELSE job.fresh
<1>1. job.ids \in Seq(Range(job.ids))
  BY DEF JobOK
<1>2. CASE job.op # "add"
  BY <1>1, <1>2 DEF Staged
<1>3. CASE job.op = "add" /\ version = "X1S"
  <2>1. Staged(job) = UpTo(n) /\ n \in Nat /\ job.fresh \in Nat
    BY <1>3 DEF Staged, JobOK
  <2>2. UpTo(n) = [i \in 1 .. n |-> i]
    BY DEF UpTo
  <2> HIDE DEF n
  <2>3. UpTo(n) \in Seq(Nat)
    <3>1. UpTo(n) \in [1 .. n -> Nat]
      BY <2>1, <2>2
    <3> QED
      BY <2>1, <3>1, SeqDef
  <2>4. ASSUME NEW i \in Nat \ {0}, i <= job.fresh PROVE i \in Range(Staged(job))
    <3>1. n = job.fresh
      BY <2>1, <2>4 DEF n
    <3>2. i \in 1 .. n
      BY <2>1, <2>4, <3>1
    <3>3. i \in DOMAIN UpTo(n) /\ UpTo(n)[i] = i
      BY <2>2, <3>2
    <3> QED
      BY <2>1, <3>3 DEF Range
  <2> QED
    BY <1>3, <2>1, <2>3, <2>4
<1>4. CASE job.op = "add" /\ version = "X1"
  <2>1. CASE job.fresh # 0
    <3>1. PICK s : s = Append(job.ids, job.fresh)
      OBVIOUS
    <3>2. Staged(job) = s
      BY <1>4, <2>1, <3>1 DEF Staged
    <3>3. job.ids \in Seq(Range(job.ids) \cup {job.fresh})
      BY <1>1, SeqMonotonic
    <3>4. s \in Seq(Range(job.ids) \cup {job.fresh})
      BY <3>1, <3>3, AppendProperties
    <3>5. /\ Len(s) = Len(job.ids) + 1 /\ Len(job.ids) \in Nat
          /\ \A k \in 1 .. Len(job.ids) : s[k] = job.ids[k]
          /\ DOMAIN job.ids = 1 .. Len(job.ids) /\ DOMAIN s = 1 .. Len(s)
      BY <3>1, <3>3, <3>4, AppendProperties, LenProperties
    <3>6. Range(job.ids) \subseteq Range(s)
      BY <3>5 DEF Range
    <3> QED
      BY <1>4, <3>2, <3>4, <3>6
  <2>2. CASE job.fresh = 0 /\ job.ids # << >>
    BY <1>1, <1>4, <2>2 DEF Staged
  <2>3. CASE job.fresh = 0 /\ job.ids = << >>
    <3>1. Staged(job) = <<1>> /\ <<1>> \in Seq({1}) /\ Range(job.ids) = {}
      BY <1>4, <2>3 DEF Staged, Range
    <3> QED
      BY <1>4, <3>1
  <2> QED
    BY <2>1, <2>2, <2>3
<1> QED
  BY <1>2, <1>3, <1>4

LEMMA ReadOrderHolds ==
  ASSUME Shape, KeepInv, NEW t \in Threads, ReadOrder(t)
  PROVE  KeepInv'
<1> DEFINE job == jobs[t]
           a == jobs[t].act
           next == WithOrder(job, hub[a].order)
<1>0. /\ DOMAIN jobs = Threads /\ DOMAIN job = Fields /\ JobOK(job)
      /\ sort \in Seq(Range(sort)) /\ version \in {"X1", "X1S"}
      /\ \A b \in Acts : RowOK(hub[b])
  BY DEF Shape, Sound, KeepInv, JobHolds
<1>1. job.at = "order" /\ UNCHANGED <<hub, version, sort>> /\ job.op \in OfFavorites /\ a \in Acts
  BY DEF ReadOrder, Shape, Sound, KeepInv, JobHolds, JobOK, OfFavorites
<1>2. hub[a].order \in Seq(Range(hub[a].order))
  BY <1>0, <1>1 DEF RowOK
<1>3. PICK j : j = [next EXCEPT !.misread = FALSE]
  OBVIOUS
<1>4. CASE jobs' = [jobs EXCEPT ![t] = Idle]
  BY <1>0, <1>1, <1>4, AloneHolds, IdleHolds
<1>5. CASE jobs' = [jobs EXCEPT ![t] = j]
  <2>1. CASE job.op = "add"
    <3>1. next = [job EXCEPT !.at = "map", !.ids = hub[a].order]
      BY <2>1 DEF WithOrder
    <3>2. j.op = "add" /\ j.at = "map" /\ j.ids = hub[a].order /\ j.act = a /\ j.fresh = job.fresh
      BY <1>0, <1>3, <2>1, <3>1 DEF Fields
    <3>3. JobHolds(j, hub, version)
      BY <1>0, <1>1, <1>2, <2>1, <3>2 DEF JobHolds, JobOK, MembersHeld, OrderHeld
    <3> QED
      BY <1>0, <1>1, <1>5, <3>3, AloneHolds
  <2>2. CASE job.op = "reorder"
    <3>1. PICK ids : ids = Those(job.ids, Known(a))
      OBVIOUS
    <3>2. next = [job EXCEPT !.at = "stage", !.ids = ids]
      BY <2>2, <3>1 DEF WithOrder
    <3>3. ids \in Seq(Range(ids))
      BY <1>0, <3>1, ThoseOK DEF JobOK
    <3>4. j.op = "reorder" /\ j.at = "stage" /\ j.ids = ids /\ j.act = a /\ j.fresh = job.fresh
      BY <1>0, <1>3, <2>2, <3>2 DEF Fields
    <3>5. JobHolds(j, hub, version)
      BY <1>1, <3>3, <3>4 DEF JobHolds, JobOK, MembersHeld, OrderHeld
    <3> QED
      BY <1>0, <1>1, <1>5, <3>5, AloneHolds
  <2>3. CASE job.op = "remove"
    <3>1. PICK ids : ids = But(hub[a].order, job.fresh)
      OBVIOUS
    <3>2. next = [job EXCEPT !.at = "delete", !.ids = ids]
      BY <2>3, <3>1 DEF WithOrder
    <3>3. ids \in Seq(Range(ids)) /\ Range(ids) = Range(hub[a].order) \ {job.fresh}
      BY <1>2, <3>1, ButOK
    <3>4. j.op = "remove" /\ j.at = "delete" /\ j.ids = ids /\ j.act = a /\ j.fresh = job.fresh
      BY <1>0, <1>3, <2>3, <3>2 DEF Fields
    <3>5. JobHolds(j, hub, version)
      BY <1>1, <3>3, <3>4 DEF JobHolds, JobOK, MembersHeld, OrderHeld
    <3> QED
      BY <1>0, <1>1, <1>5, <3>5, AloneHolds
  <2> QED
    BY <1>1, <2>1, <2>2, <2>3 DEF OfFavorites
<1>6. ASSUME NEW k, k = [job EXCEPT !.at = "map", !.misread = TRUE], job.op = "add",
             jobs' = [jobs EXCEPT ![t] = k]
      PROVE  KeepInv'
  <2>1. /\ k.op = "add" /\ k.at = "map" /\ k.ids = job.ids /\ k.act = a /\ k.fresh = job.fresh
        /\ k.misread
    BY <1>0, <1>6 DEF Fields
  <2>2. JobHolds(k, hub, version)
    BY <1>0, <1>6, <2>1 DEF JobHolds, JobOK, MembersHeld, OrderHeld
  <2> QED
    BY <1>0, <1>1, <1>6, <2>2, AloneHolds
<1>7. \/ jobs' = [jobs EXCEPT ![t] = Idle]
      \/ jobs' = [jobs EXCEPT ![t] = j]
      \/ job.op = "add" /\ jobs' = [jobs EXCEPT ![t] = [job EXCEPT !.at = "map", !.misread = TRUE]]
  BY <1>3 DEF ReadOrder
<1> QED
  BY <1>4, <1>5, <1>6, <1>7

LEMMA FavoritesHold ==
  ASSUME Shape, KeepInv, NEW t \in Threads,
         \/ \E a \in Acts, d \in Devs : AddFavorite(t, a, d)
         \/ \E a \in Acts, ids \in Orders : ReorderFavorites(t, a, ids)
         \/ \E a \in Acts, id \in FavIds : DeleteFavorite(t, a, id)
         \/ MapFavorite(t) \/ DropFavorite(t) \/ StageOrder(t) \/ CommitFavorites(t)
  PROVE  KeepInv'
<1> DEFINE job == jobs[t]
           a == jobs[t].act
<1>0. /\ DOMAIN jobs = Threads /\ DOMAIN job = Fields /\ DOMAIN hub = Acts
      /\ \A b \in Acts : DOMAIN hub[b] = Parts /\ RowOK(hub[b])
      /\ JobHolds(job, hub, version) /\ JobOK(job)
      /\ sort \in Seq(Range(sort)) /\ version \in {"X1", "X1S"}
  BY DEF Shape, Sound, KeepInv, JobHolds
<1>1. ASSUME NEW b \in Acts, NEW d \in Devs, AddFavorite(t, b, d) PROVE KeepInv'
  <2>1. PICK j : j = [Idle EXCEPT !.op = "add", !.at = IF version = "X1" THEN "order" ELSE "map",
                                  !.act = b, !.dev = d]
    OBVIOUS
  <2>2. /\ j.op = "add" /\ j.at = (IF version = "X1" THEN "order" ELSE "map") /\ j.act = b
        /\ j.ids = << >> /\ j.fresh = 0
    BY <2>1 DEF Idle
  <2>3. JobOK(j)
    BY <2>2 DEF JobOK
  <2>4. Begin(t, j)
    BY <1>1, <2>1 DEF AddFavorite
  <2> QED
    BY <2>2, <2>3, <2>4, BegunHolds
<1>2. ASSUME NEW b \in Acts, NEW ids \in Orders, ReorderFavorites(t, b, ids) PROVE KeepInv'
  <2>1. PICK j : j = [Idle EXCEPT !.op = "reorder", !.at = "order", !.act = b, !.ids = ids]
    OBVIOUS
  <2>2. j.op = "reorder" /\ j.at = "order" /\ j.act = b /\ j.ids = ids
    BY <2>1 DEF Idle
  <2>3. \E n \in 1 .. 2 : ids \in [1 .. n -> FavIds]
    BY DEF Orders
  <2>4. ids \in Seq(FavIds)
    BY <2>3, SeqDef
  <2>5. JobOK(j)
    BY <2>2, <2>4, InRange DEF JobOK
  <2>6. Begin(t, j)
    BY <1>2, <2>1 DEF ReorderFavorites
  <2> QED
    BY <2>2, <2>5, <2>6, BegunHolds
<1>3. ASSUME NEW b \in Acts, NEW id \in FavIds, DeleteFavorite(t, b, id) PROVE KeepInv'
  <2>1. PICK j : j = [Idle EXCEPT !.op = "remove", !.at = "order", !.act = b, !.fresh = id]
    OBVIOUS
  <2>2. j.op = "remove" /\ j.at = "order" /\ j.act = b /\ j.ids = << >>
    BY <2>1 DEF Idle
  <2>3. JobOK(j)
    BY <2>2 DEF JobOK
  <2>4. Begin(t, j)
    BY <1>3, <2>1 DEF DeleteFavorite
  <2> QED
    BY <2>2, <2>3, <2>4, BegunHolds
<1>4. CASE MapFavorite(t)
  <2>1. At(t, "add", "map") /\ UNCHANGED <<version, sort>> /\ a \in Acts
    BY <1>0, <1>4 DEF MapFavorite, lists, At, JobOK
  <2>2. PICK once : once = [hub EXCEPT ![a].favs = WithFavorite(@, job.dev)]
    OBVIOUS
  <2>3. PICK twice : twice = [once EXCEPT ![a].favs = WithFavorite(@, job.dev)]
    OBVIOUS
  <2>4. /\ DOMAIN once = Acts /\ \A b \in Acts \ {a} : once[b] = hub[b]
        /\ once[a].favs = WithFavorite(hub[a].favs, job.dev) /\ once[a].order = hub[a].order
        /\ DOMAIN once[a] = Parts
    BY <1>0, <2>1, <2>2 DEF Parts
  <2>5. /\ \A b \in Acts \ {a} : twice[b] = hub[b]
        /\ twice[a].favs = WithFavorite(once[a].favs, job.dev) /\ twice[a].order = hub[a].order
    BY <2>1, <2>3, <2>4 DEF Parts
  <2>6. FavsOK(hub[a].favs) /\ hub[a].order \in Seq(Range(hub[a].order))
    BY <1>0, <2>1 DEF RowOK
  <2>7. FavsOK(once[a].favs) /\ FavsOK(twice[a].favs)
    BY <2>4, <2>5, <2>6, FreeIdIs
  <2>8. \A b \in Acts : RowOK(once[b]) /\ RowOK(twice[b])
    BY <1>0, <2>1, <2>4, <2>5, <2>6, <2>7 DEF RowOK
  <2>9. FreeId(hub[a].favs) \in Nat /\ FreeId(once[a].favs) \in Nat
    BY <2>6, <2>7, FreeIdIs
  <2>10. ASSUME NEW n \in Nat, NEW h \in {once, twice}, hub' = h,
                Moved(t, [job EXCEPT !.at = "stage", !.fresh = n], h)
         PROVE  KeepInv'
    <3>1. PICK j : j = [job EXCEPT !.at = "stage", !.fresh = n]
      OBVIOUS
    <3>2. /\ j.op = "add" /\ j.at = "stage" /\ j.act = a /\ j.fresh = n /\ j.ids = job.ids
          /\ j.misread = job.misread
      BY <1>0, <2>1, <3>1 DEF Fields, At
    <3>3. JobOK(j)
      BY <1>0, <2>1, <3>2 DEF JobOK, At
    <3>4. h[a].order = hub[a].order
      BY <2>4, <2>5
    <3>5. MembersHeld(j, h) /\ OrderHeld(j, h, version)
      BY <1>0, <2>1, <3>2, <3>4 DEF JobHolds, MembersHeld, OrderHeld, At
    <3>6. \A b \in Acts : RowOK(h[b])
      BY <2>8
    <3> QED
      BY <1>0, <2>1, <2>10, <3>1, <3>3, <3>5, <3>6, MovedHolds DEF JobHolds
  <2>11. CASE UNCHANGED hub /\ jobs' = [jobs EXCEPT ![t].at = "stage"]
    <3>1. PICK j : j = [job EXCEPT !.at = "stage"]
      OBVIOUS
    <3>2. /\ j.op = "add" /\ j.at = "stage" /\ j.act = a /\ j.fresh = job.fresh /\ j.ids = job.ids
          /\ j.misread = job.misread
      BY <1>0, <2>1, <3>1 DEF Fields, At
    <3>3. jobs' = [jobs EXCEPT ![t] = j]
      BY <1>0, <2>11, <3>1
    <3>4. JobHolds(j, hub, version)
      BY <1>0, <2>1, <3>2 DEF JobHolds, JobOK, MembersHeld, OrderHeld, At
    <3> QED
      BY <1>0, <2>1, <2>11, <3>3, <3>4, AloneHolds
  <2>12. ASSUME NEW h \in {hub, once, twice}, Abandon(t, h) PROVE KeepInv'
    <3>1. \A b \in Acts : RowOK(h[b])
      BY <1>0, <2>8
    <3> QED
      BY <1>0, <2>1, <2>12, <3>1, GivenUpHolds
  <2>13. \/ hub' = once /\ Moved(t, [job EXCEPT !.at = "stage", !.fresh = FreeId(hub[a].favs)], once)
         \/ hub' = twice /\ Moved(t, [job EXCEPT !.at = "stage", !.fresh = FreeId(once[a].favs)], twice)
         \/ UNCHANGED hub /\ jobs' = [jobs EXCEPT ![t].at = "stage"]
         \/ \E h \in {hub, once, twice} : Abandon(t, h)
    BY <1>4, <2>2, <2>3 DEF MapFavorite
  <2> QED
    BY <2>9, <2>10, <2>11, <2>12, <2>13
<1>5. CASE DropFavorite(t)
  <2>1. PICK s : s = But(hub[a].order, job.fresh)
    OBVIOUS
  <2>2. PICK favs : favs = {f \in hub[a].favs : f[1] # job.fresh}
    OBVIOUS
  <2>3. PICK h : h = [hub EXCEPT ![a].favs = favs, ![a].order = s]
    OBVIOUS
  <2>4. PICK j : j = [job EXCEPT !.at = "stage"]
    OBVIOUS
  <2>5. At(t, "remove", "delete") /\ UNCHANGED <<version, sort>> /\ a \in Acts
    BY <1>0, <1>5 DEF DropFavorite, lists, At, JobOK
  <2>6. Step(t, h, j)
    BY <1>0, <1>5, <2>1, <2>2, <2>3, <2>4, <2>5 DEF DropFavorite, Parts
  <2>7. \A b \in Acts \ {a} : h[b] = hub[b]
    BY <1>0, <2>3
  <2>8. h[a].favs = favs /\ h[a].order = s
    BY <1>0, <2>3, <2>5 DEF Parts
  <2>9. FavsOK(favs) /\ s \in Seq(Range(s)) /\ Range(s) = Range(hub[a].order) \ {job.fresh}
    BY <1>0, <2>1, <2>2, <2>5, FewerOK, ButOK DEF RowOK
  <2>10. \A b \in Acts : RowOK(h[b])
    BY <1>0, <2>7, <2>8, <2>9 DEF RowOK
  <2>11. /\ j.op = "remove" /\ j.at = "stage" /\ j.act = a /\ j.fresh = job.fresh /\ j.ids = job.ids
         /\ j.misread = job.misread
    BY <1>0, <2>4, <2>5 DEF Fields, At
  <2>12. JobHolds(j, h, version)
    BY <1>0, <2>5, <2>8, <2>9, <2>11 DEF JobHolds, JobOK, MembersHeld, OrderHeld, At
  <2> QED
    BY <2>5, <2>6, <2>10, <2>12, OutcomeHolds
<1>6. CASE StageOrder(t)
  <2>1. PICK s : s = Those(Staged(job), Ids(hub[a].favs))
    OBVIOUS
  <2>2. PICK h : h = [hub EXCEPT ![a].order = s]
    OBVIOUS
  <2>3. PICK j : j = [job EXCEPT !.at = "commit"]
    OBVIOUS
  <2>4. /\ job.op \in OfFavorites /\ job.at = "stage" /\ UNCHANGED <<version, sort>> /\ a \in Acts
        /\ Step(t, h, j)
    BY <1>0, <1>6, <2>1, <2>2, <2>3 DEF StageOrder, lists, JobOK, OfFavorites
  <2>5. PICK X : Staged(job) \in Seq(X)
    BY <1>0, <2>4, StagedIs
  <2>6. s \in Seq(Range(s))
    BY <2>1, <2>5, ThoseOK
  <2>7. /\ \A b \in Acts \ {a} : h[b] = hub[b]
        /\ h[a].favs = hub[a].favs /\ h[a].order = s
    BY <1>0, <2>2, <2>4 DEF Parts
  <2>8. \A b \in Acts : RowOK(h[b])
    BY <1>0, <2>6, <2>7 DEF RowOK
  <2>9. /\ j.op = job.op /\ j.at = "commit" /\ j.act = a /\ j.fresh = job.fresh /\ j.ids = job.ids
    BY <1>0, <2>3 DEF Fields
  <2>10. JobHolds(j, h, version)
    BY <1>0, <2>4, <2>9 DEF JobHolds, JobOK, MembersHeld, OrderHeld, OfFavorites
  <2> QED
    BY <2>4, <2>8, <2>10, OutcomeHolds
<1>7. CASE CommitFavorites(t)
  <2>1. UNCHANGED <<version, sort>>
    BY <1>7 DEF CommitFavorites, lists
  <2>2. \/ Moved(t, Idle, hub) /\ UNCHANGED hub
        \/ Abandon(t, hub)
    BY <1>7 DEF CommitFavorites
  <2> QED
    BY <1>0, <2>1, <2>2, MovedHolds, GivenUpHolds, IdleHolds
<1> HIDE DEF job, a
<1> QED
  BY <1>1, <1>2, <1>3, <1>4, <1>5, <1>6, <1>7

LEMMA BindHolds ==
  ASSUME Shape, KeepInv, NEW t \in Threads,
         \/ \E a \in Acts, d \in Devs : BindButton(t, a, d)
         \/ WriteButton(t) \/ CommitButton(t)
  PROVE  KeepInv'
<1> DEFINE job == jobs[t]
           a == jobs[t].act
<1>0. /\ DOMAIN job = Fields /\ DOMAIN hub = Acts
      /\ \A b \in Acts : DOMAIN hub[b] = Parts /\ RowOK(hub[b])
      /\ JobOK(job) /\ sort \in Seq(Range(sort))
  BY DEF Shape, Sound, KeepInv, JobHolds
<1>1. ASSUME NEW b \in Acts, NEW d \in Devs, BindButton(t, b, d) PROVE KeepInv'
  <2>1. PICK j : j = [Idle EXCEPT !.op = "bind", !.at = "write", !.act = b, !.dev = d]
    OBVIOUS
  <2>2. j.op = "bind" /\ j.ids = << >>
    BY <2>1 DEF Idle
  <2>3. JobOK(j)
    BY <2>2 DEF JobOK
  <2>4. Begin(t, j)
    BY <1>1, <2>1 DEF BindButton
  <2> QED
    BY <2>2, <2>3, <2>4, BegunHolds
<1>2. CASE WriteButton(t)
  <2>1. PICK h : h = [hub EXCEPT ![a].button = job.dev]
    OBVIOUS
  <2>2. PICK j : j = [job EXCEPT !.at = "commit"]
    OBVIOUS
  <2>3. At(t, "bind", "write") /\ Step(t, h, j) /\ UNCHANGED <<version, sort>>
    BY <1>2, <2>1, <2>2 DEF WriteButton, lists
  <2>4. \A b \in Acts : h[b].favs = hub[b].favs /\ h[b].order = hub[b].order
    BY <1>0, <2>1 DEF Parts
  <2>5. \A b \in Acts : RowOK(h[b])
    BY <1>0, <2>4 DEF RowOK
  <2>6. j.op = "bind" /\ j.ids = job.ids
    BY <1>0, <2>2, <2>3 DEF Fields, At
  <2>7. JobHolds(j, h, version)
    BY <1>0, <2>6 DEF JobHolds, JobOK, MembersHeld, OrderHeld
  <2> QED
    BY <2>3, <2>5, <2>7, OutcomeHolds
<1>3. CASE CommitButton(t)
  <2>1. UNCHANGED <<version, sort>>
    BY <1>3 DEF CommitButton, lists
  <2>2. \/ Moved(t, Idle, hub) /\ UNCHANGED hub
        \/ Abandon(t, hub)
    BY <1>3 DEF CommitButton
  <2> QED
    BY <1>0, <2>1, <2>2, MovedHolds, GivenUpHolds, IdleHolds
<1> HIDE DEF job, a
<1> QED
  BY <1>1, <1>2, <1>3

\* What a device leaves when it goes.
LEMMA WithoutIs ==
  ASSUME Shape, KeepInv, NEW d, NEW a \in Acts
  PROVE  /\ Without(d)[a].on = hub[a].on \ {d} /\ Without(d)[a].off = hub[a].off \ {d}
         /\ Without(d)[a].favs \subseteq hub[a].favs
         /\ Range(Without(d)[a].order) = Range(hub[a].order) \cap Ids(Without(d)[a].favs)
         /\ RowOK(Without(d)[a])
<1>1. PICK kept : kept = {f \in hub[a].favs : f[2] # d}
  OBVIOUS
<1>2. PICK s : s = Those(hub[a].order, Ids(kept))
  OBVIOUS
<1>3. /\ Without(d)[a].on = hub[a].on \ {d} /\ Without(d)[a].off = hub[a].off \ {d}
      /\ Without(d)[a].favs = kept /\ Without(d)[a].order = s
  BY <1>1, <1>2 DEF Without
<1>4. FavsOK(hub[a].favs) /\ hub[a].order \in Seq(Range(hub[a].order))
  BY DEF KeepInv, RowOK
<1>5. s \in Seq(Range(s)) /\ Range(s) = Range(hub[a].order) \cap Ids(kept)
  BY <1>2, <1>4, ThoseOK
<1>6. kept \subseteq hub[a].favs
  BY <1>1
<1>7. FavsOK(kept)
  BY <1>4, <1>6, FewerOK
<1> QED
  BY <1>3, <1>5, <1>6, <1>7 DEF RowOK

LEMMA DeleteHolds ==
  ASSUME Shape, KeepInv, NEW t \in Threads,
         \/ \E d \in Devs : DeleteDevice(t, d)
         \/ DropDevice(t) \/ RefreshActivities(t)
         \/ \E a \in Acts : ConfirmActivity(t, a)
         \/ DeleteEnds(t)
  PROVE  KeepInv'
<1> DEFINE job == jobs[t]
<1>0. /\ DOMAIN jobs = Threads /\ DOMAIN job = Fields /\ JobOK(job)
      /\ \A b \in Acts : RowOK(hub[b])
      /\ sort \in Seq(Range(sort))
  BY DEF Shape, Sound, KeepInv, JobHolds
<1>1. ASSUME NEW j, j.op = "delete", j.ids = job.ids
      PROVE  \A h, v : JobHolds(j, h, v)
  BY <1>0, <1>1 DEF JobHolds, JobOK, MembersHeld, OrderHeld
<1>2. ASSUME NEW d \in Devs, DeleteDevice(t, d) PROVE KeepInv'
  <2>1. PICK j : j = [Idle EXCEPT !.op = "delete", !.at = "delete", !.dev = d, !.acts = Referencing(d)]
    OBVIOUS
  <2>2. j.op = "delete" /\ j.ids = << >>
    BY <2>1 DEF Idle
  <2>3. JobOK(j)
    BY <2>2 DEF JobOK
  <2>4. Begin(t, j)
    BY <1>2, <2>1 DEF DeleteDevice
  <2> QED
    BY <2>2, <2>3, <2>4, BegunHolds
<1>3. CASE DropDevice(t)
  <2>1. PICK h : h = Without(job.dev)
    OBVIOUS
  <2>2. PICK j : j = [job EXCEPT !.at = "refresh"]
    OBVIOUS
  <2>3. /\ job.op = "delete" /\ UNCHANGED version
        /\ \/ hub' = h /\ Moved(t, j, h) /\ sort' = But(sort, job.dev)
           \/ Abandon(t, hub) /\ UNCHANGED sort
           \/ Abandon(t, h) /\ sort' = But(sort, job.dev)
    BY <1>3, <2>1, <2>2 DEF DropDevice, At
  <2>4. \A b \in Acts : RowOK(h[b])
    BY <2>1, WithoutIs
  <2>5. But(sort, job.dev) \in Seq(Range(But(sort, job.dev)))
    BY <1>0, ButOK
  <2>6. JobHolds(j, h, version)
    BY <1>0, <1>1, <2>2, <2>3 DEF Fields
  <2> QED
    BY <1>0, <2>3, <2>4, <2>5, <2>6, MovedHolds, GivenUpHolds
<1>4. CASE RefreshActivities(t)
  <2>1. job.op = "delete" /\ UNCHANGED <<version, sort, hub>>
    BY <1>4 DEF RefreshActivities, At, lists, Abandon
  <2>2. CASE Abandon(t, hub)
    BY <1>0, <2>1, <2>2, GivenUpHolds
  <2>3. ASSUME NEW j, j.op = job.op, j.ids = job.ids, jobs' = [jobs EXCEPT ![t] = j] PROVE KeepInv'
    <3>1. JobHolds(j, hub, version)
      BY <1>1, <2>1, <2>3
    <3> QED
      BY <1>0, <2>1, <2>3, <3>1, AloneHolds
  <2>4. CASE jobs' = [jobs EXCEPT ![t].at = "confirm", ![t].members = confirm]
    <3>1. PICK j : j = [job EXCEPT !.at = "confirm", !.members = confirm]
      OBVIOUS
    <3>2. j.op = job.op /\ j.ids = job.ids
      BY <1>0, <3>1 DEF Fields
    <3>3. jobs' = [jobs EXCEPT ![t] = j]
      BY <1>0, <2>4, <3>1
    <3> QED
      BY <2>3, <3>2, <3>3
  <2>5. CASE jobs' = [jobs EXCEPT ![t].at = "confirm"]
    <3>1. PICK j : j = [job EXCEPT !.at = "confirm"]
      OBVIOUS
    <3>2. j.op = job.op /\ j.ids = job.ids
      BY <1>0, <3>1 DEF Fields
    <3>3. jobs' = [jobs EXCEPT ![t] = j]
      BY <1>0, <2>5, <3>1
    <3> QED
      BY <2>3, <3>2, <3>3
  <2> QED
    BY <1>4, <2>2, <2>4, <2>5 DEF RefreshActivities
<1>5. ASSUME NEW a \in Acts, ConfirmActivity(t, a) PROVE KeepInv'
  <2>1. PICK j : j = [job EXCEPT !.members = @ \ {a}, !.acts = @ \ {a}]
    OBVIOUS
  <2>2. job.op = "delete" /\ UNCHANGED <<version, sort>>
    BY <1>5 DEF ConfirmActivity, At
  <2>3. \/ Moved(t, j, hub) /\ UNCHANGED hub
        \/ Abandon(t, hub)
    BY <1>5, <2>1 DEF ConfirmActivity
  <2>4. j.op = "delete" /\ j.ids = job.ids
    BY <1>0, <2>1, <2>2 DEF Fields
  <2>5. JobHolds(j, hub, version)
    BY <1>1, <2>4
  <2> QED
    BY <1>0, <2>2, <2>3, <2>5, MovedHolds, GivenUpHolds
<1>6. CASE DeleteEnds(t)
  <2>1. Moved(t, Idle, hub) /\ UNCHANGED <<version, sort, hub>>
    BY <1>6 DEF DeleteEnds
  <2> QED
    BY <1>0, <2>1, MovedHolds, IdleHolds
<1> HIDE DEF job
<1> QED
  BY <1>2, <1>3, <1>4, <1>5, <1>6

LEMMA SortHolds ==
  ASSUME Shape, KeepInv, NEW t \in Threads,
         \/ \E ids \in Sorts : SortDevices(t, ids)
         \/ WriteSort(t) \/ RefreshDevices(t)
  PROVE  KeepInv'
<1> DEFINE job == jobs[t]
<1>0. DOMAIN jobs = Threads /\ DOMAIN job = Fields /\ JobOK(job) /\ sort \in Seq(Range(sort))
  BY DEF Shape, Sound, KeepInv, JobHolds
<1>1. ASSUME NEW ids \in Sorts, SortDevices(t, ids) PROVE KeepInv'
  <2>1. PICK j : j = [Idle EXCEPT !.op = "sort", !.at = "write", !.ids = ids]
    OBVIOUS
  <2>2. j.op = "sort" /\ j.ids = ids
    BY <2>1 DEF Idle
  <2>3. ids \in Seq(Devs)
    <3>1. Cardinality(Devs) \in Nat /\ ids \in [1 .. Cardinality(Devs) -> Devs]
      BY WritesBounds, FS_CardinalityType DEF Sorts
    <3> QED
      BY <3>1, SeqDef
  <2>4. JobOK(j)
    BY <2>2, <2>3, InRange DEF JobOK
  <2>5. Begin(t, j)
    BY <1>1, <2>1 DEF SortDevices
  <2> QED
    BY <2>2, <2>4, <2>5, BegunHolds
<1>2. CASE WriteSort(t)
  <2>1. PICK s : s = Those(job.ids, Range(sort))
    OBVIOUS
  <2>2. PICK j : j = [job EXCEPT !.at = "refresh"]
    OBVIOUS
  <2>3. job.op = "sort" /\ UNCHANGED <<version, hub>> /\ sort' \in {sort, s}
        /\ (jobs' = [jobs EXCEPT ![t].at = "refresh"] \/ jobs' = [jobs EXCEPT ![t] = Idle])
    BY <1>2, <2>1 DEF WriteSort, At
  <2>4. s \in Seq(Range(s))
    BY <1>0, <2>1, ThoseOK DEF JobOK
  <2>5. sort' \in Seq(Range(sort'))
    BY <1>0, <2>3, <2>4
  <2>6. JobHolds(j, hub, version)
    BY <1>0, <2>2, <2>3 DEF JobHolds, JobOK, MembersHeld, OrderHeld, Fields
  <2>7. jobs' = [jobs EXCEPT ![t] = j] \/ jobs' = [jobs EXCEPT ![t] = Idle]
    BY <1>0, <2>2, <2>3
  <2> QED
    BY <2>3, <2>5, <2>6, <2>7, AloneHolds, IdleHolds
<1>3. CASE RefreshDevices(t)
  <2>1. jobs' = [jobs EXCEPT ![t] = Idle] /\ UNCHANGED <<hub, version, sort>>
    BY <1>3 DEF RefreshDevices
  <2> QED
    BY <1>0, <2>1, AloneHolds, IdleHolds
<1> HIDE DEF job
<1> QED
  BY <1>1, <1>2, <1>3

LEMMA EraseHolds ==
  ASSUME Shape, KeepInv, NEW t \in Threads, Erase(t) \/ EraseAll(t)
  PROVE  KeepInv'
<1>0. (\A b \in Acts : RowOK(hub[b])) /\ sort \in Seq(Range(sort))
  BY DEF KeepInv
<1>1. CASE Erase(t)
  <2>1. PICK j : j = [Idle EXCEPT !.op = "erase", !.at = "write"]
    OBVIOUS
  <2>2. j.op = "erase" /\ j.ids = << >>
    BY <2>1 DEF Idle
  <2>3. JobOK(j)
    BY <2>2 DEF JobOK
  <2>4. Begin(t, j)
    BY <1>1, <2>1 DEF Erase
  <2> QED
    BY <2>2, <2>3, <2>4, BegunHolds
<1>2. CASE EraseAll(t)
  <2>1. /\ UNCHANGED version
        /\ \/ hub' = Erased /\ Moved(t, Idle, Erased) /\ sort' = << >>
           \/ Abandon(t, hub) /\ UNCHANGED sort
           \/ Abandon(t, Erased) /\ sort' = << >>
    BY <1>2 DEF EraseAll
  <2>2. << >> \in Seq(Range(<< >>))
    OBVIOUS
  <2>3. FavsOK({})
    BY FS_EmptySet DEF FavsOK, Ids
  <2>4. \A b \in Acts : Erased[b].favs = {} /\ Erased[b].order = << >>
    BY DEF Erased
  <2>5. \A b \in Acts : RowOK(Erased[b])
    BY <2>2, <2>3, <2>4 DEF RowOK
  <2> QED
    BY <1>0, <2>1, <2>2, <2>5, MovedHolds, GivenUpHolds, IdleHolds
<1> QED
  BY <1>1, <1>2

LEMMA ReadHolds ==
  ASSUME KeepInv, UNCHANGED <<hub, jobs, version, sort>> PROVE KeepInv'
BY DEF KeepInv

LEMMA KeepNext ==
  ASSUME Shape, KeepInv, [Next]_vars PROVE KeepInv'
<1>1. CASE UNCHANGED vars
  BY <1>1, ReadHolds DEF vars
<1>2. ASSUME NEW a \in Acts, Read(a) PROVE KeepInv'
  BY <1>2, ReadHolds DEF Read, lists
<1>3. ASSUME NEW t \in Threads, Begins(t) PROVE KeepInv'
  BY <1>3, AssignHolds, FavoritesHold, BindHolds, DeleteHolds, SortHolds, EraseHolds DEF Begins
<1>4. ASSUME NEW t \in Threads, Goes(t) PROVE KeepInv'
  BY <1>4, AssignHolds, ReadOrderHolds, FavoritesHold, BindHolds, DeleteHolds, SortHolds, EraseHolds
  DEF Goes
<1> QED
  BY <1>1, <1>2, <1>3, <1>4 DEF Next

LEMMA KeepInit == Init => KeepInv
<1> SUFFICES ASSUME Init PROVE KeepInv
  OBVIOUS
<1>1. PICK favs \in Starts : hub = Start(CHOOSE d \in Devs : TRUE, favs)
  BY DEF Init
<1>2. IsFiniteSet(favs) /\ favs \subseteq Nat \ {0} /\ version \in {"X1", "X1S"} /\ IsFiniteSet(Devs)
  BY WritesBounds DEF Init
<1>3. PICK v : v = CHOOSE d \in Devs : TRUE
  OBVIOUS
<1>4. PICK rows : rows = {<<i, v>> : i \in favs}
  OBVIOUS
<1>5. \A a \in Acts : hub[a].favs = rows /\ hub[a].order = SetToSeq(favs)
  BY <1>1, <1>3, <1>4 DEF Start
<1>6. IsFiniteSet(rows)
  <2> DEFINE f == [i \in favs |-> <<i, v>>]
  <2>1. f \in Surjection(favs, rows)
    BY <1>4 DEF Surjection
  <2> HIDE DEF f
  <2> QED
    BY <1>2, <2>1, FS_Surjection
<1>7. Ids(rows) \subseteq favs
  <2>1. \A f \in rows : f[1] \in favs
    BY <1>4
  <2> QED
    BY <2>1 DEF Ids
<1>8. FavsOK(rows)
  BY <1>2, <1>6, <1>7 DEF FavsOK
<1>9. SetToSeq(favs) \in Seq(Range(SetToSeq(favs)))
  BY <1>2, SetToSeqIs, InRange
<1>10. sort \in Seq(Range(sort))
  <2>1. sort = SetToSeq(Devs) /\ SetToSeq(Devs) \in Seq(Devs)
    BY <1>2, SetToSeqIs DEF Init
  <2> QED
    BY <2>1, InRange
<1>11. \A a \in Acts : RowOK(hub[a])
  BY <1>5, <1>8, <1>9 DEF RowOK
<1>12. \A t \in Threads : JobHolds(jobs[t], hub, version)
  BY IdleHolds DEF Init
<1> QED
  BY <1>2, <1>10, <1>11, <1>12 DEF KeepInv

-----------------------------------------------------------------------------
(* What a step takes out of an activity or off its display.                 *)

MembersGo(h, s) ==
  \A a \in Acts : \A d \in Members(hub, a) \ Members(h, a) :
    d \notin Range(s) \/ \E t \in Threads : jobs[t].act = a /\ jobs[t].misread

ShownGo(h) ==
  \A a \in Acts : \A f \in (OnDisplay(hub, a) \ OnDisplay(h, a)) \cap h[a].favs :
    \E t \in Threads :
      /\ jobs[t].act = a /\ jobs[t].at = "stage"
      /\ \/ jobs[t].misread
         \/ jobs[t].op = "reorder" /\ f[1] \notin Range(jobs[t].ids)
         \/ jobs[t].op = "add" /\ version = "X1S" /\ f[1] > jobs[t].fresh

\* A step that leaves the macros, and the order of what it leaves as a favorite.
LEMMA NothingGoes ==
  ASSUME NEW h, NEW s,
         \A a \in Acts : Members(h, a) = Members(hub, a),
         \A a \in Acts : \A f \in hub[a].favs \cap h[a].favs :
           f[1] \in Range(hub[a].order) => f[1] \in Range(h[a].order)
  PROVE  MembersGo(h, s) /\ ShownGo(h)
<1>1. MembersGo(h, s)
  BY DEF MembersGo
<1>2. \A a \in Acts : \A f \in (OnDisplay(hub, a) \ OnDisplay(h, a)) : f \notin h[a].favs
  BY DEF OnDisplay
<1>3. ShownGo(h)
  BY <1>2 DEF ShownGo
<1> QED
  BY <1>1, <1>3

LEMMA StepHub ==
  ASSUME NEW t, NEW h, NEW job, Step(t, h, job) PROVE hub' = hub \/ hub' = h
BY DEF Step, Abandon

LEMMA BeginHub ==
  ASSUME NEW t, Begins(t) PROVE hub' = hub
BY DEF Begins, AddDevice, AddFavorite, BindButton, ReorderFavorites, DeleteFavorite, DeleteDevice,
       SortDevices, Erase, Begin

LEMMA SaveMacroGoes ==
  ASSUME Shape, KeepInv, NEW t \in Threads, NEW key \in {"on", "off"}, SaveMacro(t, key)
  PROVE  MembersGo(hub', sort') /\ ShownGo(hub')
<1> DEFINE job == jobs[t]
           a == jobs[t].act
<1>1. PICK rows : rows = SavedRows(job)
  OBVIOUS
<1>2. PICK h : h = WithMacro(key, rows, a)
  OBVIOUS
<1>3. /\ job.op = "assign" /\ job.at = (IF key = "on" THEN "save on" ELSE "save off")
      /\ hub' = hub \/ hub' = h
  BY <1>1, <1>2, StepHub DEF SaveMacro, At
<1>4. /\ DOMAIN hub = Acts /\ \A b \in Acts : DOMAIN hub[b] = Parts
      /\ JobHolds(job, hub, version) /\ a \in Acts
  BY <1>3 DEF Shape, KeepInv, JobHolds, JobOK
<1>5. /\ \A b \in Acts \ {a} : h[b] = hub[b]
      /\ h[a].favs = hub[a].favs /\ h[a].order = hub[a].order
      /\ h[a].on = (IF key = "on" THEN rows ELSE hub[a].on)
      /\ h[a].off = (IF key = "on" THEN hub[a].off ELSE rows)
  BY <1>2, <1>4 DEF WithMacro, Parts
<1>6. ~job.misread => Members(hub, a) \subseteq Members(h, a)
  BY <1>1, <1>3, <1>4, <1>5 DEF JobHolds, MembersHeld, Members, SavedRows
<1>7. MembersGo(h, sort')
  BY <1>5, <1>6 DEF MembersGo, Members
<1>8. \A b \in Acts : h[b].favs = hub[b].favs /\ h[b].order = hub[b].order
  BY <1>5
<1>9. ShownGo(h)
  BY <1>8 DEF ShownGo, OnDisplay
<1>10. MembersGo(hub, sort') /\ ShownGo(hub)
  BY DEF MembersGo, ShownGo
<1> QED
  BY <1>3, <1>7, <1>9, <1>10

LEMMA StageOrderGoes ==
  ASSUME Shape, KeepInv, NEW t \in Threads, StageOrder(t)
  PROVE  MembersGo(hub', sort') /\ ShownGo(hub')
<1> DEFINE job == jobs[t]
           a == jobs[t].act
<1>1. PICK s : s = Those(Staged(job), Ids(hub[a].favs))
  OBVIOUS
<1>2. PICK h : h = [hub EXCEPT ![a].order = s]
  OBVIOUS
<1>3. job.op \in OfFavorites /\ job.at = "stage" /\ (hub' = hub \/ hub' = h)
  BY <1>1, <1>2, StepHub DEF StageOrder, OfFavorites
<1>4. /\ DOMAIN hub = Acts /\ \A b \in Acts : DOMAIN hub[b] = Parts
      /\ JobHolds(job, hub, version) /\ JobOK(job) /\ a \in Acts /\ version \in {"X1", "X1S"}
      /\ FavsOK(hub[a].favs)
  BY <1>3 DEF Shape, KeepInv, JobHolds, JobOK, OfFavorites, RowOK
<1>5. /\ \A b \in Acts \ {a} : h[b] = hub[b]
      /\ h[a].favs = hub[a].favs /\ h[a].on = hub[a].on /\ h[a].off = hub[a].off /\ h[a].order = s
  BY <1>2, <1>4 DEF Parts
<1>6. Range(s) = Range(Staged(job)) \cap Ids(hub[a].favs)
  BY <1>1, <1>3, <1>4, StagedIs, ThoseOK
<1>7. ASSUME NEW f \in hub[a].favs, f[1] \in Range(hub[a].order), f[1] \notin Range(s), ~job.misread
      PROVE  \/ job.op = "reorder" /\ f[1] \notin Range(job.ids)
             \/ job.op = "add" /\ version = "X1S" /\ f[1] > job.fresh
  <2>1. f[1] \in Ids(hub[a].favs) /\ f[1] \in Nat \ {0}
    BY <1>4 DEF FavsOK, Ids
  <2>2. f[1] \notin Range(Staged(job))
    BY <1>6, <1>7, <2>1
  <2>3. CASE job.op = "reorder"
    BY <1>3, <1>4, <2>2, <2>3, StagedIs
  <2>4. CASE job.op = "remove"
    <3>1. f[1] \notin Range(job.ids)
      BY <1>3, <1>4, <2>2, <2>4, StagedIs
    <3>2. Range(hub[a].order) \subseteq Range(job.ids)
      BY <1>3, <1>4, <1>7, <2>4 DEF JobHolds, OrderHeld
    <3> QED
      BY <1>7, <3>1, <3>2
  <2>5. CASE job.op = "add" /\ version = "X1"
    <3>1. f[1] \notin Range(job.ids)
      BY <1>3, <1>4, <2>2, <2>5, StagedIs
    <3>2. Range(hub[a].order) \subseteq Range(job.ids)
      BY <1>3, <1>4, <1>7, <2>5 DEF JobHolds, OrderHeld
    <3> QED
      BY <1>7, <3>1, <3>2
  <2>6. CASE job.op = "add" /\ version = "X1S"
    <3>1. ~(f[1] <= job.fresh)
      BY <1>3, <1>4, <2>1, <2>2, <2>6, StagedIs
    <3>2. job.fresh \in Nat
      BY <1>4, <2>6 DEF JobOK
    <3>3. f[1] > job.fresh
      BY <2>1, <3>1, <3>2
    <3> QED
      BY <2>6, <3>3
  <2> QED
    BY <1>3, <1>4, <2>3, <2>4, <2>5, <2>6 DEF OfFavorites
<1>8. MembersGo(h, sort')
  BY <1>5 DEF MembersGo, Members
<1>9. ShownGo(h)
  <2> SUFFICES ASSUME NEW b \in Acts, NEW f \in (OnDisplay(hub, b) \ OnDisplay(h, b)) \cap h[b].favs
               PROVE  \E u \in Threads :
                        /\ jobs[u].act = b /\ jobs[u].at = "stage"
                        /\ \/ jobs[u].misread
                           \/ jobs[u].op = "reorder" /\ f[1] \notin Range(jobs[u].ids)
                           \/ jobs[u].op = "add" /\ version = "X1S" /\ f[1] > jobs[u].fresh
    BY DEF ShownGo
  <2>1. b = a
    BY <1>5 DEF OnDisplay
  <2>2. f \in hub[a].favs /\ f[1] \in Range(hub[a].order) /\ f[1] \notin Range(s)
    BY <1>5, <2>1 DEF OnDisplay
  <2>3. \/ job.misread
        \/ job.op = "reorder" /\ f[1] \notin Range(job.ids)
        \/ job.op = "add" /\ version = "X1S" /\ f[1] > job.fresh
    <3>1. CASE job.misread
      BY <3>1
    <3>2. CASE ~job.misread
      <4>1. PICK i : i = f[1]
        OBVIOUS
      <4>2. \/ job.op = "reorder" /\ i \notin Range(job.ids)
            \/ job.op = "add" /\ version = "X1S" /\ i > job.fresh
        BY <1>7, <2>2, <3>2, <4>1
      <4> QED
        BY <4>1, <4>2
    <3> QED
      BY <3>1, <3>2
  <2> QED
    BY <1>3, <2>1, <2>3
<1>10. MembersGo(hub, sort') /\ ShownGo(hub)
  BY DEF MembersGo, ShownGo
<1> QED
  BY <1>3, <1>8, <1>9, <1>10

LEMMA FavoriteGoes ==
  ASSUME Shape, KeepInv, NEW t \in Threads, MapFavorite(t) \/ DropFavorite(t)
  PROVE  MembersGo(hub', sort') /\ ShownGo(hub')
<1> DEFINE job == jobs[t]
           a == jobs[t].act
<1>1. /\ DOMAIN hub = Acts /\ \A b \in Acts : DOMAIN hub[b] = Parts /\ RowOK(hub[b])
      /\ JobOK(job)
  BY DEF Shape, KeepInv, JobHolds
<1>2. MembersGo(hub, sort') /\ ShownGo(hub)
  BY DEF MembersGo, ShownGo
<1>3. CASE MapFavorite(t)
  <2>1. PICK once : once = [hub EXCEPT ![a].favs = WithFavorite(@, job.dev)]
    OBVIOUS
  <2>2. PICK twice : twice = [once EXCEPT ![a].favs = WithFavorite(@, job.dev)]
    OBVIOUS
  <2>3. a \in Acts /\ (hub' = hub \/ hub' = once \/ hub' = twice)
    BY <1>1, <1>3, <2>1, <2>2 DEF MapFavorite, Abandon, At, JobOK
  <2>4. \A b \in Acts : once[b].on = hub[b].on /\ once[b].off = hub[b].off
                        /\ once[b].order = hub[b].order /\ DOMAIN once[b] = Parts
    BY <1>1, <2>1, <2>3 DEF Parts
  <2>5. DOMAIN once = Acts
    BY <1>1, <2>1
  <2>6. \A b \in Acts : twice[b].on = hub[b].on /\ twice[b].off = hub[b].off
                        /\ twice[b].order = hub[b].order
    BY <2>2, <2>3, <2>4, <2>5 DEF Parts
  <2>7. ASSUME NEW h \in {once, twice} PROVE MembersGo(h, sort') /\ ShownGo(h)
    <3>1. \A b \in Acts : Members(h, b) = Members(hub, b) /\ h[b].order = hub[b].order
      BY <2>4, <2>6 DEF Members
    <3> QED
      BY <3>1, NothingGoes
  <2> QED
    BY <1>2, <2>3, <2>7
<1>4. CASE DropFavorite(t)
  <2>1. PICK s : s = But(hub[a].order, job.fresh)
    OBVIOUS
  <2>2. PICK favs : favs = {f \in hub[a].favs : f[1] # job.fresh}
    OBVIOUS
  <2>3. PICK h : h = [hub EXCEPT ![a].favs = favs, ![a].order = s]
    OBVIOUS
  <2>4. a \in Acts
    BY <1>1, <1>4 DEF DropFavorite, At, JobOK
  <2>5. hub' = hub \/ hub' = h
    BY <1>1, <1>4, <2>1, <2>2, <2>3, <2>4, StepHub DEF DropFavorite, Parts
  <2>6. /\ \A b \in Acts \ {a} : h[b] = hub[b]
        /\ h[a].on = hub[a].on /\ h[a].off = hub[a].off /\ h[a].favs = favs /\ h[a].order = s
    BY <1>1, <2>3, <2>4 DEF Parts
  <2>7. Range(s) = Range(hub[a].order) \ {job.fresh}
    BY <1>1, <2>1, <2>4, ButOK DEF RowOK
  <2>8. \A b \in Acts : Members(h, b) = Members(hub, b)
    BY <2>6 DEF Members
  <2>9. \A b \in Acts : \A f \in hub[b].favs \cap h[b].favs :
          f[1] \in Range(hub[b].order) => f[1] \in Range(h[b].order)
    BY <2>2, <2>6, <2>7
  <2>10. MembersGo(h, sort') /\ ShownGo(h)
    BY <2>8, <2>9, NothingGoes
  <2> QED
    BY <1>2, <2>5, <2>10
<1> QED
  BY <1>3, <1>4

LEMMA DeviceGoes ==
  ASSUME Shape, KeepInv, NEW t \in Threads, DropDevice(t) \/ EraseAll(t)
  PROVE  MembersGo(hub', sort') /\ ShownGo(hub')
<1>1. MembersGo(hub, sort') /\ ShownGo(hub)
  BY DEF MembersGo, ShownGo
<1>2. CASE DropDevice(t)
  <2>1. PICK d : d = jobs[t].dev
    OBVIOUS
  <2>2. PICK h : h = Without(d)
    OBVIOUS
  <2>3. hub' = hub \/ (hub' = h /\ sort' = But(sort, d))
    BY <1>2, <2>1, <2>2 DEF DropDevice, Abandon
  <2>4. Range(But(sort, d)) = Range(sort) \ {d}
    BY ButOK DEF KeepInv
  <2>5. ASSUME NEW a \in Acts
        PROVE  /\ Members(h, a) = Members(hub, a) \ {d} /\ h[a].favs \subseteq hub[a].favs
               /\ Range(h[a].order) = Range(hub[a].order) \cap Ids(h[a].favs)
    BY <2>2, WithoutIs DEF Members
  <2>6. sort' = But(sort, d) => MembersGo(h, sort')
    BY <2>4, <2>5 DEF MembersGo
  <2>7. \A a \in Acts : \A f \in h[a].favs : f[1] \in Ids(h[a].favs)
    BY DEF Ids
  <2>8. \A a \in Acts : \A f \in OnDisplay(hub, a) \cap h[a].favs : f \in OnDisplay(h, a)
    BY <2>5, <2>7 DEF OnDisplay
  <2>9. ShownGo(h)
    BY <2>8 DEF ShownGo
  <2> QED
    BY <1>1, <2>3, <2>6, <2>9
<1>3. CASE EraseAll(t)
  <2>1. hub' = hub \/ (hub' = Erased /\ sort' = << >>)
    BY <1>3 DEF EraseAll, Abandon
  <2>2. \A a \in Acts : Erased[a].favs = {}
    BY DEF Erased
  <2>3. Range(<< >>) = {}
    BY DEF Range
  <2>4. ShownGo(Erased)
    BY <2>2 DEF ShownGo
  <2>5. sort' = << >> => MembersGo(Erased, sort')
    BY <2>3 DEF MembersGo
  <2> QED
    BY <1>1, <2>1, <2>4, <2>5
<1> QED
  BY <1>2, <1>3

LEMMA StepGoes ==
  ASSUME Shape, KeepInv, [Next]_vars
  PROVE  MembersGo(hub', sort') /\ ShownGo(hub')
<1>1. hub' = hub => MembersGo(hub', sort') /\ ShownGo(hub')
  BY DEF MembersGo, ShownGo
<1>2. CASE UNCHANGED vars
  BY <1>1, <1>2 DEF vars
<1>3. ASSUME NEW a \in Acts, Read(a) PROVE hub' = hub
  BY <1>3 DEF Read
<1>4. ASSUME NEW t \in Threads, Goes(t) PROVE MembersGo(hub', sort') /\ ShownGo(hub')
  <2>1. CASE \/ MapRead(t) \/ AddDeviceEnds(t) \/ ReadOrder(t) \/ CommitFavorites(t) \/ CommitButton(t)
             \/ RefreshActivities(t) \/ (\E a \in Acts : ConfirmActivity(t, a))
             \/ DeleteEnds(t) \/ WriteSort(t) \/ RefreshDevices(t)
    <3>1. hub' = hub
      BY <2>1 DEF MapRead, AddDeviceEnds, ReadOrder, CommitFavorites, CommitButton, RefreshActivities,
                  ConfirmActivity, DeleteEnds, WriteSort, RefreshDevices, Abandon
    <3> QED
      BY <1>1, <3>1
  <2>2. CASE ConfirmMembers(t) \/ \E key \in {"on", "off"} : FetchMacro(t, key)
    <3>1. hub' = hub
      BY <2>2, StepHub DEF ConfirmMembers, FetchMacro
    <3> QED
      BY <1>1, <3>1
  <2>3. CASE WriteButton(t)
    <3>1. PICK h : h = [hub EXCEPT ![jobs[t].act].button = jobs[t].dev]
      OBVIOUS
    <3>2. hub' = hub \/ hub' = h
      BY <2>3, <3>1, StepHub DEF WriteButton
    <3>3. \A b \in Acts : /\ h[b].on = hub[b].on /\ h[b].off = hub[b].off
                          /\ h[b].favs = hub[b].favs /\ h[b].order = hub[b].order
      BY <3>1 DEF Shape, Parts
    <3>4. \A b \in Acts : Members(h, b) = Members(hub, b)
      BY <3>3 DEF Members
    <3>5. MembersGo(h, sort') /\ ShownGo(h)
      BY <3>3, <3>4, NothingGoes
    <3> QED
      BY <1>1, <3>2, <3>5
  <2> QED
    BY <1>4, <2>1, <2>2, <2>3, SaveMacroGoes, StageOrderGoes, FavoriteGoes, DeviceGoes DEF Goes
<1> QED
  BY <1>1, <1>2, <1>3, <1>4, BeginHub DEF Next

-----------------------------------------------------------------------------

\* Whatever the threads do, an edit that was answered and not overtaken goes by
\* what the hub has.
THEOREM EditsHold == Spec => []KeepInv
<1>1. Shape /\ KeepInv /\ [Next]_vars => KeepInv'
  BY KeepNext
<1>2. WritesInv => Shape
  BY DEF WritesInv
<1> QED
  BY <1>1, <1>2, KeepInit, WritesInvariant, PTL DEF Spec

\* add_device_to_activity takes no other device out of an activity, unless its
\* thread went by a read that was not answered in full or was overtaken.
THEOREM MembersStay == Spec => MembersKept
<1>1. Shape /\ KeepInv /\ [Next]_vars
      => [\A a \in Acts : \A d \in Members(hub, a) \ Members(hub', a) :
            d \notin Range(sort') \/ \E t \in Threads : jobs[t].act = a /\ jobs[t].misread]_vars
  BY StepGoes DEF MembersGo
<1>2. WritesInv => Shape
  BY DEF WritesInv
<1> QED
  BY <1>1, <1>2, WritesInvariant, EditsHold, PTL DEF Spec, MembersKept

\* command_to_favorite and delete_favorite leave on display what was there,
\* unless the order was not read or is overtaken, or an X1S is sent an order
\* that ends below it.
THEOREM ShownStays == Spec => ShownIsKept
<1>1. Shape /\ KeepInv /\ [Next]_vars
      => [\A a \in Acts : \A f \in (OnDisplay(hub, a) \ OnDisplay(hub', a)) \cap hub'[a].favs :
            \E t \in Threads :
              /\ jobs[t].act = a /\ jobs[t].at = "stage"
              /\ \/ jobs[t].misread
                 \/ jobs[t].op = "reorder" /\ f[1] \notin Range(jobs[t].ids)
                 \/ jobs[t].op = "add" /\ version = "X1S" /\ f[1] > jobs[t].fresh]_vars
  BY StepGoes DEF ShownGo
<1>2. WritesInv => Shape
  BY DEF WritesInv
<1> QED
  BY <1>1, <1>2, WritesInvariant, EditsHold, PTL DEF Spec, ShownIsKept

-----------------------------------------------------------------------------
(* EntityTables.  Undisturbed entities, and the answer they wait for.       *)

Clean(e)      == e \in Entities /\ e \notin tcut \cup tstrayed
StaysClean(e) == e \in Entities /\ e \notin tcut' \cup tstrayed'

Requests == Entities \X BOOLEAN
Pages    == [e : Entities, v : Nat, n : 1 .. 2, single : BOOLEAN, late : BOOLEAN]
TabKinds == {"buttons", "favorites", "commands", "macros", "map"}

TabShape ==
  /\ tkind \in TabKinds /\ thub \in [Entities -> Nat \ {0}] /\ tqueue \in Seq(Requests)
  /\ tpending \subseteq Requests /\ DOMAIN tbuffer = Entities /\ DOMAIN ttable = Entities

\* Only commands are read one by one.
Singly == tkind # "commands" => ~tburst[2] /\ \A i \in DOMAIN tqueue : ~tqueue[i][2]

\* A page is of a version that the hub has had.  A second page follows its first,
\* on the wire or into the assembler, and the answer to a single read is one page.
InOrder(w, last) ==
  \A i \in DOMAIN w :
    /\ w[i].v \in 1 .. thub[w[i].e]
    /\ w[i].single => w[i].n = 1 /\ tkind = "commands"
    /\ w[i].n = 2 => IF i = 1 THEN tkind = "macros" => last = {w[i].e}
                              ELSE w[i - 1].e = w[i].e /\ w[i - 1].n = 1

\* What is not late belongs to the read that holds the scheduler, or that one is
\* disturbed.
Attributed ==
  \A i \in DOMAIN twire :
    ~twire[i].late => /\ tburst # Tab!None
                      /\ twire[i].e = tburst[1] \/ ~Clean(tburst[1])

\* The pages of an undisturbed entity are the rest of the answer to the read that
\* holds the scheduler: the last pages on the wire.
Rest(i) ==
  LET p == twire[i] IN
  /\ ~p.late /\ tburst = <<p.e, p.single>>
  /\ IF p.single \/ p.n = 2
       THEN i = Len(twire)
       ELSE /\ i + 1 = Len(twire)
            /\ twire[i + 1].e = p.e /\ twire[i + 1].v = p.v /\ twire[i + 1].n = 2

IsRest == \A i \in DOMAIN twire : Clean(twire[i].e) => Rest(i)

Answered ==
  (tburst # Tab!None /\ Clean(tburst[1]))
    => twire # << >> /\ twire[Len(twire)].e = tburst[1]

Linked ==
  /\ twire \in Seq(Pages) /\ tburst \in Requests \cup {Tab!None}
  /\ InOrder(twire, tlast) /\ Attributed /\ IsRest /\ Answered

\* The first page of an undisturbed entity is where its second looks for it.
HalfWay(e) == twire # << >> /\ twire[1].e = e /\ twire[1].n = 2
First(e)   == <<e, twire[1].v, 1>>
Assembled ==
  \A e \in Entities :
    /\ Clean(e) /\ HalfWay(e) =>
         IF tkind = "map" THEN ttable[e] = {First(e)}
         ELSE tbuffer[e] = [pages |-> <<First(e)>>, total |-> 2]
    /\ tkind = "macros" /\ Clean(e) /\ ~HalfWay(e) => tbuffer[e] = Tab!NoBuffer

\* The table of an undisturbed entity is whole once it counts as read.
IsWhole(e) == \E v \in 1 .. thub[e] : ttable[e] = Tab!Rows(e, v)
WholeOnce ==
  \A e \in Entities :
    Clean(e) /\ e \in (IF tkind \in {"buttons", "favorites"} THEN tknown ELSE tcomplete)
      => IsWhole(e)

\* The members of an undisturbed activity are read once and into an empty list.
Waiting(e) == tburst = Tab!Whole(e) \/ \E i \in DOMAIN tqueue : tqueue[i] = Tab!Whole(e)
ReadOnce ==
  tkind = "map" =>
    \A e \in Entities : Clean(e) =>
      /\ Waiting(e) => Tab!Whole(e) \in tpending
      /\ \A i \in DOMAIN tqueue : tqueue[i] = Tab!Whole(e) =>
           /\ ttable[e] = {} /\ tburst # Tab!Whole(e)
           /\ \A j \in DOMAIN tqueue : tqueue[j] = Tab!Whole(e) => j = i
      /\ \A i \in DOMAIN twire : twire[i].e = e /\ twire[i].n = 1 => ttable[e] = {}

TabInv == TabShape /\ Singly /\ Linked /\ Assembled /\ WholeOnce /\ ReadOnce

-----------------------------------------------------------------------------

\* What is on the wire after its first page was taken.
LEMMA TailAt ==
  ASSUME NEW S, NEW s \in Seq(S), s # << >>
  PROVE  /\ Len(s) \in Nat \ {0} /\ DOMAIN s = 1 .. Len(s) /\ Head(s) = s[1] /\ s[1] \in S
         /\ Tail(s) \in Seq(S) /\ Len(Tail(s)) = Len(s) - 1 /\ DOMAIN Tail(s) = 1 .. Len(s) - 1
         /\ \A i \in 1 .. Len(s) - 1 : Tail(s)[i] = s[i + 1] /\ i + 1 \in 1 .. Len(s)
OBVIOUS

LEMMA JoinAt ==
  ASSUME NEW S, NEW s \in Seq(S), NEW z \in Seq(S)
  PROVE  /\ s \o z \in Seq(S) /\ Len(s) \in Nat /\ Len(z) \in Nat
         /\ DOMAIN s = 1 .. Len(s) /\ DOMAIN z = 1 .. Len(z)
         /\ Len(s \o z) = Len(s) + Len(z) /\ DOMAIN (s \o z) = 1 .. Len(s) + Len(z)
         /\ \A i \in 1 .. Len(s) : (s \o z)[i] = s[i]
         /\ \A i \in 1 .. Len(z) : (s \o z)[Len(s) + i] = z[i]
OBVIOUS

LEMMA RequestIs ==
  ASSUME NEW r \in Requests
  PROVE  /\ r[1] \in Entities /\ r[2] \in BOOLEAN /\ r = <<r[1], r[2]>> /\ r # Tab!None
         /\ ~r[2] => r = Tab!Whole(r[1])
<1>1. r[1] \in Entities /\ r[2] \in BOOLEAN /\ r = <<r[1], r[2]>>
  BY DEF Requests
<1>2. r # Tab!None
  <2> SUFFICES ASSUME r = <<"none", FALSE>> PROVE FALSE
    BY DEF Tab!None
  <2>1. r[1] = "none"
    OBVIOUS
  <2> QED
    BY <1>1, <2>1, EntitiesAreNamed
<1>3. ~r[2] => r = Tab!Whole(r[1])
  BY <1>1 DEF Tab!Whole
<1> QED
  BY <1>1, <1>2, <1>3

\* The answer to a read.
LEMMA AnswerIs ==
  ASSUME TabShape, NEW r \in Requests
  PROVE  /\ Tab!Answer(r) \in Seq(Pages) /\ Len(Tab!Answer(r)) = IF r[2] THEN 1 ELSE 2
         /\ \A i \in 1 .. Len(Tab!Answer(r)) :
              Tab!Answer(r)[i] = [e |-> r[1], v |-> thub[r[1]], n |-> i, single |-> r[2],
                                  late |-> FALSE]
<1> DEFINE n == IF r[2] THEN 1 ELSE 2
           page(i) == [e |-> r[1], v |-> thub[r[1]], n |-> i, single |-> r[2], late |-> FALSE]
<1>1. r[1] \in Entities /\ r[2] \in BOOLEAN /\ thub[r[1]] \in Nat /\ n \in Nat /\ 1 .. n \subseteq 1 .. 2
  BY DEF Requests, TabShape
<1>2. \A i \in 1 .. n : page(i) \in Pages
  BY <1>1 DEF Pages
<1>3. Tab!Answer(r) = [i \in 1 .. n |-> page(i)]
  BY DEF Tab!Answer
<1> HIDE DEF n, page
<1>4. Tab!Answer(r) \in [1 .. n -> Pages]
  BY <1>2, <1>3
<1>5. Tab!Answer(r) \in Seq(Pages) /\ Len(Tab!Answer(r)) = n
  BY <1>1, <1>4
<1> QED
  BY <1>3, <1>5 DEF n, page

\* A burst has ended, and of the undisturbed entities no page is left: what is
\* left is late from here on, and the next read leaves with nothing before it.
LEMMA DrainedIs ==
  ASSUME TabShape, NEW w \in Seq(Pages), Tab!Drained(w),
         \A i \in DOMAIN w : ~StaysClean(w[i].e)
  PROVE  \E rest \in Seq(Pages) :
           /\ Len(rest) = Len(w)
           /\ \A i \in 1 .. Len(w) : rest[i] = [w[i] EXCEPT !.late = TRUE]
           /\ \/ tqueue = << >> /\ tburst' = Tab!None /\ twire' = rest /\ tqueue' = tqueue
              \/ /\ tqueue # << >> /\ tqueue' = Tail(tqueue) /\ tburst' = Head(tqueue)
                 /\ twire' = rest \o Tab!Answer(Head(tqueue))
<1> DEFINE late(i) == w[i].late \/ w[i].e \in tcut' \cup tstrayed'
           rest == [i \in DOMAIN w |-> [w[i] EXCEPT !.late = late(i)]]
<1>1. DOMAIN w = 1 .. Len(w) /\ Len(w) \in Nat /\ \A i \in 1 .. Len(w) : w[i] \in Pages
  OBVIOUS
<1>2. \A i \in 1 .. Len(w) : late(i) = TRUE
  BY <1>1, Zenon DEF StaysClean, Pages
<1>3. \A i \in 1 .. Len(w) : rest[i] = [w[i] EXCEPT !.late = TRUE]
  BY <1>1, <1>2
<1>4. \A i \in 1 .. Len(w) : rest[i] \in Pages
  BY <1>1, <1>3 DEF Pages
<1>5. rest \in Seq(Pages) /\ Len(rest) = Len(w)
  <2>1. rest \in [1 .. Len(w) -> Pages]
    BY <1>1, <1>4
  <2> QED
    BY <1>1, <2>1
<1>6. \/ tqueue = << >> /\ tburst' = Tab!None /\ twire' = rest /\ tqueue' = tqueue
      \/ /\ tqueue # << >> /\ tqueue' = Tail(tqueue) /\ tburst' = Head(tqueue)
         /\ twire' = rest \o Tab!Answer(Head(tqueue))
  BY DEF Tab!Drained, Tab!Sent
<1> HIDE DEF rest
<1> QED
  BY <1>3, <1>5, <1>6
-----------------------------------------------------------------------------

(* What is left of the wire when its first page was taken, or when a read    *)
(* leaves after everything before it has come late.                          *)

LEMMA InOrderOn ==
  ASSUME TabInv, twire # << >>, tkind' = tkind, thub' = thub,
         tkind = "macros" => tlast' = {twire[1].e}
  PROVE  Tail(twire) \in Seq(Pages) /\ InOrder(Tail(twire), tlast')
<1> DEFINE w == Tail(twire)
<1>1. /\ w \in Seq(Pages) /\ Len(twire) \in Nat \ {0} /\ DOMAIN w = 1 .. Len(twire) - 1
      /\ \A i \in 1 .. Len(twire) - 1 : w[i] = twire[i + 1] /\ i + 1 \in 1 .. Len(twire)
  BY TailAt DEF TabInv, Linked
<1>2. DOMAIN twire = 1 .. Len(twire) /\ InOrder(twire, tlast)
  BY DEF TabInv, Linked
<1> HIDE DEF w
<1> SUFFICES ASSUME NEW i \in 1 .. Len(twire) - 1
             PROVE  /\ w[i].v \in 1 .. thub[w[i].e]
                    /\ w[i].single => w[i].n = 1 /\ tkind = "commands"
                    /\ w[i].n = 2 => IF i = 1 THEN tkind = "macros" => tlast' = {w[i].e}
                                              ELSE w[i - 1].e = w[i].e /\ w[i - 1].n = 1
  BY <1>1 DEF InOrder, w
<1>3. w[i] = twire[i + 1] /\ i + 1 \in 1 .. Len(twire) /\ i + 1 # 1
  BY <1>1
<1>4. /\ twire[i + 1].v \in 1 .. thub[twire[i + 1].e]
      /\ twire[i + 1].single => twire[i + 1].n = 1 /\ tkind = "commands"
      /\ twire[i + 1].n = 2 => twire[i + 1 - 1].e = twire[i + 1].e /\ twire[i + 1 - 1].n = 1
  BY <1>2, <1>3 DEF InOrder
<1>5. i + 1 - 1 = i
  OBVIOUS
<1>6. i # 1 => w[i - 1] = twire[i]
  <2> HAVE i # 1
  <2>1. i - 1 \in 1 .. Len(twire) - 1 /\ i - 1 + 1 = i
    BY <1>1
  <2> QED
    BY <1>1, <2>1
<1> QED
  BY <1>3, <1>4, <1>5, <1>6

\* The only page of an undisturbed entity after the first is the second page of
\* the answer whose first page that is.
LEMMA OnlySecond ==
  ASSUME TabInv, twire # << >>, tcut \subseteq tcut', tstrayed \subseteq tstrayed',
         twire[1].late /\ tburst # Tab!None => ~StaysClean(tburst[1]),
         NEW j \in 1 .. Len(twire) - 1, StaysClean(Tail(twire)[j].e)
  PROVE  /\ j = 1 /\ Len(twire) = 2 /\ Tail(twire)[1] = twire[2] /\ StaysClean(twire[1].e)
         /\ twire[1].n = 1 /\ ~twire[1].single /\ ~twire[1].late
         /\ tburst = Tab!Whole(twire[1].e)
         /\ twire[2].e = twire[1].e /\ twire[2].v = twire[1].v /\ twire[2].n = 2
         /\ ~twire[2].late /\ ~twire[2].single
<1> DEFINE e == Tail(twire)[j].e
<1>1. /\ twire \in Seq(Pages) /\ Len(twire) \in Nat \ {0} /\ DOMAIN twire = 1 .. Len(twire)
      /\ Tail(twire)[j] = twire[j + 1] /\ j + 1 \in 1 .. Len(twire) /\ 1 \in 1 .. Len(twire)
      /\ \A i \in 1 .. Len(twire) : twire[i] \in Pages
  BY TailAt DEF TabInv, Linked
<1>2. Clean(e) /\ StaysClean(e) /\ e = twire[j + 1].e
  BY <1>1 DEF Clean, StaysClean
<1> HIDE DEF e
<1>3. Rest(j + 1) /\ ~twire[j + 1].late /\ tburst = <<e, twire[j + 1].single>> /\ tburst[1] = e
  <2>1. Rest(j + 1)
    BY <1>1, <1>2 DEF TabInv, Linked, IsRest
  <2> QED
    BY <1>2, <2>1 DEF Rest
<1>4. tburst # Tab!None
  BY <1>2, <1>3, EntitiesAreNamed DEF Clean, Tab!None
<1>5. ~twire[1].late
  BY <1>2, <1>3, <1>4
<1>6. twire[1].e = e
  BY <1>1, <1>2, <1>3, <1>5 DEF TabInv, Linked, Attributed
<1>7. Rest(1)
  BY <1>1, <1>2, <1>6 DEF TabInv, Linked, IsRest
<1>8. ~(twire[1].single \/ twire[1].n = 2)
  BY <1>1, <1>7 DEF Rest
<1>9. /\ Len(twire) = 2 /\ j = 1 /\ twire[2].e = twire[1].e /\ twire[2].v = twire[1].v
      /\ twire[2].n = 2 /\ tburst = <<twire[1].e, twire[1].single>>
  BY <1>1, <1>7, <1>8 DEF Rest
<1>10. twire[1].single = FALSE /\ twire[1].n = 1
  BY <1>1, <1>8 DEF Pages
<1>11. ~twire[2].single
  BY <1>1, <1>9 DEF TabInv, Linked, InOrder
<1>12. tburst = Tab!Whole(twire[1].e)
  BY <1>9, <1>10 DEF Tab!Whole
<1>13. ~twire[2].late
  BY <1>3, <1>9
<1>14. StaysClean(twire[1].e)
  BY <1>2, <1>6 DEF StaysClean
<1>15. Tail(twire)[1] = twire[2]
  <2>1. j + 1 = 2 /\ j = 1
    BY <1>9
  <2> QED
    BY <1>1, <2>1
<1> QED
  BY <1>5, <1>9, <1>10, <1>11, <1>12, <1>13, <1>14, <1>15

\* A read leaves, or none does, after pages that all came late.
LEMMA LinkedAnew ==
  ASSUME TabShape, tkind' = tkind, thub' = thub,
         NEW w \in Seq(Pages), NEW last, tlast' = last, InOrder(w, last),
         \A i \in 1 .. Len(w) : w[i].late /\ ~StaysClean(w[i].e),
         NEW r \in Requests \cup {Tab!None}, tburst' = r,
         tkind # "commands" => ~r[2],
         IF r = Tab!None THEN twire' = w ELSE twire' = w \o Tab!Answer(r)
  PROVE  /\ Linked'
         /\ \A i \in DOMAIN twire' : StaysClean(twire'[i].e)
              => /\ i # 1 \/ twire'[i].n = 1
                 /\ r # Tab!None /\ twire'[i].e = r[1]
<1>1. DOMAIN w = 1 .. Len(w) /\ Len(w) \in Nat /\ \A i \in 1 .. Len(w) : w[i] \in Pages
  OBVIOUS
<1>2. CASE r = Tab!None
  <2>1. twire' = w /\ tburst' = Tab!None /\ InOrder(w, tlast')
    BY <1>2
  <2>2. InOrder(twire, tlast)'
    BY <2>1 DEF InOrder
  <2>3. Attributed' /\ Answered'
    BY <1>1, <2>1 DEF Attributed, Answered
  <2>4. IsRest'
    BY <1>1, <2>1, Zenon DEF IsRest, Clean, StaysClean
  <2> QED
    BY <1>1, <2>1, <2>2, <2>3, <2>4 DEF Linked
<1>3. CASE r # Tab!None
  <2> DEFINE z == Tab!Answer(r)
             k == Len(z)
  <2>1. r \in Requests /\ r[1] \in Entities /\ r[2] \in BOOLEAN /\ thub[r[1]] \in Nat \ {0}
    BY <1>3 DEF Requests, TabShape
  <2>2. /\ z \in Seq(Pages) /\ k = IF r[2] THEN 1 ELSE 2
        /\ \A i \in 1 .. k : /\ z[i].e = r[1] /\ z[i].v = thub[r[1]] /\ z[i].n = i
                             /\ z[i].single = r[2] /\ z[i].late = FALSE
    <3>1. /\ z \in Seq(Pages) /\ Len(z) = IF r[2] THEN 1 ELSE 2
          /\ \A i \in 1 .. Len(z) : z[i] = [e |-> r[1], v |-> thub[r[1]], n |-> i,
                                           single |-> r[2], late |-> FALSE]
      BY <2>1, AnswerIs
    <3> HIDE DEF z
    <3>2. ASSUME NEW i \in 1 .. Len(z)
          PROVE  /\ z[i].e = r[1] /\ z[i].v = thub[r[1]] /\ z[i].n = i
                 /\ z[i].single = r[2] /\ z[i].late = FALSE
      <4>1. z[i] = [e |-> r[1], v |-> thub[r[1]], n |-> i, single |-> r[2], late |-> FALSE]
        BY <3>1
      <4> QED
        BY <4>1
    <3> QED
      BY <3>1, <3>2
  <2> HIDE DEF z, k
  <2>3. twire' = w \o z /\ tburst' = r
    BY <1>3 DEF z
  <2>4. /\ twire' \in Seq(Pages) /\ Len(twire') = Len(w) + k /\ k \in 1 .. 2
        /\ DOMAIN twire' = 1 .. Len(w) + k
        /\ \A i \in 1 .. Len(w) : twire'[i] = w[i]
        /\ \A i \in 1 .. k : twire'[Len(w) + i] = z[i]
    BY <2>2, <2>3, JoinAt DEF k
  <2>5. \A i \in 1 .. Len(w) + k : i \notin 1 .. Len(w) => \E m \in 1 .. k : i = Len(w) + m
    BY <1>1, <2>4
  <2>6. InOrder(twire, tlast)'
    <3> SUFFICES ASSUME NEW i \in 1 .. Len(w) + k
                 PROVE  /\ twire'[i].v \in 1 .. thub[twire'[i].e]
                        /\ twire'[i].single => twire'[i].n = 1 /\ tkind = "commands"
                        /\ twire'[i].n = 2 =>
                             IF i = 1 THEN tkind = "macros" => last = {twire'[i].e}
                             ELSE twire'[i - 1].e = twire'[i].e /\ twire'[i - 1].n = 1
      BY <2>4 DEF InOrder
    <3>1. CASE i \in 1 .. Len(w)
      <4>1. i # 1 => i - 1 \in 1 .. Len(w)
        BY <1>1, <3>1
      <4>2. twire'[i] = w[i] /\ (i # 1 => twire'[i - 1] = w[i - 1])
        BY <2>4, <3>1, <4>1
      <4>3. /\ w[i].v \in 1 .. thub[w[i].e]
            /\ w[i].single => w[i].n = 1 /\ tkind = "commands"
            /\ w[i].n = 2 => IF i = 1 THEN tkind = "macros" => last = {w[i].e}
                                      ELSE w[i - 1].e = w[i].e /\ w[i - 1].n = 1
        BY <1>1, <3>1 DEF InOrder
      <4> QED
        BY <4>2, <4>3
    <3>2. CASE i \notin 1 .. Len(w)
      <4>1. PICK m \in 1 .. k : i = Len(w) + m
        BY <2>5, <3>2
      <4>2. twire'[i] = z[m] /\ m \in 1 .. 2
        BY <2>4, <4>1
      <4>3. m = 2 => twire'[i - 1] = z[1] /\ i # 1 /\ k = 2
        <5> HAVE m = 2
        <5>1. 1 \in 1 .. k /\ i - 1 = Len(w) + 1 /\ i # 1 /\ k = 2
          BY <1>1, <2>4, <4>1
        <5> QED
          BY <2>4, <5>1
      <4>4. z[m].n = m /\ z[m].e = r[1] /\ z[m].v = thub[r[1]] /\ z[m].single = r[2]
        BY <2>2, <4>1
      <4>5. r[2] => m = 1 /\ tkind = "commands"
        BY <2>2, <4>1
      <4>6. m = 2 => z[1].e = r[1] /\ z[1].n = 1
        BY <2>2, <4>3
      <4> QED
        BY <2>1, <4>2, <4>3, <4>4, <4>5, <4>6
    <3> QED
      BY <3>1, <3>2
  <2>7. Attributed'
    <3> SUFFICES ASSUME NEW i \in 1 .. Len(w) + k, ~twire'[i].late
                 PROVE  r # Tab!None /\ twire'[i].e = r[1]
      BY <2>3, <2>4 DEF Attributed
    <3>1. i \notin 1 .. Len(w)
      BY <2>4
    <3>2. PICK m \in 1 .. k : i = Len(w) + m
      BY <2>4, <2>5, <3>1
    <3>3. twire'[i] = z[m]
      BY <2>4, <3>2
    <3> QED
      BY <1>3, <2>2, <3>3
  <2>8. Answered'
    <3>1. twire'[Len(twire')] = z[k] /\ k \in 1 .. k /\ twire' # << >>
      BY <1>1, <2>4
    <3> QED
      BY <2>2, <2>3, <3>1 DEF Answered
  <2>9. ASSUME NEW i \in DOMAIN twire', StaysClean(twire'[i].e)
        PROVE  Rest(i)' /\ (i # 1 \/ twire'[i].n = 1) /\ twire'[i].e = r[1]
    <3>1. i \notin 1 .. Len(w)
      BY <2>4, <2>9 DEF StaysClean
    <3>2. PICK m \in 1 .. k : i = Len(w) + m
      BY <2>4, <2>5, <3>1
    <3>3. /\ twire'[i] = z[m] /\ z[m].e = r[1] /\ z[m].n = m /\ z[m].single = r[2]
          /\ z[m].v = thub[r[1]] /\ ~z[m].late /\ m \in 1 .. 2
      BY <2>2, <2>4, <3>2
    <3>4. r = <<r[1], r[2]>>
      BY <2>1 DEF Requests
    <3>5. r[2] \/ m = 2 => i = Len(twire')
      BY <2>2, <2>4, <3>2
    <3>6. ASSUME ~r[2], m # 2
          PROVE  /\ i + 1 = Len(twire') /\ twire'[i + 1] = z[2]
                 /\ z[2].e = r[1] /\ z[2].v = thub[r[1]] /\ z[2].n = 2
      <4>1. k = 2 /\ m = 1 /\ 2 \in 1 .. k
        BY <2>2, <3>2, <3>6
      <4>2. i + 1 = Len(w) + 2
        BY <1>1, <3>2, <4>1
      <4> QED
        BY <2>2, <2>4, <4>1, <4>2
    <3>7. Rest(i)'
      BY <2>3, <3>3, <3>4, <3>5, <3>6 DEF Rest
    <3>8. i # 1 \/ m = 1
      BY <1>1, <3>2
    <3> QED
      BY <3>3, <3>7, <3>8
  <2>10. IsRest'
    BY <2>9, Zenon DEF IsRest, Clean, StaysClean
  <2> QED
    BY <1>3, <2>3, <2>4, <2>6, <2>7, <2>8, <2>9, <2>10 DEF Linked
<1> QED
  BY <1>2, <1>3

\* A burst has ended, and no page of an undisturbed entity is left.
LEMMA LinkedDrained ==
  ASSUME TabShape, Singly, tkind' = tkind, thub' = thub,
         NEW w \in Seq(Pages), NEW last, tlast' = last, InOrder(w, last),
         \A i \in DOMAIN w : ~StaysClean(w[i].e), Tab!Drained(w)
  PROVE  /\ Linked' /\ Singly' /\ tqueue' \in Seq(Requests)
         /\ \A i \in DOMAIN twire' : StaysClean(twire'[i].e)
              => /\ i # 1 \/ twire'[i].n = 1
                 /\ tburst' # Tab!None /\ twire'[i].e = tburst'[1]
         /\ \/ tqueue = << >> /\ tqueue' = tqueue /\ tburst' = Tab!None
            \/ tqueue # << >> /\ tqueue' = Tail(tqueue) /\ tburst' = tqueue[1]
<1>1. PICK rest \in Seq(Pages) :
        /\ Len(rest) = Len(w)
        /\ \A i \in 1 .. Len(w) : rest[i] = [w[i] EXCEPT !.late = TRUE]
        /\ \/ tqueue = << >> /\ tburst' = Tab!None /\ twire' = rest /\ tqueue' = tqueue
           \/ /\ tqueue # << >> /\ tqueue' = Tail(tqueue) /\ tburst' = Head(tqueue)
              /\ twire' = rest \o Tab!Answer(Head(tqueue))
  BY DrainedIs
<1>2. /\ DOMAIN w = 1 .. Len(w) /\ DOMAIN rest = 1 .. Len(w) /\ Len(w) \in Nat
      /\ \A i \in 1 .. Len(w) : w[i] \in Pages
  BY <1>1
<1>3. ASSUME NEW i \in 1 .. Len(w)
      PROVE  /\ rest[i].e = w[i].e /\ rest[i].v = w[i].v /\ rest[i].n = w[i].n
             /\ rest[i].single = w[i].single /\ rest[i].late = TRUE
  <2>1. rest[i] = [w[i] EXCEPT !.late = TRUE] /\ w[i] \in Pages
    BY <1>1, <1>2
  <2> QED
    BY <2>1 DEF Pages
<1>4. InOrder(rest, last)
  <2> SUFFICES ASSUME NEW i \in 1 .. Len(w)
               PROVE  /\ rest[i].v \in 1 .. thub[rest[i].e]
                      /\ rest[i].single => rest[i].n = 1 /\ tkind = "commands"
                      /\ rest[i].n = 2 =>
                           IF i = 1 THEN tkind = "macros" => last = {rest[i].e}
                           ELSE rest[i - 1].e = rest[i].e /\ rest[i - 1].n = 1
    BY <1>2 DEF InOrder
  <2>1. i # 1 => i - 1 \in 1 .. Len(w)
    BY <1>2
  <2>2. /\ w[i].v \in 1 .. thub[w[i].e]
        /\ w[i].single => w[i].n = 1 /\ tkind = "commands"
        /\ w[i].n = 2 => IF i = 1 THEN tkind = "macros" => last = {w[i].e}
                                  ELSE w[i - 1].e = w[i].e /\ w[i - 1].n = 1
    BY <1>2 DEF InOrder
  <2>3. /\ rest[i].e = w[i].e /\ rest[i].v = w[i].v /\ rest[i].n = w[i].n
        /\ rest[i].single = w[i].single
    BY <1>3
  <2>4. i # 1 => rest[i - 1].e = w[i - 1].e /\ rest[i - 1].n = w[i - 1].n
    BY <1>3, <2>1
  <2> QED
    BY <2>2, <2>3, <2>4
<1>5. \A i \in 1 .. Len(rest) : rest[i].late /\ ~StaysClean(rest[i].e)
  BY <1>1, <1>2, <1>3, Zenon
<1>6. CASE tqueue = << >>
  <2> DEFINE r == Tab!None
  <2>1. /\ twire' = rest /\ tburst' = r /\ tqueue' = tqueue
        /\ r \in Requests \cup {Tab!None} /\ ~r[2]
    BY <1>1, <1>6 DEF Tab!None
  <2>2. twire' = IF r = Tab!None THEN rest ELSE rest \o Tab!Answer(r)
    BY <2>1
  <2> HIDE DEF r
  <2>3. /\ Linked'
        /\ \A i \in DOMAIN twire' : StaysClean(twire'[i].e)
             => (i # 1 \/ twire'[i].n = 1) /\ r # Tab!None /\ twire'[i].e = r[1]
    BY <1>4, <1>5, <2>1, <2>2, LinkedAnew
  <2>4. Singly' /\ tqueue' \in Seq(Requests)
    BY <1>6, <2>1 DEF Singly, TabShape
  <2> QED
    BY <1>6, <2>1, <2>3, <2>4 DEF r
<1>7. CASE tqueue # << >>
  <2> DEFINE r == tqueue[1]
  <2>1. /\ tqueue' = Tail(tqueue) /\ tburst' = r /\ twire' = rest \o Tab!Answer(r)
        /\ r \in Requests /\ tqueue' \in Seq(Requests)
        /\ DOMAIN tqueue' = 1 .. Len(tqueue) - 1 /\ 1 \in DOMAIN tqueue
        /\ \A i \in 1 .. Len(tqueue) - 1 : tqueue'[i] = tqueue[i + 1] /\ i + 1 \in DOMAIN tqueue
    <3>1. /\ Head(tqueue) = tqueue[1] /\ tqueue[1] \in Requests /\ Tail(tqueue) \in Seq(Requests)
          /\ Len(tqueue) \in Nat \ {0} /\ DOMAIN tqueue = 1 .. Len(tqueue)
          /\ DOMAIN Tail(tqueue) = 1 .. Len(tqueue) - 1
          /\ \A i \in 1 .. Len(tqueue) - 1 : Tail(tqueue)[i] = tqueue[i + 1] /\ i + 1 \in 1 .. Len(tqueue)
      BY <1>7, TailAt DEF TabShape
    <3>2. tqueue' = Tail(tqueue) /\ tburst' = Head(tqueue) /\ twire' = rest \o Tab!Answer(Head(tqueue))
      BY <1>1, <1>7
    <3> QED
      BY <3>1, <3>2
  <2> HIDE DEF r
  <2>2. r # Tab!None
    BY <2>1, RequestIs
  <2>3. tkind # "commands" => ~r[2]
    BY <2>1 DEF Singly, r
  <2>4. /\ Linked'
        /\ \A i \in DOMAIN twire' : StaysClean(twire'[i].e)
             => (i # 1 \/ twire'[i].n = 1) /\ r # Tab!None /\ twire'[i].e = r[1]
    <3>1. IF r = Tab!None THEN twire' = rest ELSE twire' = rest \o Tab!Answer(r)
      BY <2>1, <2>2
    <3>2. r \in Requests \cup {Tab!None} /\ tburst' = r
      BY <2>1
    <3> QED
      BY <1>4, <1>5, <2>3, <3>1, <3>2, LinkedAnew
  <2>5. Singly'
    BY <2>1, <2>3 DEF Singly
  <2> QED
    BY <1>7, <2>1, <2>2, <2>4, <2>5 DEF r
<1> QED
  BY <1>6, <1>7

\* The link stays and fewer entities count as undisturbed, or more of those that
\* have nothing on it.
LEMMA LinkedKept ==
  ASSUME Linked, twire' = twire, tburst' = tburst, tlast' = tlast, tkind' = tkind,
         DOMAIN thub = Entities, \A e \in Entities : thub[e] \in Nat /\ thub'[e] \in Nat /\ thub[e] <= thub'[e],
         \A e \in Entities : StaysClean(e) =>
           \/ Clean(e)
           \/ tburst[1] # e /\ \A i \in DOMAIN twire : twire[i].e # e
  PROVE  Linked'
<1>1. \A i \in DOMAIN twire : twire[i] \in Pages /\ twire[i].e \in Entities
  <2>1. \A i \in DOMAIN twire : twire[i] \in Pages
    BY DEF Linked
  <2> QED
    BY <2>1 DEF Pages
<1>2. InOrder(twire, tlast)'
  BY <1>1 DEF Linked, InOrder
<1>3. Attributed'
  <2> SUFFICES ASSUME NEW i \in DOMAIN twire, ~twire[i].late
               PROVE  /\ tburst # Tab!None
                      /\ twire[i].e = tburst[1] \/ ~StaysClean(tburst[1])
    BY DEF Attributed, Clean, StaysClean
  <2>1. tburst # Tab!None /\ (twire[i].e = tburst[1] \/ ~Clean(tburst[1]))
    BY DEF Linked, Attributed
  <2>2. tburst[1] \in Entities
    BY <2>1 DEF Linked, Requests
  <2> QED
    BY <2>1, <2>2
<1>4. IsRest'
  <2> SUFFICES ASSUME NEW i \in DOMAIN twire, StaysClean(twire[i].e)
               PROVE  Rest(i)'
    BY DEF IsRest, Clean, StaysClean
  <2>1. Clean(twire[i].e)
    BY <1>1
  <2>2. Rest(i)
    BY <2>1 DEF Linked, IsRest
  <2> QED
    BY <2>2 DEF Rest
<1>5. Answered'
  <2> SUFFICES ASSUME tburst # Tab!None, StaysClean(tburst[1])
               PROVE  twire # << >> /\ twire[Len(twire)].e = tburst[1]
    BY DEF Answered, Clean, StaysClean
  <2>1. Clean(tburst[1])
    BY DEF StaysClean
  <2> QED
    BY <2>1 DEF Linked, Answered
<1> QED
  BY <1>2, <1>3, <1>4, <1>5 DEF Linked

\* A page was taken from the wire.  The burst goes on, for the same read or for a
\* disturbed one; or it ends, after the last page of its answer.
LEMMA LinkedOn ==
  ASSUME TabInv, twire # << >>, tkind' = tkind, thub' = thub, tcut' = tcut,
         tstrayed \subseteq tstrayed', tkind = "macros" => tlast' = {twire[1].e},
         twire[1].late /\ tburst # Tab!None => ~StaysClean(tburst[1]),
         NEW holder \in Requests \cup {Tab!None}, tkind # "commands" => ~holder[2],
         holder = tburst \/ (holder # Tab!None /\ ~StaysClean(holder[1]) /\ ~StaysClean(twire[1].e)),
         NEW ends \in BOOLEAN,
         IF ends THEN Tab!Drained(Tail(twire))
                 ELSE twire' = Tail(twire) /\ tburst' = holder /\ tqueue' = tqueue,
         StaysClean(twire[1].e) => (ends <=> twire[1].n = 2 \/ twire[1].single)
  PROVE  /\ Linked' /\ Singly' /\ tqueue' \in Seq(Requests)
         /\ \A i \in DOMAIN twire' : StaysClean(twire'[i].e) =>
              IF ends THEN /\ i # 1 \/ twire'[i].n = 1
                           /\ tqueue # << >> /\ twire'[i].e = tqueue[1][1]
              ELSE /\ i = 1 /\ twire'[1].e = twire[1].e /\ twire'[1].v = twire[1].v
                   /\ twire'[1].n = 2 /\ twire[1].n = 1 /\ ~twire[1].single
         /\ ends \/ ~StaysClean(twire[1].e) \/ (twire' # << >> /\ twire'[1].e = twire[1].e /\ twire'[1].n = 2)
         /\ IF ~ends THEN tburst' = holder /\ tqueue' = tqueue
            ELSE \/ tqueue = << >> /\ tqueue' = tqueue /\ tburst' = Tab!None
                 \/ tqueue # << >> /\ tqueue' = Tail(tqueue) /\ tburst' = tqueue[1]
<1> DEFINE w == Tail(twire)
           p == twire[1]
           last == tlast'
<1>1. /\ w \in Seq(Pages) /\ Len(twire) \in Nat \ {0} /\ DOMAIN w = 1 .. Len(twire) - 1
      /\ Len(w) = Len(twire) - 1 /\ p \in Pages /\ DOMAIN twire = 1 .. Len(twire)
      /\ \A i \in 1 .. Len(twire) - 1 : w[i] = twire[i + 1] /\ i + 1 \in 1 .. Len(twire)
  BY TailAt DEF TabInv, Linked
<1>2. InOrder(w, last) /\ TabShape /\ Singly
  BY InOrderOn DEF TabInv
<1>3. \A j \in 1 .. Len(twire) - 1 : StaysClean(w[j].e) =>
        /\ j = 1 /\ Len(twire) = 2 /\ w[1] = twire[2] /\ StaysClean(p.e)
        /\ p.n = 1 /\ ~p.single /\ ~p.late /\ tburst = Tab!Whole(p.e)
        /\ twire[2].e = p.e /\ twire[2].v = p.v /\ twire[2].n = 2
        /\ ~twire[2].late /\ ~twire[2].single
  BY OnlySecond
<1>5. \A f : StaysClean(f) => Clean(f)
  BY DEF StaysClean, Clean
<1>6. CASE ends
  <2>1. \A j \in DOMAIN w : ~StaysClean(w[j].e)
    BY <1>1, <1>3, <1>6
  <2>2. Tab!Drained(w) /\ tlast' = last
    BY <1>6
  <2> HIDE DEF w, p, last
  <2>3. /\ Linked' /\ Singly' /\ tqueue' \in Seq(Requests)
        /\ \A i \in DOMAIN twire' : StaysClean(twire'[i].e)
              => /\ i # 1 \/ twire'[i].n = 1
                 /\ tburst' # Tab!None /\ twire'[i].e = tburst'[1]
        /\ \/ tqueue = << >> /\ tqueue' = tqueue /\ tburst' = Tab!None
           \/ tqueue # << >> /\ tqueue' = Tail(tqueue) /\ tburst' = tqueue[1]
    BY <1>1, <1>2, <2>1, <2>2, LinkedDrained
  <2> QED
    BY <1>6, <2>3
<1>7. CASE ~ends
  <2>0. twire' = w /\ tburst' = holder /\ tqueue' = tqueue
    BY <1>7
  <2> HIDE DEF w, p, last
  <2>1. InOrder(twire, tlast)'
    BY <1>2, <2>0 DEF InOrder, last
  <2>2. Singly'
    BY <1>2, <2>0 DEF Singly
  <2>3. ASSUME NEW i \in 1 .. Len(twire) - 1 PROVE w[i].e \in Entities
    <3>1. w[i] \in Pages
      BY <1>1
    <3> QED
      BY <3>1 DEF Pages
  <2>4. Attributed'
    <3> SUFFICES ASSUME NEW i \in 1 .. Len(twire) - 1, ~w[i].late
                 PROVE  /\ holder # Tab!None
                        /\ w[i].e = holder[1] \/ ~StaysClean(holder[1])
      BY <1>1, <2>0 DEF Attributed, Clean, StaysClean
    <3>1. tburst # Tab!None /\ (w[i].e = tburst[1] \/ ~Clean(tburst[1]))
      BY <1>1 DEF TabInv, Linked, Attributed
    <3>2. CASE holder = tburst
      BY <1>5, <3>1, <3>2
    <3>3. CASE holder # tburst
      BY <1>5, <3>1, <3>3
    <3> QED
      BY <3>2, <3>3
  <2>5. ASSUME NEW i \in 1 .. Len(twire) - 1, StaysClean(w[i].e)
        PROVE  /\ Rest(i)' /\ i = 1 /\ w[1].e = p.e /\ w[1].v = p.v /\ w[1].n = 2
               /\ p.n = 1 /\ ~p.single
    <3>1. /\ i = 1 /\ Len(twire) = 2 /\ w[1] = twire[2] /\ StaysClean(p.e)
          /\ p.n = 1 /\ ~p.single /\ tburst = Tab!Whole(p.e)
          /\ twire[2].e = p.e /\ twire[2].v = p.v /\ twire[2].n = 2
          /\ ~twire[2].late /\ ~twire[2].single
      BY <1>3, <2>5
    <3>2. holder = tburst
      BY <3>1 DEF p
    <3>3. twire[2].single = FALSE
      BY <1>1, <3>1 DEF Pages
    <3>4. w[1].single = FALSE /\ w[1].e = p.e /\ w[1].n = 2 /\ ~w[1].late /\ Len(w) = 1
      BY <1>1, <3>1, <3>3
    <3>5. twire'[i] = w[1] /\ Len(twire') = 1 /\ tburst' = <<p.e, FALSE>>
      BY <2>0, <3>1, <3>2, <3>4 DEF Tab!Whole
    <3>6. Rest(i)'
      BY <3>1, <3>4, <3>5 DEF Rest
    <3> QED
      BY <3>1, <3>4, <3>6
  <2>6. IsRest'
    BY <1>1, <2>0, <2>5, Zenon DEF IsRest, Clean, StaysClean
  <2>7. StaysClean(p.e) => Len(twire) = 2 /\ twire[2].e = p.e /\ twire[2].n = 2 /\ w[1] = twire[2]
    <3> HAVE StaysClean(p.e)
    <3>1. p.n # 2 /\ ~p.single
      BY <1>7 DEF p
    <3>2. Rest(1)
      BY <1>1, <1>5 DEF TabInv, Linked, IsRest, p
    <3>3. 1 + 1 = Len(twire) /\ twire[1 + 1].e = p.e /\ twire[1 + 1].n = 2
      BY <3>1, <3>2 DEF Rest, p
    <3>4. 1 + 1 = 2 /\ 1 \in 1 .. 2 - 1
      OBVIOUS
    <3>5. Len(twire) = 2 /\ twire[2].e = p.e /\ twire[2].n = 2
      BY <3>3, <3>4
    <3>6. w[1] = twire[2]
      BY <1>1, <3>4, <3>5
    <3> QED
      BY <3>5, <3>6
  <2>8. Answered'
    <3> SUFFICES ASSUME holder # Tab!None, StaysClean(holder[1])
                 PROVE  w # << >> /\ w[Len(w)].e = holder[1]
      BY <2>0 DEF Answered, Clean, StaysClean
    <3>1. holder = tburst /\ Clean(tburst[1])
      BY <1>5
    <3>2. twire[Len(twire)].e = tburst[1]
      BY <3>1 DEF TabInv, Linked, Answered
    <3>3. CASE Len(twire) = 1
      <4>1. StaysClean(p.e)
        BY <3>1, <3>2, <3>3 DEF p
      <4> QED
        BY <2>7, <3>3, <4>1
    <3>4. CASE Len(twire) # 1
      <4>1. Len(w) \in 1 .. Len(twire) - 1 /\ Len(w) + 1 = Len(twire)
        BY <1>1, <3>4
      <4>2. w[Len(w)] = twire[Len(twire)] /\ w # << >>
        BY <1>1, <4>1
      <4> QED
        BY <3>1, <3>2, <4>2
    <3> QED
      BY <3>3, <3>4
  <2>9. twire' \in Seq(Pages) /\ tburst' \in Requests \cup {Tab!None} /\ tqueue' \in Seq(Requests)
    BY <1>1, <1>2, <2>0 DEF TabShape
  <2>10. \A i \in DOMAIN twire' : StaysClean(twire'[i].e) =>
              /\ i = 1 /\ twire'[1].e = p.e /\ twire'[1].v = p.v
              /\ twire'[1].n = 2 /\ p.n = 1 /\ ~p.single
    BY <1>1, <2>0, <2>5
  <2>11. ~StaysClean(p.e) \/ (twire' # << >> /\ twire'[1].e = p.e /\ twire'[1].n = 2)
    BY <1>1, <2>0, <2>7
  <2> QED
    BY <1>7, <2>0, <2>1, <2>2, <2>4, <2>6, <2>8, <2>9, <2>10, <2>11 DEF Linked, p
<1> QED
  BY <1>6, <1>7

-----------------------------------------------------------------------------

(* The handlers.                                                             *)

\* The first page on the wire, and whose it is.
LEMMA FirstIs ==
  ASSUME TabInv, twire # << >>, tcut' = tcut, tstrayed \subseteq tstrayed'
  PROVE  /\ Head(twire) = twire[1] /\ twire[1] \in Pages /\ twire[1].e \in Entities
         /\ twire[1].v \in 1 .. thub[twire[1].e]
         /\ twire[1].single => twire[1].n = 1 /\ tkind = "commands"
         /\ (twire[1].n = 2 /\ tkind = "macros") => tlast = {twire[1].e}
         /\ tburst = Tab!None => twire[1].late
         /\ StaysClean(twire[1].e) => /\ Clean(twire[1].e) /\ ~twire[1].late
                                      /\ tburst = <<twire[1].e, twire[1].single>>
         /\ (tburst # Tab!None /\ StaysClean(tburst[1]) /\ ~twire[1].late)
              => twire[1].e = tburst[1]
<1> DEFINE p == twire[1]
<1>1. twire \in Seq(Pages) /\ p \in Pages /\ 1 \in DOMAIN twire /\ Head(twire) = p
  BY TailAt DEF TabInv, Linked
<1>2. p.e \in Entities
  BY <1>1 DEF Pages
<1>3. \A f : StaysClean(f) => Clean(f)
  BY DEF StaysClean, Clean
<1>4. /\ p.v \in 1 .. thub[p.e]
      /\ p.single => p.n = 1 /\ tkind = "commands"
      /\ p.n = 2 => (tkind = "macros" => tlast = {p.e})
  BY <1>1 DEF TabInv, Linked, InOrder
<1>5. ~p.late => tburst # Tab!None /\ (p.e = tburst[1] \/ ~Clean(tburst[1]))
  BY <1>1 DEF TabInv, Linked, Attributed
<1>6. Clean(p.e) => ~p.late /\ tburst = <<p.e, p.single>>
  BY <1>1 DEF TabInv, Linked, IsRest, Rest
<1> HIDE DEF p
<1>7. /\ tburst = Tab!None => p.late
      /\ StaysClean(p.e) => Clean(p.e) /\ ~p.late /\ tburst = <<p.e, p.single>>
      /\ (tburst # Tab!None /\ StaysClean(tburst[1]) /\ ~p.late) => p.e = tburst[1]
  BY <1>3, <1>5, <1>6
<1> QED
  BY <1>1, <1>2, <1>4, <1>7 DEF p

\* A page was taken for e: its own entity, or the one whose burst is active.  A
\* page of an undisturbed entity goes into its own table; a first one becomes the
\* buffer, a second one completes the table, and the burst ends with the answer.
LEMMA TakenKeeps ==
  ASSUME TabInv, twire # << >>, tkind # "map", tkind' = tkind, thub' = thub, tcut' = tcut,
         tkind = "macros" => tlast' = {twire[1].e},
         NEW e \in Entities, NEW b, NEW holder \in Requests, NEW key, NEW rows,
         Tab!Taken(twire[1], e, b, holder, key, rows),
         e = twire[1].e \/ (tburst # Tab!None /\ e = tburst[1]),
         tkind # "commands" => ~holder[2],
         holder = tburst \/ (holder[1] = twire[1].e /\ ~Clean(twire[1].e)),
         key = Tab!Whole(e) \/ key = Tab!None \/ (tkind = "commands" /\ key[2]),
         StaysClean(twire[1].e) =>
           IF twire[1].n = 2 \/ twire[1].single
             THEN /\ Tab!Finished(b) /\ holder = key /\ (twire[1].single => key[2])
                  /\ twire[1].n = 2 => rows = Tab!Rows(twire[1].e, twire[1].v)
             ELSE /\ ~Tab!Finished(b)
                  /\ b = [pages |-> << <<twire[1].e, twire[1].v, 1>> >>, total |-> 2]
  PROVE  TabInv'
<1> DEFINE p == twire[1]
           ends == Tab!Finished(b) /\ holder = key
<1>1. /\ tstrayed \subseteq tstrayed'
      /\ p.late => {p.e, e, tburst[1], holder[1]} \cap Entities \subseteq tstrayed'
      /\ (tkind \in {"commands", "favorites"} /\ Tab!Finished(b) /\ ttable[e] # {}) => e \in tstrayed'
  BY DEF Tab!Taken
<1>2. /\ p \in Pages /\ p.e \in Entities /\ p.v \in 1 .. thub[p.e]
      /\ p.single => p.n = 1 /\ tkind = "commands"
      /\ tburst = Tab!None => p.late
      /\ StaysClean(p.e) => /\ Clean(p.e) /\ ~p.late /\ tburst = <<p.e, p.single>>
      /\ (tburst # Tab!None /\ StaysClean(tburst[1]) /\ ~p.late) => p.e = tburst[1]
  BY <1>1, FirstIs
<1>3. \A f : StaysClean(f) => Clean(f) /\ f \in Entities /\ f \notin tstrayed'
  BY <1>1 DEF StaysClean, Clean
<1>4. StaysClean(e) => e = p.e
  BY <1>1, <1>2, <1>3
<1>5. StaysClean(p.e) => e = p.e
  BY <1>2
<1>6. tburst # Tab!None => tburst[1] \in Entities
  BY RequestIs DEF TabInv, Linked
<1>7. /\ DOMAIN tbuffer = Entities /\ DOMAIN ttable = Entities /\ TabShape
  BY DEF TabInv, TabShape
<1>8. IF Tab!Finished(b)
        THEN /\ tbuffer' = [tbuffer EXCEPT ![e] = Tab!NoBuffer]
             /\ ttable' = [ttable EXCEPT ![e] = rows] /\ tknown' = tknown \cup {e}
        ELSE tbuffer' = [tbuffer EXCEPT ![e] = b] /\ ttable' = ttable /\ tknown' = tknown
  BY DEF Tab!Taken, Tab!Upd, Tab!cache
<1>9. IF ends THEN Tab!Drained(Tail(twire))
              ELSE twire' = Tail(twire) /\ tburst' = holder /\ tqueue' = tqueue
  BY DEF Tab!Taken
<1>10. /\ tcomplete' \subseteq tcomplete \cup {e}
       /\ ~Tab!Finished(b) => tcomplete' = tcomplete
       /\ (ends /\ tkind = "commands" /\ key[2]) => tcomplete' = tcomplete
  <2> USE DEF Tab!Taken, Tab!cache, Tab!Ended
  <2>1. CASE ~Tab!Finished(b)
    BY <2>1
  <2>2. CASE Tab!Finished(b) /\ ~ends
    BY <2>2
  <2>3. CASE ends
    <3>1. key # Tab!None
      BY <2>3, RequestIs
    <3>2. Tab!Ended(key, IF tkind = "macros" THEN tcomplete \cup {e} ELSE tcomplete)
      BY <2>3
    <3>3. CASE key = Tab!Whole(e)
      <4>1. key[1] = e /\ key[2] = FALSE
        BY <3>3 DEF Tab!Whole
      <4>2. tkind \in TabKinds
        BY <1>7 DEF TabShape
      <4> QED
        BY <3>2, <4>1, <4>2 DEF TabKinds, Tab!ButtonsEnd, Tab!CommandsEnd, Tab!MacrosEnd, Tab!MapEnd
    <3>4. CASE tkind = "commands" /\ key[2]
      BY <3>2, <3>4 DEF Tab!CommandsEnd
    <3> QED
      BY <3>1, <3>3, <3>4
  <2> QED
    BY <2>1, <2>2, <2>3
<1>11. /\ Linked' /\ Singly' /\ tqueue' \in Seq(Requests)
       /\ \A i \in DOMAIN twire' : StaysClean(twire'[i].e) =>
            IF ends THEN i # 1 \/ twire'[i].n = 1
            ELSE /\ i = 1 /\ twire'[1].e = p.e /\ twire'[1].v = p.v
                 /\ twire'[1].n = 2 /\ p.n = 1 /\ ~p.single
       /\ ends \/ ~StaysClean(p.e) \/ (twire' # << >> /\ twire'[1].e = p.e /\ twire'[1].n = 2)
  <2>1. p.late /\ tburst # Tab!None => ~StaysClean(tburst[1])
    BY <1>1, <1>3, <1>6
  <2>2. holder = tburst \/ (holder # Tab!None /\ ~StaysClean(holder[1]) /\ ~StaysClean(p.e))
    BY <1>3, RequestIs
  <2>3. StaysClean(p.e) => (ends <=> p.n = 2 \/ p.single)
    OBVIOUS
  <2>4. ends \in BOOLEAN /\ holder \in Requests \cup {Tab!None}
    OBVIOUS
  <2> HIDE DEF ends
  <2> QED
    BY <1>1, <1>9, <2>1, <2>2, <2>3, <2>4, LinkedOn
<1> HIDE DEF p
<1>12. TabShape'
  <2>1. tpending' \subseteq tpending
    BY DEF Tab!Taken, Tab!Ended, Tab!cache
  <2> QED
    BY <1>7, <1>8, <1>11, <2>1 DEF TabShape
<1>13. ASSUME NEW f \in Entities, f # e
       PROVE  /\ tbuffer'[f] = tbuffer[f] /\ ttable'[f] = ttable[f]
              /\ (f \in tknown' => f \in tknown) /\ (f \in tcomplete' => f \in tcomplete)
  BY <1>7, <1>8, <1>10, <1>13
<1>14. IF Tab!Finished(b) THEN tbuffer'[e] = Tab!NoBuffer /\ ttable'[e] = rows
                          ELSE tbuffer'[e] = b /\ ttable'[e] = ttable[e]
  BY <1>7, <1>8
<1>15. Assembled'
  <2>1. ASSUME NEW f \in Entities, StaysClean(f), HalfWay(f)'
        PROVE  tbuffer'[f] = [pages |-> << <<f, twire'[1].v, 1>> >>, total |-> 2]
    <3>1. 1 \in DOMAIN twire' /\ twire'[1].e = f /\ twire'[1].n = 2
      <4>1. twire' \in Seq(Pages) /\ twire' # << >> /\ twire'[1].e = f /\ twire'[1].n = 2
        BY <1>11, <2>1 DEF HalfWay, Linked
      <4> QED
        BY <4>1
    <3>2. ~ends /\ f = p.e /\ twire'[1].v = p.v /\ p.n = 1 /\ ~p.single
      BY <1>11, <2>1, <3>1
    <3>3. e = f /\ ~Tab!Finished(b) /\ b = [pages |-> << <<p.e, p.v, 1>> >>, total |-> 2]
      BY <1>5, <2>1, <3>2 DEF p
    <3> QED
      BY <1>14, <3>2, <3>3
  <2>2. ASSUME NEW f \in Entities, StaysClean(f), tkind = "macros", ~HalfWay(f)'
        PROVE  tbuffer'[f] = Tab!NoBuffer
    <3>1. CASE f = e
      <4>1. ends
        BY <1>4, <1>11, <2>2, <3>1 DEF HalfWay
      <4> QED
        BY <1>14, <3>1, <4>1
    <3>2. CASE f # e
      <4>1. ~HalfWay(f)
        BY <1>5, <2>2, <3>2 DEF HalfWay, p
      <4>2. Clean(f)
        BY <1>3, <2>2
      <4> QED
        BY <1>13, <2>2, <3>2, <4>1, <4>2 DEF TabInv, Assembled
    <3> QED
      BY <3>1, <3>2
  <2> QED
    BY <2>1, <2>2, Zenon DEF Assembled, First, Clean, StaysClean
<1>16. WholeOnce'
  <2> SUFFICES ASSUME NEW f \in Entities, StaysClean(f),
                      f \in (IF tkind \in {"buttons", "favorites"} THEN tknown' ELSE tcomplete')
               PROVE  \E v \in 1 .. thub[f] : ttable'[f] = Tab!Rows(f, v)
    BY Zenon DEF WholeOnce, IsWhole, Clean, StaysClean
  <2>1. (f \in IF tkind \in {"buttons", "favorites"} THEN tknown ELSE tcomplete) => IsWhole(f)
    BY <1>3 DEF TabInv, WholeOnce
  <2>2. CASE f # e
    BY <1>13, <2>1, <2>2 DEF IsWhole
  <2>3. CASE f = e /\ p.n = 2
    <3>1. p.e = e /\ Tab!Finished(b) /\ rows = Tab!Rows(p.e, p.v)
      BY <1>4, <2>3 DEF p
    <3> QED
      BY <1>2, <1>14, <2>3, <3>1
  <2>4. CASE f = e /\ p.n # 2 /\ ~p.single
    <3>1. ~Tab!Finished(b)
      BY <1>4, <2>4 DEF p
    <3> QED
      BY <1>8, <1>10, <2>1, <2>4, <3>1 DEF IsWhole
  <2>5. CASE f = e /\ p.single
    <3>1. p.e = e /\ Tab!Finished(b) /\ holder = key /\ key[2] /\ tkind = "commands"
      BY <1>2, <1>4, <2>5 DEF p
    <3>2. f \in tcomplete /\ ttable[e] = {}
      BY <1>1, <1>3, <1>10, <2>5, <3>1
    <3>3. PICK v \in 1 .. thub[f] : ttable[f] = Tab!Rows(f, v)
      BY <2>1, <3>1, <3>2 DEF IsWhole
    <3>4. <<f, v, 1>> \in ttable[f]
      BY <3>3 DEF Tab!Rows
    <3> QED
      BY <2>5, <3>2, <3>4
  <2> QED
    BY <2>2, <2>3, <2>4, <2>5
<1>17. ReadOnce'
  BY DEF ReadOnce
<1> QED
  BY <1>11, <1>12, <1>15, <1>16, <1>17 DEF TabInv

\* A page that belongs to nothing.
LEMMA IgnoredKeeps ==
  ASSUME TabInv, twire # << >>, tburst = Tab!None, tkind # "macros",
         tkind' = tkind, thub' = thub, tcut' = tcut, Tab!Ignored(twire[1])
  PROVE  TabInv'
<1> DEFINE p == twire[1]
<1>1. /\ twire' = Tail(twire) /\ tstrayed' = tstrayed \cup {p.e} /\ tburst' = tburst
      /\ tqueue' = tqueue /\ tpending' = tpending /\ tbuffer' = tbuffer /\ ttable' = ttable
      /\ tknown' = tknown /\ tcomplete' = tcomplete
  BY DEF Tab!Ignored, Tab!cache
<1>2. p.e \in Entities /\ ~StaysClean(p.e)
  BY <1>1, FirstIs DEF StaysClean
<1>3. \A f : StaysClean(f) => Clean(f) /\ f \in Entities
  BY <1>1 DEF StaysClean, Clean
<1>4. /\ Linked' /\ Singly' /\ tqueue' \in Seq(Requests)
      /\ \A i \in DOMAIN twire' : ~StaysClean(twire'[i].e)
  <2> DEFINE holder == tburst
             ends == FALSE
  <2>1. holder = tburst /\ ~ends /\ ends \in BOOLEAN /\ holder \in Requests \cup {Tab!None}
        /\ (tkind # "commands" => ~holder[2])
    BY DEF TabInv, Linked, Singly
  <2> HIDE DEF holder, ends
  <2>2. /\ Linked' /\ Singly' /\ tqueue' \in Seq(Requests)
        /\ \A i \in DOMAIN twire' : StaysClean(twire'[i].e) =>
              i = 1 /\ twire'[1].e = twire[1].e
    BY <1>1, <1>2, <2>1, LinkedOn
  <2> QED
    BY <1>2, <2>2
<1> HIDE DEF p
<1>5. TabShape'
  BY <1>1, <1>4 DEF TabInv, TabShape
<1>6. ASSUME NEW f \in Entities, StaysClean(f) PROVE ~HalfWay(f)'
  <2>1. HalfWay(f)' => 1 \in DOMAIN twire' /\ twire'[1].e = f
    <3> HAVE HalfWay(f)'
    <3>1. twire' \in Seq(Pages) /\ twire' # << >> /\ twire'[1].e = f
      BY <1>4, <1>6 DEF HalfWay, Linked
    <3> QED
      BY <3>1
  <2> QED
    BY <1>4, <1>6, <2>1
<1>7. Assembled'
  BY <1>6, Zenon DEF Assembled, Clean, StaysClean
<1>8. WholeOnce'
  BY <1>1, <1>3, Zenon DEF TabInv, WholeOnce, IsWhole, Clean, StaysClean
<1>9. ReadOnce'
  BY <1>1, <1>3, <1>4 DEF TabInv, ReadOnce, Waiting, Clean, StaysClean
<1> QED
  BY <1>4, <1>5, <1>7, <1>8, <1>9 DEF TabInv

\* A frame whose number the buffer does not hold yet is added to it.
LEMMA FiledIsJoined ==
  ASSUME NEW p, NEW b, NEW t, \A r \in Tab!Range(b.pages) : r[3] # p.n
  PROVE  Tab!Filed(p, b, t) = Tab!Joined(p, b, t)
BY DEF Tab!Filed

\* The frames of a buffer that holds none, or one.
LEMMA FewPages ==
  ASSUME NEW x
  PROVE  Tab!Range(Tab!NoBuffer.pages) = {} /\ Tab!Range(<<x>>) = {x}
<1>1. Tab!NoBuffer.pages = << >> /\ DOMAIN << >> = {} /\ DOMAIN <<x>> = {1}
  BY DEF Tab!NoBuffer
<1>2. <<x>>[1] = x
  OBVIOUS
<1> QED
  BY <1>1, <1>2 DEF Tab!Range

\* What a buffer holds after one page, and after two.
LEMMA BufferOf ==
  ASSUME NEW x, NEW y
  PROVE  /\ Append(<< >>, x) = <<x>> /\ Len(<<x>>) = 1
         /\ Len(Append(<<x>>, y)) = 2 /\ Tab!Range(Append(<<x>>, y)) = {x, y}
<1> DEFINE s == Append(<<x>>, y)
<1>1. Append(<< >>, x) = <<x>> /\ Len(<<x>>) = 1
  OBVIOUS
<1>2. <<x>> \in Seq({x, y}) /\ y \in {x, y}
  OBVIOUS
<1>3. Len(s) = 2 /\ DOMAIN s = 1 .. 2 /\ s[1] = x /\ s[2] = y
  BY <1>1, <1>2
<1> HIDE DEF s
<1>4. 1 .. 2 = {1, 2}
  OBVIOUS
<1>5. Tab!Range(s) = {x, y}
  BY <1>3, <1>4 DEF Tab!Range
<1> QED
  BY <1>1, <1>3, <1>5 DEF s

LEMMA RowsAre ==
  ASSUME NEW e, NEW v
  PROVE  Tab!Rows(e, v) = {<<e, v, 1>>, <<e, v, 2>>}
<1>1. 1 .. 2 = {1, 2}
  OBVIOUS
<1> QED
  BY <1>1 DEF Tab!Rows

\* The second page of an undisturbed entity finds the first.
LEMMA HalfIsFirst ==
  ASSUME TabInv, twire # << >>, Clean(twire[1].e), twire[1].n = 2, tkind # "map"
  PROVE  tbuffer[twire[1].e] = [pages |-> << <<twire[1].e, twire[1].v, 1>> >>, total |-> 2]
<1>1. HalfWay(twire[1].e) /\ twire[1].e \in Entities
  BY DEF HalfWay, Clean
<1> QED
  BY <1>1 DEF TabInv, Assembled, First

LEMMA ButtonsPageKeeps ==
  ASSUME TabInv, NEW p, Tab!ButtonsPage(p)
  PROVE  TabInv'
<1>1. /\ tkind \in {"buttons", "favorites"} /\ twire # << >> /\ p = Head(twire)
      /\ tkind' = tkind /\ thub' = thub /\ tcut' = tcut
  BY DEF Tab!ButtonsPage, Tab!Page
<1>2. p = twire[1]
  BY <1>1, TailAt DEF TabInv, Linked
<1>3. CASE p.n # 1 /\ tburst = Tab!None
  <2>1. Tab!Ignored(p)
    BY <1>3 DEF Tab!ButtonsPage, Tab!ButtonsHeader
  <2> QED
    BY <1>1, <1>2, <1>3, <2>1, IgnoredKeeps
<1>4. CASE ~(p.n # 1 /\ tburst = Tab!None)
  <2> DEFINE e == IF p.n = 1 THEN p.e ELSE tburst[1]
             key == Tab!Whole(e)
             rows(b) == IF tkind = "favorites" THEN Tab!FavoriteRows(e, b) ELSE Tab!ButtonRows(e, b)
  <2>1. PICK b \in Tab!AssembledButtons(p, tbuffer[e]) : Tab!Taken(p, e, b, key, key, rows(b))
    BY <1>4 DEF Tab!ButtonsPage, Tab!ButtonsHeader
  <2>2. tstrayed \subseteq tstrayed'
    BY <2>1 DEF Tab!Taken
  <2>3. /\ p \in Pages /\ p.e \in Entities /\ ~p.single
        /\ StaysClean(p.e) => Clean(p.e) /\ tburst = <<p.e, p.single>>
    BY <1>1, <1>2, <2>2, FirstIs
  <2>4. tburst # Tab!None => tburst[1] \in Entities /\ tburst = Tab!Whole(tburst[1])
    BY <1>1, RequestIs DEF TabInv, Linked, Singly
  <2>5. e \in Entities /\ (e = p.e \/ (tburst # Tab!None /\ e = tburst[1]))
    BY <1>4, <2>3, <2>4
  <2>6. key \in Requests /\ ~key[2] /\ key[1] = e
    BY <2>5 DEF Requests, Tab!Whole
  <2>7. p.e \in Entities /\ Clean(p.e) => tburst = Tab!Whole(p.e) /\ e = p.e
    <3> HAVE p.e \in Entities /\ Clean(p.e)
    <3>1. 1 \in DOMAIN twire
      BY <1>1, TailAt DEF TabInv, Linked
    <3>2. tburst = <<p.e, p.single>>
      BY <1>2, <3>1 DEF TabInv, Linked, IsRest, Rest
    <3>3. p.single = FALSE
      BY <2>3 DEF Pages
    <3> QED
      BY <3>2, <3>3 DEF Tab!Whole
  <2>8. key = tburst \/ (key[1] = p.e /\ ~Clean(p.e))
    BY <1>4, <2>3, <2>4, <2>6, <2>7
  <2>9. ASSUME StaysClean(p.e)
        PROVE  IF p.n = 2
                 THEN Tab!Finished(b) /\ rows(b) = Tab!Rows(p.e, p.v)
                 ELSE /\ ~Tab!Finished(b)
                      /\ b = [pages |-> << <<p.e, p.v, 1>> >>, total |-> 2]
    <3>1. CASE p.n = 2
      <4> DEFINE x == <<p.e, p.v, 1>>
                 y == <<p.e, p.v, 2>>
      <4>1. tbuffer[e] = [pages |-> <<x>>, total |-> 2] /\ e = p.e /\ Tab!Row(p) = y
        BY <1>1, <1>2, <2>3, <2>7, <2>9, <3>1, HalfIsFirst DEF Tab!Row
      <4>2. b = Tab!Filed(p, tbuffer[e], 2)
        BY <2>1, <3>1, <4>1 DEF Tab!AssembledButtons, Tab!ButtonsHeader
      <4>3. \A row \in Tab!Range(tbuffer[e].pages) : row[3] # p.n
        BY <3>1, <4>1, FewPages
      <4>4. b = Tab!Joined(p, tbuffer[e], 2)
        BY <4>2, <4>3, FiledIsJoined
      <4>5. b.pages = Append(<<x>>, y) /\ b.total = 2
        BY <4>1, <4>4 DEF Tab!Joined
      <4>6. Tab!Finished(b) /\ Tab!Range(b.pages) = {x, y} /\ Tab!Rows(p.e, p.v) = {x, y}
        BY <4>5, BufferOf, RowsAre DEF Tab!Finished
      <4>7. Tab!KeymapRecords(e, b) = {x, y}
        BY <4>1, <4>6 DEF Tab!KeymapRecords
      <4>8. tkind = "favorites" => ttable[e] = {}
        BY <2>1, <2>9, <4>1, <4>6 DEF Tab!Taken, StaysClean
      <4> QED
        BY <1>1, <3>1, <4>6, <4>7, <4>8 DEF Tab!FavoriteRows, Tab!ButtonRows
    <3>2. CASE p.n # 2
      <4>1. p.n = 1
        BY <2>3, <3>2 DEF Pages
      <4>2. b = Tab!Filed(p, Tab!NoBuffer, 2)
        BY <2>1, <4>1 DEF Tab!AssembledButtons, Tab!ButtonsHeader
      <4>3. b = [pages |-> << <<p.e, p.v, 1>> >>, total |-> 2]
        BY <4>1, <4>2, BufferOf, FewPages, FiledIsJoined DEF Tab!Joined, Tab!NoBuffer, Tab!Row
      <4> QED
        BY <3>2, <4>3, BufferOf DEF Tab!Finished
    <3> QED
      BY <3>1, <3>2
  <2>10. tkind # "map" /\ tkind # "macros" /\ tkind # "commands"
    BY <1>1
  <2> DEFINE r == rows(b)
  <2>11. Tab!Taken(p, e, b, key, key, r)
    BY <2>1
  <2>12. key = Tab!Whole(e)
    OBVIOUS
  <2>13. ASSUME StaysClean(p.e)
         PROVE  IF p.n = 2
                  THEN Tab!Finished(b) /\ r = Tab!Rows(p.e, p.v)
                  ELSE /\ ~Tab!Finished(b)
                       /\ b = [pages |-> << <<p.e, p.v, 1>> >>, total |-> 2]
    BY <2>9, <2>13
  <2> HIDE DEF e, key, rows, r
  <2> QED
    BY <1>1, <1>2, <2>3, <2>5, <2>6, <2>8, <2>10, <2>11, <2>12, <2>13, TakenKeeps
<1> QED
  BY <1>3, <1>4

\* What a command page finds: who holds the scheduler, and its buffer.
LEMMA CommandsKeep ==
  ASSUME TabInv, NEW p, NEW holder \in Requests, NEW key, Tab!CommandsTaken(p, holder, key),
         holder = tburst \/ holder = Tab!Whole(p.e),
         key = Tab!Whole(p.e) \/ key = Tab!None \/ key[2],
         p \in Pages => /\ p.single => key = (IF tburst[2] THEN tburst ELSE Tab!None)
                        /\ ~p.single => key = Tab!Whole(p.e)
                        /\ tburst = <<p.e, p.single>> => holder = tburst
  PROVE  TabInv'
<1>1. /\ tkind = "commands" /\ twire # << >> /\ p = Head(twire)
      /\ tkind' = tkind /\ thub' = thub /\ tcut' = tcut
  BY DEF Tab!CommandsTaken, Tab!Page
<1>2. p = twire[1]
  BY <1>1, TailAt DEF TabInv, Linked
<1>3. PICK b \in Tab!AssembledCommands(p, tbuffer[p.e]) :
        Tab!Taken(p, p.e, b, holder, key, Tab!CommandRows(p.e, b))
  BY DEF Tab!CommandsTaken
<1>4. tstrayed \subseteq tstrayed'
  BY <1>3 DEF Tab!Taken
<1>5. /\ p \in Pages /\ p.e \in Entities /\ (p.single => p.n = 1)
      /\ StaysClean(p.e) => Clean(p.e) /\ tburst = <<p.e, p.single>>
  BY <1>1, <1>2, <1>4, FirstIs
<1>6. p.n \in {1, 2} /\ p.single \in BOOLEAN
  BY <1>5 DEF Pages
<1>7. Clean(p.e) => tburst = <<p.e, p.single>>
  <2>1. 1 \in DOMAIN twire
    BY <1>1, TailAt DEF TabInv, Linked
  <2> QED
    BY <1>2, <2>1 DEF TabInv, Linked, IsRest, Rest
<1>8. holder = tburst \/ (holder[1] = p.e /\ ~Clean(p.e))
  <2>1. Clean(p.e) => holder = tburst
    BY <1>5, <1>7
  <2>2. Tab!Whole(p.e)[1] = p.e
    BY DEF Tab!Whole
  <2> QED
    BY <2>1, <2>2
<1>9. ASSUME StaysClean(p.e)
      PROVE  IF p.n = 2 \/ p.single
               THEN /\ Tab!Finished(b) /\ holder = key /\ (p.single => key[2])
                    /\ p.n = 2 => Tab!CommandRows(p.e, b) = Tab!Rows(p.e, p.v)
               ELSE /\ ~Tab!Finished(b)
                    /\ b = [pages |-> << <<p.e, p.v, 1>> >>, total |-> 2]
  <2>1. tburst = <<p.e, p.single>> /\ holder = tburst /\ tburst[2] = p.single
    BY <1>5, <1>9
  <2>2. CASE p.n = 2
    <3> DEFINE x == <<p.e, p.v, 1>>
               y == <<p.e, p.v, 2>>
    <3>1. tbuffer[p.e] = [pages |-> <<x>>, total |-> 2] /\ Tab!Row(p) = y
      BY <1>1, <1>2, <1>5, <1>9, <2>2, HalfIsFirst DEF Tab!Row
    <3>2. b = Tab!Filed(p, tbuffer[p.e], tbuffer[p.e].total)
      BY <1>3, <2>2 DEF Tab!AssembledCommands, Tab!CommandsHeader
    <3>3. \A row \in Tab!Range(tbuffer[p.e].pages) : row[3] # p.n
      BY <2>2, <3>1, FewPages
    <3>4. b = Tab!Joined(p, tbuffer[p.e], tbuffer[p.e].total)
      BY <3>2, <3>3, FiledIsJoined
    <3>5. b.pages = Append(<<x>>, y) /\ b.total = 2
      BY <3>1, <3>4 DEF Tab!Joined
    <3>6. Tab!Finished(b) /\ Tab!Range(b.pages) = {x, y} /\ Tab!Rows(p.e, p.v) = {x, y}
      BY <3>5, BufferOf, RowsAre DEF Tab!Finished
    <3>7. ttable[p.e] = {}
      BY <1>1, <1>3, <1>9, <3>6 DEF Tab!Taken, StaysClean
    <3>8. p.single = FALSE /\ key = Tab!Whole(p.e)
      BY <1>5, <1>6, <2>2
    <3>9. holder = key
      BY <2>1, <3>8 DEF Tab!Whole
    <3> QED
      BY <2>2, <3>6, <3>7, <3>8, <3>9 DEF Tab!CommandRows, Tab!CommandRecords
  <2>3. CASE p.n # 2
    <3>1. p.n = 1
      BY <1>6, <2>3
    <3>2. b = Tab!Filed(p, Tab!NoBuffer, IF p.single THEN 1 ELSE 2)
      BY <1>3, <3>1 DEF Tab!AssembledCommands, Tab!CommandsHeader
    <3>3. b = [pages |-> << <<p.e, p.v, 1>> >>, total |-> IF p.single THEN 1 ELSE 2]
      BY <3>1, <3>2, BufferOf, FewPages, FiledIsJoined DEF Tab!Joined, Tab!NoBuffer, Tab!Row
    <3>4. Len(b.pages) = 1 /\ b.total = IF p.single THEN 1 ELSE 2
      BY <3>3, BufferOf
    <3>5. p.single => key = tburst /\ key[2]
      BY <1>5, <1>6, <2>1
    <3> QED
      BY <1>6, <2>1, <2>3, <3>3, <3>4, <3>5 DEF Tab!Finished
  <2> QED
    BY <2>2, <2>3
<1> DEFINE r == Tab!CommandRows(p.e, b)
           e == p.e
<1>10. Tab!Taken(p, e, b, holder, key, r) /\ e = p.e /\ e \in Entities
  BY <1>3, <1>5
<1>11. StaysClean(p.e) =>
         IF p.n = 2 \/ p.single
           THEN /\ Tab!Finished(b) /\ holder = key /\ (p.single => key[2])
                /\ p.n = 2 => r = Tab!Rows(p.e, p.v)
           ELSE /\ ~Tab!Finished(b) /\ b = [pages |-> << <<p.e, p.v, 1>> >>, total |-> 2]
  BY <1>9
<1>12. key = Tab!Whole(e) \/ key = Tab!None \/ (tkind = "commands" /\ key[2])
  BY <1>1
<1>13. /\ tkind # "map" /\ (tkind = "macros" => tlast' = {twire[1].e})
       /\ (tkind # "commands" => ~holder[2]) /\ e = twire[1].e /\ TabInv
       /\ holder = tburst \/ (holder[1] = twire[1].e /\ ~Clean(twire[1].e))
  BY <1>1, <1>2, <1>8, <1>10
<1>14. /\ e \in Entities /\ Tab!Taken(twire[1], e, b, holder, key, r)
       /\ StaysClean(twire[1].e) =>
            IF twire[1].n = 2 \/ twire[1].single
              THEN /\ Tab!Finished(b) /\ holder = key /\ (twire[1].single => key[2])
                   /\ twire[1].n = 2 => r = Tab!Rows(twire[1].e, twire[1].v)
              ELSE /\ ~Tab!Finished(b)
                   /\ b = [pages |-> << <<twire[1].e, twire[1].v, 1>> >>, total |-> 2]
  BY <1>2, <1>10, <1>11
<1> HIDE DEF r, e
<1> QED
  BY <1>1, <1>12, <1>13, <1>14, TakenKeeps

LEMMA CommandsPageKeeps ==
  ASSUME TabInv, NEW p, Tab!CommandsPage(p)
  PROVE  TabInv'
<1>1. tkind = "commands" /\ twire # << >> /\ p = twire[1]
  BY TailAt DEF Tab!CommandsPage, Tab!CommandsFirst, Tab!CommandsLater, Tab!CommandsSingle,
                Tab!CommandsTaken, Tab!Page, TabInv, Linked
<1>2. p \in Pages /\ p.e \in Entities /\ p.single \in BOOLEAN /\ p.n \in {1, 2}
  <2>1. p \in Pages
    BY <1>1, TailAt DEF TabInv, Linked
  <2> QED
    BY <2>1 DEF Pages
<1>3. Tab!Whole(p.e) \in Requests /\ tburst \in Requests \cup {Tab!None}
  BY <1>2 DEF Requests, Tab!Whole, TabInv, Linked
<1>4. p.single => p.n = 1
  BY <1>1, TailAt DEF TabInv, Linked, InOrder
<1> DEFINE whole == Tab!Whole(p.e)
<1>5. CASE Tab!CommandsFirst(p)
  <2>1. Tab!CommandsTaken(p, whole, whole) /\ ~p.single
    BY <1>5 DEF Tab!CommandsFirst
  <2>2. tburst = <<p.e, p.single>> => whole = tburst
    BY <1>2, <2>1 DEF Tab!Whole
  <2>3. whole = Tab!Whole(p.e) /\ whole \in Requests
    BY <1>3
  <2> HIDE DEF whole
  <2> QED
    BY <2>1, <2>2, <2>3, CommandsKeep
<1> DEFINE holder == Tab!Claimed(p)
<1>6. /\ holder \in Requests /\ (holder = tburst \/ holder = Tab!Whole(p.e))
      /\ tburst # Tab!None => holder = tburst
  BY <1>3 DEF Tab!Claimed
<1>7. tburst = <<p.e, p.single>> => tburst # Tab!None
  <2>1. <<p.e, p.single>> \in Requests
    BY <1>2 DEF Requests
  <2> QED
    BY <2>1, RequestIs
<1>8. CASE Tab!CommandsLater(p)
  <2>1. Tab!CommandsTaken(p, holder, whole) /\ ~p.single
    BY <1>4, <1>8 DEF Tab!CommandsLater, Tab!CommandsHeader
  <2>2. whole = Tab!Whole(p.e)
    OBVIOUS
  <2> HIDE DEF whole, holder
  <2> QED
    BY <1>6, <1>7, <2>1, <2>2, CommandsKeep
<1>9. CASE Tab!CommandsSingle(p)
  <2> DEFINE key == IF tburst[2] THEN tburst ELSE Tab!None
  <2>1. Tab!CommandsTaken(p, holder, key) /\ p.single
    BY <1>9 DEF Tab!CommandsSingle
  <2>2. key = (IF tburst[2] THEN tburst ELSE Tab!None) /\ (key = Tab!None \/ key[2])
    OBVIOUS
  <2> HIDE DEF key, holder
  <2> QED
    BY <1>6, <1>7, <2>1, <2>2, CommandsKeep
<1> QED
  BY <1>5, <1>8, <1>9 DEF Tab!CommandsPage

LEMMA MacrosPageKeeps ==
  ASSUME TabInv, NEW p, Tab!MacrosPage(p)
  PROVE  TabInv'
<1>1. /\ tkind = "macros" /\ twire # << >> /\ p = Head(twire)
      /\ tkind' = tkind /\ thub' = thub /\ tcut' = tcut
  BY DEF Tab!MacrosPage, Tab!Page
<1>2. p = twire[1] /\ twire[1] \in Pages /\ 1 \in DOMAIN twire
  BY <1>1, TailAt DEF TabInv, Linked
<1>3. p.e \in Entities /\ p.n \in {1, 2} /\ p.single \in BOOLEAN
  BY <1>2 DEF Pages
<1>4. p.single = FALSE /\ (p.n = 2 => tlast = {p.e})
  BY <1>1, <1>2, <1>3 DEF TabInv, Linked, InOrder
<1>5. tlast' = {p.e}
  BY <1>3, <1>4 DEF Tab!MacrosPage, Tab!MacrosHeader
<1> DEFINE e == p.e
           key == Tab!Whole(e)
           holder == IF tburst = Tab!None THEN key ELSE tburst
<1>6. PICK b \in Tab!AssembledMacros(p, tbuffer[e]) :
        Tab!Taken(p, e, b, holder, key, Tab!MacroRows(e, b))
  BY <1>5 DEF Tab!MacrosPage
<1> DEFINE r == Tab!MacroRows(e, b)
<1>7. tstrayed \subseteq tstrayed'
  BY <1>6 DEF Tab!Taken
<1>8. StaysClean(e) => Clean(e) /\ tburst = <<e, p.single>>
  BY <1>1, <1>2, <1>7, FirstIs
<1>9. key \in Requests /\ holder \in Requests /\ ~holder[2] /\ key[1] = e
  BY <1>1, <1>3 DEF TabInv, Linked, Singly, Requests, Tab!Whole, Tab!None
<1>10. Clean(e) => tburst = key /\ tburst # Tab!None
  <2> HAVE Clean(e)
  <2>1. tburst = <<e, p.single>>
    BY <1>2 DEF TabInv, Linked, IsRest, Rest
  <2> QED
    BY <1>4, <1>9, <2>1, RequestIs DEF Tab!Whole
<1>11. holder = tburst \/ (holder[1] = e /\ ~Clean(e))
  BY <1>9, <1>10
<1>12. ASSUME StaysClean(e)
       PROVE  IF p.n = 2
                THEN Tab!Finished(b) /\ holder = key /\ r = Tab!Rows(e, p.v)
                ELSE /\ ~Tab!Finished(b)
                     /\ b = [pages |-> << <<e, p.v, 1>> >>, total |-> 2]
  <2>1. CASE p.n = 2
    <3> DEFINE x == <<e, p.v, 1>>
               y == <<e, p.v, 2>>
    <3>1. tbuffer[e] = [pages |-> <<x>>, total |-> 2] /\ Tab!Row(p) = y
      BY <1>1, <1>2, <1>8, <1>12, <2>1, HalfIsFirst DEF Tab!Row
    <3>2. b = Tab!Joined(p, tbuffer[e], 2)
      BY <1>6, <2>1, <3>1 DEF Tab!AssembledMacros, Tab!MacrosHeader
    <3>3. b.pages = Append(<<x>>, y) /\ b.total = 2
      BY <3>1, <3>2 DEF Tab!Joined
    <3>4. Tab!Finished(b) /\ Tab!Range(b.pages) = {x, y} /\ Tab!Rows(e, p.v) = {x, y}
      BY <3>3, BufferOf, RowsAre DEF Tab!Finished
    <3>5. holder = key
      BY <1>8, <1>10, <1>12
    <3> QED
      BY <2>1, <3>4, <3>5 DEF Tab!MacroRows, Tab!MacroRecords
  <2>2. CASE p.n # 2
    <3>1. p.n = 1
      BY <1>3, <2>2
    <3>2. tbuffer[e] = Tab!NoBuffer
      BY <1>1, <1>2, <1>8, <1>12, <2>2 DEF TabInv, Assembled, HalfWay, Clean
    <3>3. b = Tab!Joined(p, tbuffer[e], tbuffer[e].total + 2)
      BY <1>6, <3>1 DEF Tab!AssembledMacros, Tab!MacrosHeader
    <3>4. b = [pages |-> << <<e, p.v, 1>> >>, total |-> 2]
      BY <3>1, <3>2, <3>3, BufferOf DEF Tab!Joined, Tab!NoBuffer, Tab!Row
    <3> QED
      BY <2>2, <3>4, BufferOf DEF Tab!Finished
  <2> QED
    BY <2>1, <2>2
<1>13. Tab!Taken(p, e, b, holder, key, r) /\ e = p.e /\ key = Tab!Whole(e) /\ e \in Entities
  BY <1>3, <1>6
<1>14. tkind # "map" /\ tkind # "commands"
  BY <1>1
<1> HIDE DEF e, key, holder, r
<1>15. StaysClean(p.e) =>
         IF p.n = 2 \/ p.single
           THEN /\ Tab!Finished(b) /\ holder = key /\ (p.single => key[2])
                /\ p.n = 2 => r = Tab!Rows(p.e, p.v)
           ELSE /\ ~Tab!Finished(b) /\ b = [pages |-> << <<p.e, p.v, 1>> >>, total |-> 2]
  BY <1>4, <1>12, <1>13
<1> QED
  BY <1>1, <1>2, <1>5, <1>9, <1>11, <1>13, <1>14, <1>15, TakenKeeps

LEMMA MapPageKeeps ==
  ASSUME TabInv, NEW p, Tab!MapPage(p)
  PROVE  TabInv'
<1>1. /\ tkind = "map" /\ twire # << >> /\ p = Head(twire)
      /\ tkind' = tkind /\ thub' = thub /\ tcut' = tcut
  BY DEF Tab!MapPage, Tab!Page
<1>2. p = twire[1] /\ twire[1] \in Pages /\ 1 \in DOMAIN twire
  BY <1>1, TailAt DEF TabInv, Linked
<1>3. p.e \in Entities /\ p.n \in {1, 2} /\ p.single \in BOOLEAN
  BY <1>2 DEF Pages
<1> DEFINE owners == IF tburst # Tab!None THEN {tburst[1]} ELSE {r[1] : r \in tpending}
<1>4. CASE owners = {}
  <2>1. Tab!Ignored(p) /\ tburst = Tab!None
    BY <1>4 DEF Tab!MapPage
  <2> QED
    BY <1>1, <1>2, <2>1, IgnoredKeeps
<1>5. CASE owners # {}
  <2>1. PICK e \in owners :
          /\ ttable' = [ttable EXCEPT ![e] = ttable[e] \cup {Tab!Row(p)}]
          /\ tstrayed' = IF p.late THEN tstrayed \cup {p.e, e} ELSE tstrayed
          /\ IF p.n = 2 THEN Tab!Ended(Tab!Whole(e), tcomplete) /\ Tab!Drained(Tail(twire))
             ELSE /\ tburst' = Tab!Whole(e) /\ twire' = Tail(twire) /\ tqueue' = tqueue
                  /\ tpending' = tpending /\ tcomplete' = tcomplete
          /\ tbuffer' = tbuffer /\ tlast' = tlast
    BY <1>5 DEF Tab!MapPage, Tab!Mapped, Tab!Upd
  <2> DEFINE holder == Tab!Whole(e)
             ends == p.n = 2
  <2>2. tstrayed \subseteq tstrayed' /\ (p.late => {p.e, e} \subseteq tstrayed')
    BY <2>1
  <2>3. \A f : StaysClean(f) => Clean(f) /\ f \in Entities /\ f \notin tstrayed'
    BY <1>1, <2>2 DEF StaysClean, Clean
  <2>4. /\ p.v \in 1 .. thub[p.e] /\ p.single = FALSE
        /\ tburst = Tab!None => p.late
        /\ StaysClean(p.e) => Clean(p.e) /\ ~p.late /\ tburst = <<p.e, p.single>>
        /\ (tburst # Tab!None /\ StaysClean(tburst[1]) /\ ~p.late) => p.e = tburst[1]
    <3>1. p.single => tkind = "commands"
      BY <1>1, <1>2, <2>2, FirstIs
    <3> QED
      BY <1>1, <1>2, <1>3, <2>2, <3>1, FirstIs
  <2>5. /\ e \in Entities
        /\ tburst # Tab!None => e = tburst[1] /\ holder = tburst
    <3>1. tburst # Tab!None => tburst[1] \in Entities /\ tburst = Tab!Whole(tburst[1])
      BY <1>1, RequestIs DEF TabInv, Linked, Singly
    <3>2. \A r \in tpending : r[1] \in Entities
      BY RequestIs DEF TabInv, TabShape
    <3> QED
      BY <2>1, <3>1, <3>2
  <2>6. holder \in Requests /\ holder[2] = FALSE /\ holder[1] = e
    BY <2>5 DEF Requests, Tab!Whole
  <2>7. /\ StaysClean(p.e) => e = p.e /\ holder = tburst
        /\ StaysClean(e) => e = p.e /\ holder = tburst /\ tburst # Tab!None
    BY <2>2, <2>3, <2>4, <2>5, <2>6, RequestIs
  <2>8. holder = tburst \/ (holder # Tab!None /\ ~StaysClean(holder[1]) /\ ~StaysClean(p.e))
    BY <2>6, <2>7, RequestIs
  <2>9. /\ ends \in BOOLEAN /\ (ends <=> p.n = 2) /\ holder \in Requests \cup {Tab!None} /\ ~holder[2]
        /\ IF ends THEN Tab!Drained(Tail(twire))
                   ELSE twire' = Tail(twire) /\ tburst' = holder /\ tqueue' = tqueue
    BY <2>1, <2>6
  <2>10. p.late /\ tburst # Tab!None => ~StaysClean(tburst[1])
    BY <2>2, <2>3, <2>5
  <2>11. /\ DOMAIN ttable = Entities /\ tqueue \in Seq(Requests) /\ TabShape
         /\ \A f \in Entities : ttable'[f] = IF f = e THEN ttable[e] \cup {<<p.e, p.v, p.n>>} ELSE ttable[f]
         /\ DOMAIN ttable' = Entities
    BY <2>1, <2>5 DEF TabInv, TabShape, Tab!Row
  <2>12. IF ends THEN tpending' = tpending \ {holder} /\ tcomplete' = tcomplete \cup {e}
                 ELSE tpending' = tpending /\ tcomplete' = tcomplete
    BY <1>1, <2>1, <2>6 DEF Tab!Ended, Tab!MapEnd
  <2>13. tbuffer' = tbuffer
    BY <2>1
  <2> HIDE DEF holder, ends, owners
  <2>14. /\ Linked' /\ Singly' /\ tqueue' \in Seq(Requests)
         /\ \A i \in DOMAIN twire' : StaysClean(twire'[i].e) =>
              IF ends THEN /\ i # 1 \/ twire'[i].n = 1
                           /\ tqueue # << >> /\ twire'[i].e = tqueue[1][1]
              ELSE /\ i = 1 /\ twire'[1].e = p.e /\ twire'[1].v = p.v
                   /\ twire'[1].n = 2 /\ p.n = 1 /\ ~p.single
         /\ IF ~ends THEN tburst' = holder /\ tqueue' = tqueue
            ELSE \/ tqueue = << >> /\ tqueue' = tqueue /\ tburst' = Tab!None
                 \/ tqueue # << >> /\ tqueue' = Tail(tqueue) /\ tburst' = tqueue[1]
    BY <1>1, <1>2, <2>2, <2>4, <2>8, <2>9, <2>10, LinkedOn
  <2>15. TabShape'
    BY <1>1, <2>11, <2>12, <2>13, <2>14 DEF TabShape
  \* The queue, after its first read left if the burst ended.
  <2>16. \A i \in DOMAIN tqueue' : \E j \in DOMAIN tqueue :
           tqueue'[i] = tqueue[j] /\ j = (IF ends THEN i + 1 ELSE i)
    <3>1. CASE ends /\ tqueue # << >>
      <4>1. /\ DOMAIN tqueue' = 1 .. Len(tqueue) - 1 /\ DOMAIN tqueue = 1 .. Len(tqueue)
            /\ \A i \in 1 .. Len(tqueue) - 1 : tqueue'[i] = tqueue[i + 1] /\ i + 1 \in 1 .. Len(tqueue)
        BY <2>11, <2>14, <3>1, TailAt
      <4> QED
        BY <3>1, <4>1
    <3>2. CASE ~ends
      BY <2>14, <3>2
    <3>3. CASE ends /\ tqueue = << >>
      BY <2>14, <3>3
    <3> QED
      BY <3>1, <3>2, <3>3
  <2>17. ASSUME ends, tburst' # Tab!None
         PROVE  tqueue # << >> /\ tburst' = tqueue[1] /\ 1 \in DOMAIN tqueue
    <3>1. tqueue # << >> /\ tburst' = tqueue[1]
      BY <2>14, <2>17
    <3> QED
      BY <2>11, <3>1, TailAt
  <2>18. Assembled'
    <3>1. ASSUME NEW f \in Entities, StaysClean(f), HalfWay(f)'
          PROVE  ttable'[f] = {<<f, twire'[1].v, 1>>}
      <4>1. 1 \in DOMAIN twire' /\ twire'[1].e = f /\ twire'[1].n = 2
        <5>1. twire' \in Seq(Pages) /\ twire' # << >> /\ twire'[1].e = f /\ twire'[1].n = 2
          BY <2>14, <3>1 DEF HalfWay, Linked
        <5> QED
          BY <5>1
      <4>2. f = p.e /\ twire'[1].v = p.v /\ p.n = 1
        BY <2>14, <3>1, <4>1
      <4>3. ttable[f] = {}
        BY <1>1, <1>2, <2>3, <3>1, <4>2 DEF TabInv, ReadOnce
      <4> QED
        BY <2>7, <2>11, <3>1, <4>2, <4>3
    <3> QED
      BY <1>1, <3>1, Zenon DEF Assembled, First, Clean, StaysClean
  <2>19. WholeOnce'
    <3> SUFFICES ASSUME NEW f \in Entities, StaysClean(f), f \in tcomplete'
                 PROVE  \E v \in 1 .. thub[f] : ttable'[f] = Tab!Rows(f, v)
      BY <1>1, Zenon DEF WholeOnce, IsWhole, Clean, StaysClean
    <3>1. f \in tcomplete => \E v \in 1 .. thub[f] : ttable[f] = Tab!Rows(f, v)
      BY <1>1, <2>3 DEF TabInv, WholeOnce, IsWhole
    <3>2. CASE f # e
      BY <2>11, <2>12, <3>1, <3>2
    <3>3. CASE f = e /\ p.n = 1
      <4>1. f = p.e /\ f \in tcomplete /\ ttable[f] = {}
        BY <1>1, <1>2, <2>3, <2>7, <2>9, <2>12, <3>3 DEF TabInv, ReadOnce
      <4>2. PICK v : ttable[f] = Tab!Rows(f, v)
        BY <3>1, <4>1
      <4>3. <<f, v, 1>> \in ttable[f]
        BY <4>2, RowsAre
      <4> QED
        BY <4>1, <4>3
    <3>4. CASE f = e /\ p.n = 2
      <4>1. f = p.e /\ HalfWay(f) /\ Clean(f)
        BY <1>1, <1>2, <2>3, <2>7, <3>4 DEF HalfWay
      <4>2. ttable[f] = {<<f, p.v, 1>>}
        BY <1>1, <1>2, <4>1 DEF TabInv, Assembled, First
      <4>3. ttable'[f] = Tab!Rows(f, p.v)
        BY <2>11, <3>4, <4>1, <4>2, RowsAre
      <4> QED
        BY <2>4, <4>1, <4>3
    <3> QED
      BY <1>3, <3>2, <3>3, <3>4
  <2>20. ReadOnce'
    <3> SUFFICES ASSUME NEW f \in Entities, StaysClean(f)
                 PROVE  /\ Waiting(f)' => Tab!Whole(f) \in tpending'
                        /\ \A i \in DOMAIN tqueue' : tqueue'[i] = Tab!Whole(f) =>
                             /\ ttable'[f] = {} /\ tburst' # Tab!Whole(f)
                             /\ \A j \in DOMAIN tqueue' : tqueue'[j] = Tab!Whole(f) => j = i
                        /\ \A i \in DOMAIN twire' : twire'[i].e = f /\ twire'[i].n = 1 => ttable'[f] = {}
      BY Zenon DEF ReadOnce, Clean, StaysClean
    <3>1. /\ Waiting(f) => Tab!Whole(f) \in tpending
          /\ \A i \in DOMAIN tqueue : tqueue[i] = Tab!Whole(f) =>
               /\ ttable[f] = {} /\ tburst # Tab!Whole(f)
               /\ \A j \in DOMAIN tqueue : tqueue[j] = Tab!Whole(f) => j = i
      BY <1>1, <2>3 DEF TabInv, ReadOnce
    <3>2. Tab!Whole(f) # Tab!None /\ (Tab!Whole(f) = holder => f = e)
      <4>1. Tab!Whole(f) \in Requests /\ Tab!Whole(f)[1] = f
        BY DEF Requests, Tab!Whole
      <4> QED
        BY <2>6, <4>1, RequestIs
    <3>3. ASSUME NEW i \in DOMAIN tqueue, tqueue[i] = Tab!Whole(f)
          PROVE  f # e
      BY <2>7, <3>1, <3>3 DEF holder
    <3>4. ASSUME Waiting(f)' PROVE Tab!Whole(f) \in tpending'
      <4>1. CASE \E i \in DOMAIN tqueue : tqueue[i] = Tab!Whole(f)
        <5>1. Tab!Whole(f) \in tpending /\ f # e
          BY <3>1, <3>3, <4>1 DEF Waiting
        <5> QED
          BY <2>12, <3>2, <5>1
      <4>2. CASE ~\E i \in DOMAIN tqueue : tqueue[i] = Tab!Whole(f)
        <5>1. tburst' = Tab!Whole(f)
          BY <2>16, <3>4, <4>2 DEF Waiting
        <5>2. ~ends
          BY <2>17, <3>2, <4>2, <5>1
        <5>3. tburst = Tab!Whole(f)
          BY <2>7, <2>14, <3>2, <5>1, <5>2
        <5> QED
          BY <2>12, <3>1, <5>2, <5>3 DEF Waiting
      <4> QED
        BY <4>1, <4>2
    <3>5. ASSUME NEW i \in DOMAIN tqueue', tqueue'[i] = Tab!Whole(f)
          PROVE  /\ ttable'[f] = {} /\ tburst' # Tab!Whole(f)
                 /\ \A j \in DOMAIN tqueue' : tqueue'[j] = Tab!Whole(f) => j = i
      <4>1. PICK k \in DOMAIN tqueue : tqueue[k] = Tab!Whole(f) /\ k = (IF ends THEN i + 1 ELSE i)
        BY <2>16, <3>5
      <4>2. i \in Nat \ {0}
        BY <2>14
      <4>3. ttable'[f] = {} /\ f # e
        BY <2>11, <3>1, <3>3, <4>1
      <4>4. tburst' # Tab!Whole(f)
        <5>1. CASE ends
          BY <2>17, <3>1, <3>2, <4>1, <4>2, <5>1
        <5>2. CASE ~ends
          BY <2>14, <3>2, <4>3, <5>2
        <5> QED
          BY <5>1, <5>2
      <4>5. ASSUME NEW j \in DOMAIN tqueue', tqueue'[j] = Tab!Whole(f) PROVE j = i
        <5>1. PICK m \in DOMAIN tqueue : tqueue[m] = Tab!Whole(f) /\ m = (IF ends THEN j + 1 ELSE j)
          BY <2>16, <4>5
        <5>2. m = k /\ j \in Nat \ {0}
          BY <2>14, <3>1, <4>1, <5>1
        <5> QED
          BY <4>1, <4>2, <5>1, <5>2
      <4> QED
        BY <4>3, <4>4, <4>5
    <3>6. ASSUME NEW i \in DOMAIN twire', twire'[i].e = f, twire'[i].n = 1
          PROVE  ttable'[f] = {}
      <4>1. ends /\ tqueue # << >> /\ f = tqueue[1][1]
        BY <2>14, <3>6
      <4>2. 1 \in DOMAIN tqueue /\ tqueue[1] \in Requests /\ ~tqueue[1][2]
        BY <1>1, <2>11, <4>1, TailAt DEF TabInv, Singly
      <4>3. tqueue[1] = Tab!Whole(f)
        BY <4>1, <4>2, RequestIs
      <4> QED
        BY <2>11, <3>1, <3>3, <4>2, <4>3
    <3> QED
      BY <3>4, <3>5, <3>6
  <2> QED
    BY <2>14, <2>15, <2>18, <2>19, <2>20 DEF TabInv
<1> QED
  BY <1>4, <1>5

-----------------------------------------------------------------------------

(* The front ends, and what else happens.                                    *)

LEMMA ReceiveKeeps ==
  ASSUME TabInv, Tab!Receive
  PROVE  TabInv'
BY ButtonsPageKeeps, CommandsPageKeeps, MacrosPageKeeps, MapPageKeeps DEF Tab!Receive

\* A read is asked for: it leaves at once if the scheduler is free, after pages
\* that are all late, and is deferred otherwise.
LEMMA AskKeeps ==
  ASSUME TabInv, NEW r \in Requests, Tab!Ask(r), r[2] => tkind = "commands",
         tstrayed \subseteq tstrayed',
         tkind = "map" /\ ttable[r[1]] # {} => r[1] \in tstrayed'
  PROVE  TabInv'
<1>1. /\ r \notin tpending /\ tpending' = tpending \cup {r}
      /\ IF tburst = Tab!None THEN tburst' = r /\ twire' = twire \o Tab!Answer(r) /\ tqueue' = tqueue
         ELSE tqueue' = Append(tqueue, r) /\ twire' = twire /\ tburst' = tburst
      /\ tkind' = tkind /\ thub' = thub /\ tbuffer' = tbuffer /\ tlast' = tlast
      /\ ttable' = ttable /\ tknown' = tknown /\ tcomplete' = tcomplete /\ tcut' = tcut
  BY DEF Tab!Ask, Tab!Sent, Tab!cache
<1>2. /\ r[1] \in Entities /\ r[2] \in BOOLEAN /\ r # Tab!None /\ r = <<r[1], r[2]>>
      /\ ~r[2] => r = Tab!Whole(r[1])
  BY RequestIs
<1>3. \A f : StaysClean(f) => Clean(f) /\ f \in Entities
  BY <1>1 DEF StaysClean, Clean
<1>4. /\ twire \in Seq(Pages) /\ DOMAIN twire = 1 .. Len(twire) /\ Len(twire) \in Nat
      /\ tqueue \in Seq(Requests) /\ DOMAIN tqueue = 1 .. Len(tqueue) /\ Len(tqueue) \in Nat
      /\ TabShape /\ Linked /\ Singly
  BY DEF TabInv, TabShape, Linked
\* The link, and what an undisturbed entity has on it now.
<1>5. /\ Linked' /\ Singly' /\ tqueue' \in Seq(Requests)
      /\ \A f \in Entities : StaysClean(f) => (HalfWay(f)' <=> HalfWay(f))
      /\ \A i \in DOMAIN twire' : StaysClean(twire'[i].e) /\ twire'[i].n = 1 =>
           \/ tburst = Tab!None /\ twire'[i].e = r[1]
           \/ tburst # Tab!None /\ i \in DOMAIN twire /\ twire'[i] = twire[i]
  <2>1. CASE tburst = Tab!None
    <3>1. \A i \in 1 .. Len(twire) : twire[i].late /\ ~StaysClean(twire[i].e)
      <4> SUFFICES ASSUME NEW i \in 1 .. Len(twire) PROVE twire[i].late /\ ~StaysClean(twire[i].e)
        OBVIOUS
      <4>1. twire[i].late
        BY <1>4, <2>1 DEF Linked, Attributed
      <4>2. ~Clean(twire[i].e)
        BY <1>4, <4>1 DEF Linked, IsRest, Rest
      <4> QED
        BY <1>3, <4>1, <4>2
    <3>2. twire' = twire \o Tab!Answer(r) /\ tburst' = r /\ tqueue' = tqueue
      BY <1>1, <2>1
    <3>3. /\ Linked'
          /\ \A i \in DOMAIN twire' : StaysClean(twire'[i].e)
               => (i # 1 \/ twire'[i].n = 1) /\ twire'[i].e = r[1]
      <4> DEFINE w == twire
                 last == tlast
      <4>1. /\ w \in Seq(Pages) /\ InOrder(w, last) /\ tlast' = last
            /\ \A i \in 1 .. Len(w) : w[i].late /\ ~StaysClean(w[i].e)
            /\ IF r = Tab!None THEN twire' = w ELSE twire' = w \o Tab!Answer(r)
        BY <1>1, <1>2, <1>4, <3>1, <3>2 DEF Linked
      <4>2. (tkind # "commands" => ~r[2]) /\ r \in Requests \cup {Tab!None}
        OBVIOUS
      <4> HIDE DEF w, last
      <4> QED
        BY <1>1, <1>4, <3>2, <4>1, <4>2, LinkedAnew
    <3>4. Singly' /\ tqueue' \in Seq(Requests)
      BY <1>1, <1>4, <3>2 DEF Singly
    <3>5. ASSUME NEW f \in Entities, StaysClean(f) PROVE ~HalfWay(f)' /\ ~HalfWay(f)
      <4>1. ~HalfWay(f)
        BY <1>4, <3>1, <3>5 DEF HalfWay
      <4>2. twire' \in Seq(Pages)
        BY <3>3 DEF Linked
      <4>3. twire' # << >> => 1 \in DOMAIN twire'
        BY <4>2
      <4> QED
        BY <3>3, <3>5, <4>1, <4>3 DEF HalfWay
    <3> QED
      BY <2>1, <3>3, <3>4, <3>5
  <2>2. CASE tburst # Tab!None
    <3>1. tqueue' = Append(tqueue, r) /\ twire' = twire /\ tburst' = tburst
      BY <1>1, <2>2
    <3>2. Linked'
      <4>1. /\ DOMAIN thub = Entities
            /\ \A f \in Entities : thub[f] \in Nat /\ thub'[f] \in Nat /\ thub[f] <= thub'[f]
        BY <1>1, <1>4 DEF TabShape
      <4> QED
        BY <1>1, <1>3, <1>4, <3>1, <4>1, LinkedKept
    <3>3. Singly' /\ tqueue' \in Seq(Requests)
      <4>1. /\ tqueue' \in Seq(Requests) /\ DOMAIN tqueue' = 1 .. Len(tqueue) + 1
            /\ \A i \in 1 .. Len(tqueue) : tqueue'[i] = tqueue[i]
            /\ tqueue'[Len(tqueue) + 1] = r
        BY <1>4, <3>1
      <4>2. \A i \in DOMAIN tqueue' : i \in DOMAIN tqueue \/ i = Len(tqueue) + 1
        BY <1>4, <4>1
      <4> QED
        BY <1>1, <1>4, <3>1, <4>1, <4>2 DEF Singly
    <3> QED
      BY <2>2, <3>1, <3>2, <3>3 DEF HalfWay
  <2> QED
    BY <2>1, <2>2
<1>6. TabShape'
  BY <1>1, <1>4, <1>5 DEF TabShape
<1>7. Assembled'
  <2>1. ASSUME NEW f \in Entities, StaysClean(f), HalfWay(f)'
        PROVE  IF tkind = "map" THEN ttable[f] = {<<f, twire'[1].v, 1>>}
               ELSE tbuffer[f] = [pages |-> << <<f, twire'[1].v, 1>> >>, total |-> 2]
    <3>1. HalfWay(f) /\ Clean(f)
      BY <1>3, <1>5, <2>1
    <3>2. tburst # Tab!None
      <4>1. 1 \in DOMAIN twire /\ twire[1].e = f
        BY <1>4, <3>1 DEF HalfWay
      <4> QED
        BY <1>4, <3>1, <4>1, RequestIs DEF Linked, IsRest, Rest, Attributed
    <3> QED
      BY <1>1, <3>1, <3>2 DEF TabInv, Assembled, First
  <2>2. ASSUME NEW f \in Entities, StaysClean(f), tkind = "macros", ~HalfWay(f)'
        PROVE  tbuffer[f] = Tab!NoBuffer
    BY <1>3, <1>5, <2>2 DEF TabInv, Assembled
  <2> QED
    BY <1>1, <2>1, <2>2, Zenon DEF Assembled, First, Clean, StaysClean
<1>8. WholeOnce'
  BY <1>1, <1>3, Zenon DEF TabInv, WholeOnce, IsWhole, Clean, StaysClean
<1>9. ReadOnce'
  <2> SUFFICES ASSUME tkind = "map", NEW f \in Entities, StaysClean(f)
               PROVE  /\ Waiting(f)' => Tab!Whole(f) \in tpending'
                      /\ \A i \in DOMAIN tqueue' : tqueue'[i] = Tab!Whole(f) =>
                           /\ ttable[f] = {} /\ tburst' # Tab!Whole(f)
                           /\ \A j \in DOMAIN tqueue' : tqueue'[j] = Tab!Whole(f) => j = i
                      /\ \A i \in DOMAIN twire' : twire'[i].e = f /\ twire'[i].n = 1 => ttable[f] = {}
    BY <1>1, Zenon DEF ReadOnce, Clean, StaysClean
  <2>1. /\ Waiting(f) => Tab!Whole(f) \in tpending
        /\ \A i \in DOMAIN tqueue : tqueue[i] = Tab!Whole(f) =>
             /\ ttable[f] = {} /\ tburst # Tab!Whole(f)
             /\ \A j \in DOMAIN tqueue : tqueue[j] = Tab!Whole(f) => j = i
        /\ \A i \in DOMAIN twire : twire[i].e = f /\ twire[i].n = 1 => ttable[f] = {}
    BY <1>3 DEF TabInv, ReadOnce
  <2>2. r = Tab!Whole(r[1]) /\ (r = Tab!Whole(f) <=> f = r[1])
    <3>1. Tab!Whole(f)[1] = f
      BY DEF Tab!Whole
    <3> QED
      BY <1>2, <3>1
  <2>3. f = r[1] => ttable[f] = {} /\ ~Waiting(f)
    BY <1>1, <2>1, <2>2 DEF StaysClean
  <2>4. CASE tburst = Tab!None
    <3>1. tburst' = r /\ tqueue' = tqueue
      BY <1>1, <2>4
    <3>2. Waiting(f)' => Waiting(f) \/ f = r[1]
      BY <2>2, <3>1 DEF Waiting
    <3>3. ASSUME NEW i \in DOMAIN twire', twire'[i].e = f, twire'[i].n = 1 PROVE ttable[f] = {}
      BY <1>5, <2>3, <2>4, <3>3
    <3>4. ASSUME NEW i \in DOMAIN tqueue, tqueue[i] = Tab!Whole(f) PROVE r # Tab!Whole(f)
      BY <2>2, <2>3, <3>4 DEF Waiting
    <3> QED
      BY <1>1, <2>1, <2>2, <3>1, <3>2, <3>3, <3>4
  <2>5. CASE tburst # Tab!None
    <3>1. /\ tburst' = tburst /\ twire' = twire /\ tqueue' = Append(tqueue, r)
      BY <1>1, <2>5
    <3>2. /\ DOMAIN tqueue' = 1 .. Len(tqueue) + 1
          /\ \A i \in 1 .. Len(tqueue) : tqueue'[i] = tqueue[i]
          /\ tqueue'[Len(tqueue) + 1] = r
      BY <1>4, <3>1
    <3>3. \A i \in DOMAIN tqueue' : i \in DOMAIN tqueue \/ i = Len(tqueue) + 1
      BY <1>4, <3>2
    <3>4. Waiting(f)' => Waiting(f) \/ f = r[1]
      BY <1>4, <2>2, <3>1, <3>2, <3>3 DEF Waiting
    <3>5. ASSUME NEW i \in DOMAIN tqueue', tqueue'[i] = Tab!Whole(f)
          PROVE  /\ ttable[f] = {} /\ tburst # Tab!Whole(f)
                 /\ \A j \in DOMAIN tqueue' : tqueue'[j] = Tab!Whole(f) => j = i
      <4>1. CASE i \in DOMAIN tqueue
        <5>1. tqueue[i] = Tab!Whole(f) /\ Waiting(f)
          BY <1>4, <3>2, <3>5, <4>1 DEF Waiting
        <5>2. f # r[1] /\ r # Tab!Whole(f)
          BY <2>2, <2>3, <5>1
        <5> QED
          BY <1>4, <2>1, <3>2, <3>3, <4>1, <5>1, <5>2
      <4>2. CASE i = Len(tqueue) + 1
        <5>1. f = r[1] /\ ~Waiting(f) /\ ttable[f] = {}
          BY <2>2, <2>3, <3>2, <3>5, <4>2
        <5>2. \A j \in DOMAIN tqueue' : tqueue'[j] = Tab!Whole(f) => j = Len(tqueue) + 1
          BY <1>4, <3>2, <3>3, <5>1 DEF Waiting
        <5> QED
          BY <4>2, <5>1, <5>2 DEF Waiting
      <4> QED
        BY <3>3, <4>1, <4>2
    <3> QED
      BY <1>1, <2>1, <2>2, <3>1, <3>4, <3>5
  <2> QED
    BY <2>4, <2>5
<1> QED
  BY <1>5, <1>6, <1>7, <1>8, <1>9 DEF TabInv

LEMMA AskTableKeeps ==
  ASSUME TabInv, NEW e \in Entities, Tab!AskTable(e)
  PROVE  TabInv'
<1> DEFINE r == Tab!Whole(e)
<1>1. r \in Requests /\ ~r[2] /\ r[1] = e
  BY DEF Requests, Tab!Whole
<1>2. /\ Tab!Ask(r) /\ tstrayed \subseteq tstrayed'
      /\ tkind = "map" /\ ttable[e] # {} => e \in tstrayed'
  BY DEF Tab!AskTable
<1> HIDE DEF r
<1> QED
  BY <1>1, <1>2, AskKeeps

LEMMA AskSingleKeeps ==
  ASSUME TabInv, NEW e \in Entities, Tab!AskSingle(e)
  PROVE  TabInv'
<1> DEFINE r == Tab!Single(e)
<1>1. r \in Requests
  BY DEF Requests, Tab!Single
<1>2. Tab!Ask(r) /\ tstrayed' = tstrayed /\ tkind = "commands"
  BY DEF Tab!AskSingle
<1> HIDE DEF r
<1> QED
  BY <1>1, <1>2, AskKeeps

\* A step that leaves the link alone: what is left to show of its invariant.
LEMMA OffTheLink ==
  ASSUME TabInv, twire' = twire, tburst' = tburst, tqueue' = tqueue, tlast' = tlast,
         tkind' = tkind, thub' \in [Entities -> Nat \ {0}], \A e \in Entities : thub[e] <= thub'[e],
         \A e \in Entities : StaysClean(e) =>
           \/ Clean(e)
           \/ tburst[1] # e /\ \A i \in DOMAIN twire : twire[i].e # e
  PROVE  Linked' /\ Singly' /\ \A f : HalfWay(f)' <=> HalfWay(f)
<1>1. /\ Linked /\ DOMAIN thub = Entities
      /\ \A e \in Entities : thub[e] \in Nat /\ thub'[e] \in Nat /\ thub[e] <= thub'[e]
  BY DEF TabInv, TabShape
<1>2. Linked'
  BY <1>1, LinkedKept
<1> QED
  BY <1>2 DEF TabInv, Singly, HalfWay

\* Cleared, an entity is undisturbed if nothing of it is left anywhere.
LEMMA ClearKeeps ==
  ASSUME TabInv, NEW e \in Entities, Tab!Clear(e)
  PROVE  TabInv'
<1> DEFINE left == \/ \E r \in {tburst} \cup Tab!Range(tqueue) : r[1] = e
                   \/ \E p \in Tab!Range(twire) : p.e = e
                   \/ tkind = "macros" /\ tbuffer[e] # Tab!NoBuffer
<1>1. /\ ttable' = [ttable EXCEPT ![e] = {}] /\ tknown' = tknown \ {e}
      /\ tcomplete' = tcomplete \ {e} /\ tpending' = tpending \ {Tab!Whole(e), Tab!Single(e)}
      /\ tcut' = (IF left THEN tcut ELSE tcut \ {e})
      /\ tstrayed' = (IF left THEN tstrayed \cup {e} ELSE tstrayed \ {e})
      /\ tkind' = tkind /\ thub' = thub /\ twire' = twire /\ tburst' = tburst /\ tqueue' = tqueue
      /\ tbuffer' = tbuffer /\ tlast' = tlast
  BY DEF Tab!Clear, Tab!link, Tab!Upd
<1>2. ASSUME ~left
      PROVE  /\ tburst[1] # e /\ \A i \in DOMAIN twire : twire[i].e # e
             /\ \A i \in DOMAIN tqueue : tqueue[i][1] # e
             /\ tkind = "macros" => tbuffer[e] = Tab!NoBuffer
  BY <1>2, Zenon DEF Tab!Range
<1> HIDE DEF left
<1>3. \A f : StaysClean(f) => f \in Entities /\ (f # e => Clean(f)) /\ (f = e => ~left)
  BY <1>1 DEF StaysClean, Clean
<1>4. /\ thub' \in [Entities -> Nat \ {0}] /\ (\A f \in Entities : thub[f] <= thub'[f])
      /\ TabShape
  BY <1>1 DEF TabInv, TabShape
<1>5. Linked' /\ Singly' /\ \A f : HalfWay(f)' <=> HalfWay(f)
  BY <1>1, <1>2, <1>3, <1>4, OffTheLink
<1>6. /\ \A f \in Entities : f # e => ttable'[f] = ttable[f]
      /\ ttable'[e] = {} /\ DOMAIN ttable' = Entities
  BY <1>1, <1>4 DEF TabShape
<1>7. TabShape'
  BY <1>1, <1>4, <1>6 DEF TabShape
<1>8. ~left => ~HalfWay(e)
  <2> HAVE ~left
  <2>1. twire # << >> => 1 \in DOMAIN twire
    BY TailAt DEF TabInv, Linked
  <2> QED
    BY <1>2, <2>1 DEF HalfWay
<1>9. Assembled'
  <2>1. ASSUME NEW f \in Entities, StaysClean(f)
        PROVE  /\ HalfWay(f) => IF tkind = "map" THEN ttable'[f] = {<<f, twire[1].v, 1>>}
                                ELSE tbuffer[f] = [pages |-> << <<f, twire[1].v, 1>> >>, total |-> 2]
               /\ tkind = "macros" /\ ~HalfWay(f) => tbuffer[f] = Tab!NoBuffer
    <3>1. CASE f = e
      BY <1>2, <1>3, <1>8, <2>1, <3>1
    <3>2. CASE f # e
      BY <1>3, <1>6, <2>1, <3>2 DEF TabInv, Assembled, First
    <3> QED
      BY <3>1, <3>2
  <2> QED
    BY <1>1, <1>5, <2>1, Zenon DEF Assembled, First, Clean, StaysClean
<1>10. WholeOnce'
  <2> SUFFICES ASSUME NEW f \in Entities, StaysClean(f),
                      f \in (IF tkind \in {"buttons", "favorites"} THEN tknown' ELSE tcomplete')
               PROVE  \E v \in 1 .. thub[f] : ttable'[f] = Tab!Rows(f, v)
    BY <1>1, Zenon DEF WholeOnce, IsWhole, Clean, StaysClean
  <2>1. f # e /\ (f \in IF tkind \in {"buttons", "favorites"} THEN tknown ELSE tcomplete)
    BY <1>1
  <2> QED
    BY <1>3, <1>6, <2>1 DEF TabInv, WholeOnce, IsWhole
<1>11. ReadOnce'
  <2> SUFFICES ASSUME tkind = "map", NEW f \in Entities, StaysClean(f)
               PROVE  /\ Waiting(f) => Tab!Whole(f) \in tpending'
                      /\ \A i \in DOMAIN tqueue : tqueue[i] = Tab!Whole(f) =>
                           /\ ttable'[f] = {} /\ tburst # Tab!Whole(f)
                           /\ \A j \in DOMAIN tqueue : tqueue[j] = Tab!Whole(f) => j = i
                      /\ \A i \in DOMAIN twire : twire[i].e = f /\ twire[i].n = 1 => ttable'[f] = {}
    BY <1>1, Zenon DEF ReadOnce, Waiting, Clean, StaysClean
  <2>1. Tab!Whole(f)[1] = f /\ Tab!Single(e)[1] = e /\ Tab!Whole(e)[1] = e
    BY DEF Tab!Whole, Tab!Single
  <2>2. CASE f = e
    BY <1>2, <1>3, <1>6, <2>1, <2>2 DEF Waiting
  <2>3. CASE f # e
    <3>1. Tab!Whole(f) \in tpending => Tab!Whole(f) \in tpending'
      BY <1>1, <2>1, <2>3
    <3> QED
      BY <1>3, <1>6, <2>3, <3>1 DEF TabInv, ReadOnce
  <2> QED
    BY <2>2, <2>3
<1> QED
  BY <1>5, <1>7, <1>9, <1>10, <1>11 DEF TabInv

LEMMA ClearButtonsKeeps ==
  ASSUME TabInv, NEW e \in Entities, Tab!ClearButtons(e)
  PROVE  TabInv'
<1>1. /\ tkind = "favorites" /\ tknown' = tknown \ {e} /\ tpending' = tpending \ {Tab!Whole(e)}
      /\ tkind' = tkind /\ thub' = thub /\ twire' = twire /\ tburst' = tburst /\ tqueue' = tqueue
      /\ tbuffer' = tbuffer /\ tlast' = tlast /\ ttable' = ttable /\ tcomplete' = tcomplete
      /\ tcut' = tcut /\ tstrayed' = tstrayed
  BY DEF Tab!ClearButtons, Tab!link
<1>2. \A f : (StaysClean(f) <=> Clean(f))
  BY <1>1 DEF StaysClean, Clean
<1>3. /\ thub' \in [Entities -> Nat \ {0}] /\ (\A f \in Entities : thub[f] <= thub'[f])
      /\ TabShape
  BY <1>1 DEF TabInv, TabShape
<1>4. Linked' /\ Singly' /\ \A f : HalfWay(f)' <=> HalfWay(f)
  BY <1>1, <1>2, <1>3, OffTheLink
<1>5. TabShape'
  BY <1>1, <1>3 DEF TabShape
<1>6. Assembled'
  BY <1>1, <1>4 DEF TabInv, Assembled, First, Clean
<1>7. WholeOnce'
  BY <1>1 DEF TabInv, WholeOnce, IsWhole, Clean
<1>8. ReadOnce'
  BY <1>1 DEF ReadOnce
<1> QED
  BY <1>4, <1>5, <1>6, <1>7, <1>8 DEF TabInv

LEMMA EditKeeps ==
  ASSUME TabInv, NEW e \in Entities, Tab!Edit(e)
  PROVE  TabInv'
<1>1. /\ thub' = [thub EXCEPT ![e] = thub[e] + 1]
      /\ tkind' = tkind /\ twire' = twire /\ tburst' = tburst /\ tqueue' = tqueue
      /\ tpending' = tpending /\ tbuffer' = tbuffer /\ tlast' = tlast /\ ttable' = ttable
      /\ tknown' = tknown /\ tcomplete' = tcomplete /\ tcut' = tcut /\ tstrayed' = tstrayed
  BY DEF Tab!Edit, Tab!link, Tab!cache, Tab!Upd
<1>2. \A f : (StaysClean(f) <=> Clean(f))
  BY <1>1 DEF StaysClean, Clean
<1>3. TabShape /\ thub \in [Entities -> Nat \ {0}]
  BY DEF TabInv, TabShape
<1>4. thub' \in [Entities -> Nat \ {0}] /\ \A f \in Entities : thub[f] <= thub'[f]
  BY <1>1, <1>3
<1>5. Linked' /\ Singly' /\ \A f : HalfWay(f)' <=> HalfWay(f)
  BY <1>1, <1>2, <1>4, OffTheLink
<1>6. TabShape'
  BY <1>1, <1>3, <1>4 DEF TabShape
<1>7. Assembled'
  BY <1>1, <1>5 DEF TabInv, Assembled, First, Clean
<1>8. WholeOnce'
  <2> SUFFICES ASSUME NEW f \in Entities, Clean(f),
                      f \in (IF tkind \in {"buttons", "favorites"} THEN tknown ELSE tcomplete)
               PROVE  \E v \in 1 .. thub'[f] : ttable[f] = Tab!Rows(f, v)
    BY <1>1, Zenon DEF WholeOnce, IsWhole, Clean
  <2>1. PICK v \in 1 .. thub[f] : ttable[f] = Tab!Rows(f, v)
    BY DEF TabInv, WholeOnce, IsWhole
  <2>2. v \in 1 .. thub'[f]
    BY <1>3, <1>4
  <2> QED
    BY <2>1, <2>2
<1>9. ReadOnce'
  BY <1>1 DEF TabInv, ReadOnce, Waiting, Clean
<1> QED
  BY <1>5, <1>6, <1>7, <1>8, <1>9 DEF TabInv

\* An answer breaks off.
LEMMA BreakOffKeeps ==
  ASSUME TabInv, Tab!BreakOff
  PROVE  TabInv'
<1> DEFINE n == Len(twire)
           w == Tab!Front(twire)
<1>1. /\ twire # << >> /\ twire' = w /\ tcut' = tcut \cup {Tab!Last(twire).e}
      /\ tkind' = tkind /\ thub' = thub /\ tburst' = tburst /\ tqueue' = tqueue
      /\ tpending' = tpending /\ tbuffer' = tbuffer /\ tlast' = tlast /\ ttable' = ttable
      /\ tknown' = tknown /\ tcomplete' = tcomplete /\ tstrayed' = tstrayed
  BY DEF Tab!BreakOff, Tab!cache
<1>2. twire \in Seq(Pages) /\ n \in Nat \ {0} /\ DOMAIN twire = 1 .. n /\ n \in 1 .. n
  BY <1>1 DEF TabInv, Linked
<1>3. Tab!Last(twire) = twire[n]
  BY DEF Tab!Last
<1>4. w = [i \in 1 .. n - 1 |-> twire[i]]
  BY <1>2 DEF Tab!Front
<1> HIDE DEF n, w
<1>5. /\ w \in Seq(Pages) /\ DOMAIN w = 1 .. n - 1 /\ Len(w) = n - 1
      /\ \A i \in 1 .. n - 1 : w[i] = twire[i] /\ i \in 1 .. n
  <2>1. \A i \in 1 .. n - 1 : twire[i] \in Pages /\ i \in 1 .. n
    BY <1>2
  <2>2. w \in [1 .. n - 1 -> Pages] /\ n - 1 \in Nat
    BY <1>2, <1>4, <2>1
  <2> QED
    BY <1>2, <1>4, <2>1, <2>2
<1>6. \A f : StaysClean(f) => Clean(f) /\ f \in Entities /\ f # twire[n].e
  BY <1>1, <1>3 DEF StaysClean, Clean
<1>7. ASSUME NEW i \in 1 .. n PROVE ~StaysClean(twire[i].e)
  <2> SUFFICES ASSUME StaysClean(twire[i].e) PROVE FALSE
    OBVIOUS
  <2>1. Rest(i)
    BY <1>2, <1>6 DEF TabInv, Linked, IsRest
  <2>2. twire[n].e = twire[i].e
    BY <1>2, <2>1 DEF Rest, n
  <2> QED
    BY <1>6, <2>2
<1>8. TabShape' /\ Singly'
  BY <1>1 DEF TabInv, TabShape, Singly
<1>9. InOrder(twire, tlast)'
  <2> SUFFICES ASSUME NEW i \in 1 .. n - 1
               PROVE  /\ w[i].v \in 1 .. thub[w[i].e]
                      /\ w[i].single => w[i].n = 1 /\ tkind = "commands"
                      /\ w[i].n = 2 => IF i = 1 THEN tkind = "macros" => tlast = {w[i].e}
                                                ELSE w[i - 1].e = w[i].e /\ w[i - 1].n = 1
    BY <1>1, <1>5 DEF InOrder
  <2>1. w[i] = twire[i] /\ i \in 1 .. n /\ (i # 1 => w[i - 1] = twire[i - 1])
    BY <1>2, <1>5
  <2>2. /\ twire[i].v \in 1 .. thub[twire[i].e]
        /\ twire[i].single => twire[i].n = 1 /\ tkind = "commands"
        /\ twire[i].n = 2 => IF i = 1 THEN tkind = "macros" => tlast = {twire[i].e}
                                      ELSE twire[i - 1].e = twire[i].e /\ twire[i - 1].n = 1
    BY <1>2, <2>1 DEF TabInv, Linked, InOrder
  <2> QED
    BY <2>1, <2>2
<1>10. Attributed'
  <2> SUFFICES ASSUME NEW i \in 1 .. n - 1, ~w[i].late
               PROVE  /\ tburst # Tab!None
                      /\ w[i].e = tburst[1] \/ ~StaysClean(tburst[1])
    BY <1>1, <1>5 DEF Attributed, Clean, StaysClean
  <2>1. tburst # Tab!None /\ (w[i].e = tburst[1] \/ ~Clean(tburst[1]))
    BY <1>2, <1>5 DEF TabInv, Linked, Attributed
  <2> QED
    BY <1>6, <2>1
<1>11. IsRest'
  <2>1. \A i \in DOMAIN twire' : ~StaysClean(twire'[i].e)
    BY <1>1, <1>5, <1>7
  <2> QED
    BY <2>1, Zenon DEF IsRest, Clean, StaysClean
<1>12. tburst # Tab!None => ~StaysClean(tburst[1])
  <2> SUFFICES ASSUME tburst # Tab!None, StaysClean(tburst[1]) PROVE FALSE
    OBVIOUS
  <2>1. twire[Len(twire)].e = tburst[1]
    BY <1>6 DEF TabInv, Linked, Answered
  <2> QED
    BY <1>6, <2>1 DEF n
<1>13. Answered'
  BY <1>1, <1>12 DEF Answered, Clean, StaysClean
<1>14. Linked'
  BY <1>1, <1>5, <1>9, <1>10, <1>11, <1>13 DEF TabInv, Linked
<1>15. ASSUME NEW f \in Entities, StaysClean(f) PROVE ~HalfWay(f)' /\ ~HalfWay(f)
  <2>1. ~HalfWay(f)
    BY <1>2, <1>7, <1>15 DEF HalfWay
  <2>2. w # << >> => 1 \in 1 .. n - 1
    BY <1>2, <1>5
  <2> QED
    BY <1>1, <1>5, <1>7, <1>15, <2>1, <2>2 DEF HalfWay
<1>16. Assembled'
  <2>1. ASSUME NEW f \in Entities, StaysClean(f), tkind = "macros"
        PROVE  tbuffer[f] = Tab!NoBuffer
    BY <1>6, <1>15, <2>1 DEF TabInv, Assembled
  <2> QED
    BY <1>1, <1>15, <2>1, Zenon DEF Assembled, Clean, StaysClean
<1>17. WholeOnce'
  BY <1>1, <1>6, Zenon DEF TabInv, WholeOnce, IsWhole, Clean, StaysClean
<1>18. ReadOnce'
  BY <1>1, <1>5, <1>6, <1>7 DEF TabInv, ReadOnce, Waiting, Clean, StaysClean
<1> QED
  BY <1>8, <1>14, <1>16, <1>17, <1>18 DEF TabInv

\* The scheduler gives up.  Whoever has a page left is disturbed from here on, and
\* so is the one whose read this was.
LEMMA IdleEndKeeps ==
  ASSUME TabInv, Tab!IdleEnd
  PROVE  TabInv'
<1> DEFINE w == [i \in DOMAIN twire |-> [twire[i] EXCEPT !.late = TRUE]]
           last == tlast
<1>1. /\ tburst # Tab!None /\ tstrayed' = tstrayed
      /\ tcut' = (IF twire = << >> THEN tcut ELSE tcut \cup {p.e : p \in Tab!Range(twire)})
      /\ tkind' = tkind /\ thub' = thub /\ tbuffer' = tbuffer /\ tlast' = tlast
      /\ ttable' = ttable /\ tknown' = tknown /\ Tab!Drained(w)
  BY DEF Tab!IdleEnd
<1>2. tburst \in Requests /\ tburst[1] \in Entities /\ tburst[2] \in BOOLEAN
  BY <1>1, RequestIs DEF TabInv, Linked
<1>3. tpending' = tpending \ {tburst} /\ tcomplete' \subseteq tcomplete \cup {tburst[1]}
  <2>1. tburst \in Entities \X BOOLEAN
    BY <1>2 DEF Requests
  <2>2. Tab!Ended(tburst, tcomplete)
    BY <2>1 DEF Tab!IdleEnd
  <2>3. tkind \in TabKinds
    BY DEF TabInv, TabShape
  <2> QED
    BY <2>2, <2>3 DEF TabKinds, Tab!Ended, Tab!ButtonsEnd, Tab!CommandsEnd, Tab!MacrosEnd, Tab!MapEnd
<1>4. twire \in Seq(Pages) /\ DOMAIN twire = 1 .. Len(twire) /\ Len(twire) \in Nat
  BY DEF TabInv, Linked
<1>5. \A i \in 1 .. Len(twire) : twire[i] \in Pages /\ ~StaysClean(twire[i].e)
  <2> SUFFICES ASSUME NEW i \in 1 .. Len(twire)
               PROVE  twire[i] \in Pages /\ ~StaysClean(twire[i].e)
    OBVIOUS
  <2>1. twire # << >> /\ twire[i] \in Tab!Range(twire)
    BY <1>4 DEF Tab!Range
  <2>2. twire[i].e \in tcut'
    BY <1>1, <2>1
  <2> QED
    BY <1>4, <2>2 DEF StaysClean
<1>6. \A f : StaysClean(f) => Clean(f) /\ f \in Entities
  BY <1>1 DEF StaysClean, Clean
<1>7. ~StaysClean(tburst[1])
  <2> SUFFICES ASSUME StaysClean(tburst[1]) PROVE FALSE
    OBVIOUS
  <2>1. twire # << >> /\ twire[Len(twire)].e = tburst[1]
    BY <1>1, <1>6 DEF TabInv, Linked, Answered
  <2>2. Len(twire) \in 1 .. Len(twire)
    BY <1>4, <2>1
  <2> QED
    BY <1>5, <2>1, <2>2
<1>8. /\ DOMAIN w = 1 .. Len(twire)
      /\ \A i \in 1 .. Len(twire) :
           /\ w[i] \in Pages /\ w[i].e = twire[i].e /\ w[i].v = twire[i].v
           /\ w[i].n = twire[i].n /\ w[i].single = twire[i].single
  BY <1>4, <1>5 DEF Pages
<1>9. w \in Seq(Pages) /\ Len(w) = Len(twire)
  <2>1. w \in [1 .. Len(twire) -> Pages]
    BY <1>4, <1>8
  <2> QED
    BY <1>4, <2>1
<1> HIDE DEF w
<1>10. InOrder(w, last)
  <2> SUFFICES ASSUME NEW i \in 1 .. Len(twire)
               PROVE  /\ w[i].v \in 1 .. thub[w[i].e]
                      /\ w[i].single => w[i].n = 1 /\ tkind = "commands"
                      /\ w[i].n = 2 => IF i = 1 THEN tkind = "macros" => tlast = {w[i].e}
                                                ELSE w[i - 1].e = w[i].e /\ w[i - 1].n = 1
    BY <1>8 DEF InOrder
  <2>1. i # 1 => i - 1 \in 1 .. Len(twire)
    BY <1>4
  <2>2. /\ twire[i].v \in 1 .. thub[twire[i].e]
        /\ twire[i].single => twire[i].n = 1 /\ tkind = "commands"
        /\ twire[i].n = 2 => IF i = 1 THEN tkind = "macros" => tlast = {twire[i].e}
                                      ELSE twire[i - 1].e = twire[i].e /\ twire[i - 1].n = 1
    BY <1>4 DEF TabInv, Linked, InOrder
  <2>3. /\ w[i].e = twire[i].e /\ w[i].v = twire[i].v
        /\ w[i].n = twire[i].n /\ w[i].single = twire[i].single
    BY <1>8
  <2>4. i # 1 => w[i - 1].e = twire[i - 1].e /\ w[i - 1].n = twire[i - 1].n
    BY <1>8, <2>1
  <2> QED
    BY <2>2, <2>3, <2>4
<1>11. TabShape /\ Singly /\ tlast' = last /\ \A i \in DOMAIN w : ~StaysClean(w[i].e)
  BY <1>1, <1>5, <1>8 DEF TabInv
<1> HIDE DEF last
<1>12. /\ Linked' /\ Singly' /\ tqueue' \in Seq(Requests)
       /\ \A i \in DOMAIN twire' : StaysClean(twire'[i].e)
            => /\ i # 1 \/ twire'[i].n = 1
               /\ tburst' # Tab!None /\ twire'[i].e = tburst'[1]
       /\ \/ tqueue = << >> /\ tqueue' = tqueue /\ tburst' = Tab!None
          \/ tqueue # << >> /\ tqueue' = Tail(tqueue) /\ tburst' = tqueue[1]
  BY <1>1, <1>9, <1>10, <1>11, LinkedDrained
<1>13. TabShape'
  BY <1>1, <1>3, <1>11, <1>12 DEF TabShape
<1>14. ASSUME NEW f \in Entities, StaysClean(f) PROVE ~HalfWay(f)' /\ ~HalfWay(f)
  <2>1. ~HalfWay(f)
    BY <1>4, <1>5, <1>14 DEF HalfWay
  <2>2. twire' # << >> => 1 \in DOMAIN twire'
    <3>1. twire' \in Seq(Pages)
      BY <1>12 DEF Linked
    <3> QED
      BY <3>1
  <2> QED
    BY <1>12, <1>14, <2>1, <2>2 DEF HalfWay
<1>15. Assembled'
  <2>1. ASSUME NEW f \in Entities, StaysClean(f), tkind = "macros"
        PROVE  tbuffer[f] = Tab!NoBuffer
    BY <1>6, <1>14, <2>1 DEF TabInv, Assembled
  <2> QED
    BY <1>1, <1>14, <2>1, Zenon DEF Assembled, Clean, StaysClean
<1>16. WholeOnce'
  <2> SUFFICES ASSUME NEW f \in Entities, StaysClean(f),
                      f \in (IF tkind \in {"buttons", "favorites"} THEN tknown ELSE tcomplete')
               PROVE  \E v \in 1 .. thub[f] : ttable[f] = Tab!Rows(f, v)
    BY <1>1, Zenon DEF WholeOnce, IsWhole, Clean, StaysClean
  <2>1. f \in IF tkind \in {"buttons", "favorites"} THEN tknown ELSE tcomplete
    BY <1>3, <1>7
  <2> QED
    BY <1>6, <2>1 DEF TabInv, WholeOnce, IsWhole
<1>17. ReadOnce'
  <2> SUFFICES ASSUME tkind = "map", NEW f \in Entities, StaysClean(f)
               PROVE  /\ Waiting(f)' => Tab!Whole(f) \in tpending'
                      /\ \A i \in DOMAIN tqueue' : tqueue'[i] = Tab!Whole(f) =>
                           /\ ttable[f] = {} /\ tburst' # Tab!Whole(f)
                           /\ \A j \in DOMAIN tqueue' : tqueue'[j] = Tab!Whole(f) => j = i
                      /\ \A i \in DOMAIN twire' : twire'[i].e = f /\ twire'[i].n = 1 => ttable[f] = {}
    BY <1>1, Zenon DEF ReadOnce, Clean, StaysClean
  <2>1. /\ Waiting(f) => Tab!Whole(f) \in tpending
        /\ \A i \in DOMAIN tqueue : tqueue[i] = Tab!Whole(f) =>
             /\ ttable[f] = {} /\ tburst # Tab!Whole(f)
             /\ \A j \in DOMAIN tqueue : tqueue[j] = Tab!Whole(f) => j = i
    BY <1>6 DEF TabInv, ReadOnce
  <2>2. Tab!Whole(f) # Tab!None
    <3>1. Tab!Whole(f) \in Requests
      BY DEF Requests, Tab!Whole
    <3> QED
      BY <3>1, RequestIs
  <2>3. CASE tqueue = << >>
    <3>1. tqueue' = << >> /\ tburst' = Tab!None /\ DOMAIN tqueue' = {}
      BY <1>12, <2>3
    <3>2. ~Waiting(f)'
      BY <2>2, <3>1 DEF Waiting
    <3> QED
      BY <1>12, <3>1, <3>2
  <2>4. CASE tqueue # << >>
    <3>1. /\ tqueue' = Tail(tqueue) /\ tburst' = tqueue[1] /\ 1 \in DOMAIN tqueue
          /\ tqueue[1] \in Requests /\ DOMAIN tqueue' = 1 .. Len(tqueue) - 1
          /\ Len(tqueue) \in Nat /\ DOMAIN tqueue = 1 .. Len(tqueue)
          /\ \A i \in 1 .. Len(tqueue) - 1 : tqueue'[i] = tqueue[i + 1] /\ i + 1 \in 1 .. Len(tqueue)
      <4>1. tqueue \in Seq(Requests) /\ tqueue' = Tail(tqueue) /\ tburst' = tqueue[1]
        BY <1>11, <1>12, <2>4 DEF TabShape
      <4>2. /\ tqueue[1] \in Requests /\ DOMAIN Tail(tqueue) = 1 .. Len(tqueue) - 1
            /\ Len(tqueue) \in Nat \ {0} /\ DOMAIN tqueue = 1 .. Len(tqueue)
            /\ \A i \in 1 .. Len(tqueue) - 1 : Tail(tqueue)[i] = tqueue[i + 1] /\ i + 1 \in 1 .. Len(tqueue)
        BY <2>4, <4>1, TailAt
      <4> QED
        BY <4>1, <4>2
    <3>2. ~tqueue[1][2] => tqueue[1] = Tab!Whole(tqueue[1][1])
      BY <3>1, RequestIs
    <3>3. tqueue[1] = Tab!Whole(tqueue[1][1])
      BY <1>11, <3>1, <3>2 DEF Singly
    <3>4. Waiting(f)' => Tab!Whole(f) \in tpending'
      <4> HAVE Waiting(f)'
      <4>1. PICK k \in DOMAIN tqueue : tqueue[k] = Tab!Whole(f)
        BY <3>1 DEF Waiting
      <4>2. Tab!Whole(f) \in tpending /\ tburst # Tab!Whole(f)
        BY <2>1, <4>1 DEF Waiting
      <4> QED
        BY <1>3, <4>2
    <3>5. ASSUME NEW i \in DOMAIN tqueue', tqueue'[i] = Tab!Whole(f)
          PROVE  /\ ttable[f] = {} /\ tburst' # Tab!Whole(f)
                 /\ \A j \in DOMAIN tqueue' : tqueue'[j] = Tab!Whole(f) => j = i
      <4>1. tqueue[i + 1] = Tab!Whole(f) /\ i + 1 \in DOMAIN tqueue /\ i + 1 # 1 /\ i \in Nat
        BY <3>1, <3>5
      <4>2. ttable[f] = {} /\ tqueue[1] # Tab!Whole(f)
        BY <2>1, <3>1, <4>1
      <4>3. ASSUME NEW j \in DOMAIN tqueue', tqueue'[j] = Tab!Whole(f) PROVE j = i
        <5>1. tqueue[j + 1] = Tab!Whole(f) /\ j + 1 \in DOMAIN tqueue /\ j \in Nat
          BY <3>1, <4>3
        <5>2. j + 1 = i + 1
          BY <2>1, <4>1, <5>1
        <5> QED
          BY <4>1, <5>1, <5>2
      <4> QED
        BY <3>1, <4>2, <4>3
    <3>6. ASSUME NEW i \in DOMAIN twire', twire'[i].e = f, twire'[i].n = 1 PROVE ttable[f] = {}
      <4>1. tqueue[1] = Tab!Whole(f)
        BY <1>12, <3>1, <3>3, <3>6
      <4> QED
        BY <2>1, <3>1, <4>1
    <3> QED
      BY <3>4, <3>5, <3>6
  <2> QED
    BY <2>3, <2>4
<1> QED
  BY <1>12, <1>13, <1>15, <1>16, <1>17 DEF TabInv

\* A restart empties the link, and what it completes anew it may not trust.
LEMMA RestartKeeps ==
  ASSUME TabInv, Tab!Restart
  PROVE  TabInv'
<1>1. /\ twire' = << >> /\ tburst' = Tab!None /\ tqueue' = << >> /\ tpending' = {}
      /\ tbuffer' = [e \in Entities |-> Tab!NoBuffer] /\ tlast' = {}
      /\ ttable' = ttable /\ tknown' = tknown
      /\ tstrayed' = tstrayed \cup (tcomplete' \ tcomplete)
      /\ tkind' = tkind /\ thub' = thub /\ tcut' = tcut
  BY DEF Tab!Restart, Tab!Loaded, Tab!Saved
<1>2. \A f : StaysClean(f) => Clean(f) /\ f \in Entities /\ (f \in tcomplete' => f \in tcomplete)
  BY <1>1 DEF StaysClean, Clean
<1>3. Tab!None[2] = FALSE
  BY DEF Tab!None
<1>4. Linked' /\ Singly'
  BY <1>1, <1>3 DEF Linked, Singly, InOrder, Attributed, IsRest, Answered
<1>5. TabShape'
  BY <1>1 DEF TabInv, TabShape
<1>6. Assembled'
  BY <1>1 DEF Assembled, HalfWay
<1>7. WholeOnce'
  <2> SUFFICES ASSUME NEW f \in Entities, StaysClean(f),
                      f \in (IF tkind \in {"buttons", "favorites"} THEN tknown ELSE tcomplete')
               PROVE  \E v \in 1 .. thub[f] : ttable[f] = Tab!Rows(f, v)
    BY <1>1, Zenon DEF WholeOnce, IsWhole, Clean, StaysClean
  <2> QED
    BY <1>2 DEF TabInv, WholeOnce, IsWhole
<1>8. ASSUME NEW f \in Entities PROVE ~Waiting(f)'
  <2>1. Tab!Whole(f) \in Requests
    BY DEF Requests, Tab!Whole
  <2>2. Tab!Whole(f) # Tab!None
    BY <2>1, RequestIs
  <2> QED
    BY <1>1, <2>2 DEF Waiting
<1>9. ReadOnce'
  BY <1>1, <1>8 DEF ReadOnce
<1> QED
  BY <1>4, <1>5, <1>6, <1>7, <1>9 DEF TabInv

-----------------------------------------------------------------------------

LEMMA TablesInit == Tab!Init => TabInv
<1> SUFFICES ASSUME Tab!Init PROVE TabInv
  OBVIOUS
<1>1. /\ tkind \in TabKinds /\ thub = [e \in Entities |-> 1] /\ twire = << >> /\ tburst = Tab!None
      /\ tqueue = << >> /\ tpending = {} /\ tbuffer = [e \in Entities |-> Tab!NoBuffer]
      /\ tlast = {} /\ ttable = [e \in Entities |-> {}] /\ tknown = {} /\ tcomplete = {}
      /\ tcut = {} /\ tstrayed = {}
  BY DEF Tab!Init, TabKinds
<1>2. Tab!None[2] = FALSE
  BY DEF Tab!None
<1>3. Linked /\ Singly
  BY <1>1, <1>2 DEF Linked, Singly, InOrder, Attributed, IsRest, Answered
<1>4. TabShape
  BY <1>1 DEF TabShape
<1>5. Assembled /\ WholeOnce
  BY <1>1 DEF Assembled, HalfWay, WholeOnce
<1>6. ASSUME NEW f \in Entities PROVE ~Waiting(f)
  <2>1. Tab!Whole(f) \in Requests
    BY DEF Requests, Tab!Whole
  <2>2. Tab!Whole(f) # Tab!None
    BY <2>1, RequestIs
  <2> QED
    BY <1>1, <2>2 DEF Waiting
<1>7. ReadOnce
  BY <1>1, <1>6 DEF ReadOnce
<1> QED
  BY <1>3, <1>4, <1>5, <1>7 DEF TabInv

LEMMA TablesNext == TabInv /\ [Tab!Next]_(Tab!vars) => TabInv'
<1> SUFFICES ASSUME TabInv, [Tab!Next]_(Tab!vars) PROVE TabInv'
  OBVIOUS
<1>1. CASE UNCHANGED Tab!vars
  BY <1>1 DEF Tab!vars, Tab!link, Tab!cache, Tab!bounds, TabInv, TabShape, Singly, Linked,
              InOrder, Attributed, IsRest, Rest, Answered, Assembled, HalfWay, First, WholeOnce,
              IsWhole, ReadOnce, Waiting, Clean
<1>2. ASSUME NEW e \in Entities,
             Tab!AskTable(e) \/ Tab!AskSingle(e) \/ Tab!Clear(e) \/ Tab!ClearButtons(e) \/ Tab!Edit(e)
      PROVE  TabInv'
  BY <1>2, AskTableKeeps, AskSingleKeeps, ClearKeeps, ClearButtonsKeeps, EditKeeps
<1> QED
  BY <1>1, <1>2, ReceiveKeeps, IdleEndKeeps, BreakOffKeeps, RestartKeeps DEF Tab!Next

\* The inductive invariant of EntityTables.
THEOREM TablesInvariant == Tab!Spec => []TabInv
  BY TablesInit, TablesNext, PTL DEF Tab!Spec

\* A table that a getter hands out as complete is one answer of the hub, whole and
\* unmixed, unless an answer of its entity broke off or a late page fell into it
\* (KeymapHandler, MacroHandler, ActivityMapHandler, DeviceButtonFamilyHandler).
THEOREM TableStaysWhole == Tab!Spec => []TableIsWhole
<1>1. TabInv => TableIsWhole
  <2> SUFFICES ASSUME TabInv, NEW e \in Entities, Clean(e), Tab!Ready(e)
               PROVE  IsWhole(e)
    BY DEF TableIsWhole, Tab!TableIsWhole, IsWhole, Clean
  <2>1. tkind \in TabKinds
    BY DEF TabInv, TabShape
  <2>2. e \in IF tkind \in {"buttons", "favorites"} THEN tknown ELSE tcomplete
    BY <2>1 DEF TabKinds, Tab!Ready, Tab!HasButtons, Tab!HasCommands, Tab!HasMacros, Tab!HasMap
  <2> QED
    BY <2>2 DEF TabInv, WholeOnce
<1> QED
  BY <1>1, TablesInvariant, PTL
=============================================================================
