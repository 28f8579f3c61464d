---------------------------- MODULE ActivitySync ----------------------------
(***************************************************************************)
(* One activity on its way from the editor to the hub.  The front end      *)
(* (backup-state.ts, activities-tab.ts) edits a copy of the activity;      *)
(* activity_sync.py turns the difference from the baseline into steps;     *)
(* proxy_activity_sync.py runs the steps as writes on the hub, and the     *)
(* editor takes the hub's content as its next baseline.                    *)
(*                                                                         *)
(* Favorites and macros of an activity share one set of key ids.  The hub  *)
(* keeps an id for life; the editor renumbers them at every move; the plan *)
(* finds out by content which is which.  That is what this module is       *)
(* about: what reaches the hub, and what a wrong id destroys.              *)
(*                                                                         *)
(* Left out: member devices, inputs, names and idle behaviour (steps that  *)
(* touch no key id), long presses, the power macros and the 0x65 commits.  *)
(***************************************************************************)
EXTENDS Integers, Sequences, FiniteSets, SequencesExt, Subsequences

CONSTANTS
  Commands,    \* contents of a favorite: <<device, command>>
  Names,       \* names of macros
  Scripts,     \* step lists of macros
  Empty,       \* the empty step list
  Buttons,     \* buttons that can be bound
  Bases,       \* activities the hub may hold at first
  MaxId,       \* bound: key ids are 1..MaxId (197 in the code)
  MaxEdits,    \* bound: edits of the user
  MaxSyncs,    \* bound: syncs begun
  MaxTrouble   \* bound: lost, refused or repeated messages, edits by others

\* What an instance assumes of its constants.
EditBounds ==
  /\ Empty \in Scripts /\ IsFiniteSet(Buttons)
  /\ {MaxId, MaxEdits, MaxSyncs, MaxTrouble} \subseteq Nat

Ids == 1..MaxId

Favorite(c)  == [is |-> "favorite", what |-> c]
Macro(n, s)  == [is |-> "macro", name |-> n, steps |-> s]
Command(c)   == [is |-> "command", what |-> c]      \* targets of a binding
RunMacro(i)  == [is |-> "macro", id |-> i]

Entries == {Favorite(c) : c \in Commands} \cup {Macro(n, s) : n \in Names, s \in Scripts}
Targets == {Command(c) : c \in Commands} \cup {RunMacro(i) : i \in Ids}

(***************************************************************************)
(* keys: what each id is; order: the ids of the sort table (family 0x61,   *)
(* favorites_order); binds: what each bound button runs.                   *)
(***************************************************************************)
IsActivity(a) ==
  /\ DOMAIN a = {"keys", "order", "binds"}
  /\ DOMAIN a.keys \subseteq Ids /\ Range(a.keys) \subseteq Entries
  /\ a.order \in Seq(Ids)
  /\ DOMAIN a.binds \subseteq Buttons /\ Range(a.binds) \subseteq Targets

BasesAreActivities == \A a \in Bases : IsActivity(a)

VARIABLES
  hub,         \* the activity on the hub
  x1,          \* whether the hub is an X1
  baseline,    \* what the editor believes the hub holds
  edited,      \* the editor's working copy
  status,      \* "editing", "checking", "running", "success", "failed"
  plan,        \* steps left of the sync
  writes,      \* writes left of the step
  seen,        \* macro ids in the proxy's caches
  live,        \* favorites as first read in this run: <<>> or <<function>>
  session,     \* ids given to new macros in this run
  remap,       \* ids proposed for new macros |-> ids given
  edits, syncs, trouble,   \* counters of the bounds
  \* history
  moved,       \* proposals for which the allocator gave another id
  kept,        \* favorites found on the hub that the sync is to keep
  odd          \* what went wrong since the baseline was captured

editor  == <<baseline, edited>>
run     == <<seen, live, session, remap>>
vars    == <<hub, x1, baseline, edited, status, plan, writes, seen, live, session, remap,
             edits, syncs, trouble, moved, kept, odd>>

Troubles == {"foreign", "unread", "deaf", "refused", "unacked", "twice", "promoted", "unsorted", "reworked"}

(***************************************************************************)
(* Activities.                                                             *)
(***************************************************************************)
Kind(a, k)    == {i \in DOMAIN a.keys : a.keys[i].is = k}
Favorites(a)  == Kind(a, "favorite")
Macros(a)     == Kind(a, "macro")
Content(a)    == {a.keys[i].what : i \in Favorites(a)}
Places(a, c)  == {i \in Favorites(a) : a.keys[i].what = c}
Found(a)      == [c \in Content(a) |-> Min(Places(a, c))]   \* where it is first found
Upd(f, x, y)  == [z \in DOMAIN f \cup {x} |-> IF z = x THEN y ELSE f[z]]
Without(f, x) == [y \in DOMAIN f \ {x} |-> f[y]]

\* Listed ids come in the order of the table, the others after them by id.
Rank(a, i) ==
  IF i \in Range(a.order) THEN Max({k \in DOMAIN a.order : a.order[k] = i}) - 1
                          ELSE Cardinality(Range(a.order)) + i
Before(a, i, j) == Rank(a, i) < Rank(a, j) \/ (Rank(a, i) = Rank(a, j) /\ i < j)
Display(a) == Sorted(DOMAIN a.keys, LAMBDA i, j : Before(a, i, j))

\* What the user sees: the shortcuts in order, and what each button runs.
Runs(a, t) == IF t.is = "command" THEN t
              ELSE IF t.id \in Macros(a) THEN a.keys[t.id] ELSE [is |-> "nothing"]
Shown(a) == [shortcuts |-> [k \in DOMAIN Display(a) |-> a.keys[Display(a)[k]]],
             buttons   |-> [b \in DOMAIN a.binds |-> Runs(a, a.binds[b])]]

(***************************************************************************)
(* The editor.                                                             *)
(***************************************************************************)
NextId(a) == 1 + Max({0} \cup DOMAIN a.keys)

\* The keys in the sequence d of their ids, renumbered 1..N.
Renumbered(a, d) ==
  LET position(i) == CHOOSE k \in DOMAIN d : d[k] = i
  IN [keys  |-> [k \in DOMAIN d |-> a.keys[d[k]]],
      order |-> [k \in DOMAIN d |-> k],
      binds |-> [b \in DOMAIN a.binds |->
                   IF a.binds[b].is = "macro" /\ a.binds[b].id \in Macros(a)
                   THEN RunMacro(position(a.binds[b].id)) ELSE a.binds[b]]]

Moved(a) ==
  LET d == Display(a)
  IN {Renumbered(a, InsertAt(RemoveAt(d, k), p, d[k])) : k, p \in DOMAIN d}

Deleted(a, i) ==
  [a EXCEPT !.keys = Without(@, i),
            !.binds = [b \in {b \in DOMAIN @ : a.keys[i].is = "macro" => @[b] # RunMacro(i)} |-> @[b]]]

WithKey(a, i, e) == [a EXCEPT !.keys = Upd(@, i, e)]

MacroEdits(a) ==
  {WithKey(a, i, Macro(n, s)) : i \in Macros(a), n \in Names, s \in Scripts}

Edits(a) ==
  Moved(a)
  \cup {Deleted(a, i) : i \in DOMAIN a.keys}
  \cup {WithKey(a, NextId(a), e) : e \in {Favorite(c) : c \in Commands}
                                     \cup {Macro(n, Empty) : n \in Names}}
  \cup {b \in MacroEdits(a) : \E i \in Macros(a) :     \* one field at a time
          b.keys[i] # a.keys[i] /\ (b.keys[i].name = a.keys[i].name
                                     \/ b.keys[i].steps = a.keys[i].steps)}
  \cup {[a EXCEPT !.binds = Upd(@, b, t)] : b \in Buttons,
          t \in {Command(c) : c \in Commands} \cup {RunMacro(i) : i \in Macros(a)}}
  \cup {[a EXCEPT !.binds = Without(@, b)] : b \in DOMAIN a.binds}

(***************************************************************************)
(* The plan.  Macros are paired by content in three passes; the ids of the *)
(* baseline are taken for the hub's.                                       *)
(***************************************************************************)
PairPass(b, e, pairs, same(_, _)) ==
  FoldLeft(LAMBDA p, i :
             LET free == {j \in Macros(b) \ Range(p) : same(b.keys[j], e.keys[i])}
             IN IF i \in DOMAIN p \/ free = {} THEN p ELSE Upd(p, i, Min(free)),
           pairs, Ascending(Macros(e)))

Pairing(b, e) ==
  LET exact   == PairPass(b, e, << >>, LAMBDA m, n : m = n)
      renamed == PairPass(b, e, exact, LAMBDA m, n : m.steps = n.steps)
  IN PairPass(b, e, renamed, LAMBDA m, n : m.name = n.name)

\* A step for each element of a set of ids or buttons, in ascending order.
Each(S, step(_)) == [k \in 1..Cardinality(S) |-> step(Ascending(S)[k])]

MacroSteps(b, e, pair) ==
  LET with(j) == {i \in Macros(e) \cap DOMAIN pair : pair[i] = j}
      paired  == {j \in Macros(b) : \E i \in with(j) : e.keys[i] # b.keys[j]}
      of(j)   == CHOOSE i \in with(j) : TRUE
  IN Each(paired, LAMBDA j : [do |-> "macro_write", id |-> j, key |-> e.keys[of(j)], new |-> FALSE])
     \o Each(Macros(e) \ DOMAIN pair,
             LAMBDA i : [do |-> "macro_write", id |-> i, key |-> e.keys[i], new |-> TRUE])
     \o Each(Macros(b) \ Range(pair), LAMBDA j : [do |-> "macro_delete", id |-> j])

BindingSteps(b, e, pair) ==
  LET normal(t) == IF t.is = "macro" /\ t.id \in DOMAIN pair THEN RunMacro(pair[t.id]) ELSE t
      changed   == {x \in DOMAIN e.binds : x \notin DOMAIN b.binds
                                            \/ b.binds[x] # normal(e.binds[x])}
  IN SetToSeq({[do |-> "binding_write", button |-> x, to |-> normal(e.binds[x])] : x \in changed})
     \o SetToSeq({[do |-> "binding_delete", button |-> x] : x \in DOMAIN b.binds \ DOMAIN e.binds})

\* Mutant: the order names macros by the editor's positions.
TokenByPosition(e, pair, i) ==
  IF e.keys[i].is = "favorite" THEN e.keys[i]
  ELSE [is |-> "macro", id |-> i, new |-> i \notin DOMAIN pair]

\* What an entry is called in the order: by its content, by the baseline's
\* id, or by the id proposed for a new macro.
Token(e, pair, i) ==
  IF e.keys[i].is = "favorite" THEN e.keys[i]
  ELSE IF i \in DOMAIN pair THEN [is |-> "macro", id |-> pair[i], new |-> FALSE]
  ELSE [is |-> "macro", id |-> i, new |-> TRUE]

FavoriteSteps(b, e, pair) ==
  LET gone     == {i \in Favorites(b) : b.keys[i].what \notin Content(e)}
      added    == {i \in Favorites(e) : e.keys[i].what \notin Content(b)}
      fresh    == added \cup (Macros(e) \ DOMAIN pair)
      stays(i) == IF i \in Favorites(b) THEN i \notin gone ELSE i \in Range(pair)
      self     == [j \in Range(pair) |-> j]
      tokens(a, p, d) == [k \in DOMAIN d |-> Token(a, p, d[k])]
      desired  == tokens(e, pair, Display(e))
      natural  == tokens(b, self, Those(Display(b), {i \in DOMAIN b.keys : stays(i)}))
                  \o tokens(e, pair, Those(Display(e), fresh))
      order    == [do |-> "favorite_order", tokens |-> desired]
  IN Each(gone, LAMBDA i : [do |-> "favorite_delete", id |-> i, what |-> b.keys[i].what])
     \o Each(added, LAMBDA i : [do |-> "favorite_add", what |-> e.keys[i].what])
     \o IF desired # << >> /\ (desired # natural \/ Macros(e) \ DOMAIN pair # {})
        THEN <<order>> ELSE << >>

Plan(b, e) ==
  LET pair == Pairing(b, e)
  IN MacroSteps(b, e, pair) \o BindingSteps(b, e, pair) \o FavoriteSteps(b, e, pair)

(***************************************************************************)
(* The user and others.  RequestSync is sync_activity up to the preflight. *)
(***************************************************************************)
Init ==
  /\ hub \in Bases /\ x1 \in BOOLEAN
  /\ baseline = hub /\ edited = hub
  /\ status = "editing" /\ plan = << >> /\ writes = << >>
  /\ seen = Macros(hub) /\ live = << >> /\ session = {} /\ remap = << >>
  /\ edits = 0 /\ syncs = 0 /\ trouble = 0
  /\ moved = {} /\ kept = {} /\ odd = {}

\* One more trouble, of the kind k.
Trouble(k) == trouble < MaxTrouble /\ trouble' = trouble + 1 /\ odd' = odd \cup {k}
Calm       == UNCHANGED <<trouble, odd>>

Edit ==
  /\ status \in {"editing", "failed"} /\ edits < MaxEdits
  /\ NextId(edited) <= MaxId
  /\ \E a \in Edits(edited) : edited' = a /\ a # edited
  /\ edits' = edits + 1 /\ status' = "editing"
  /\ odd' = odd \cup {k \in {"reworked"} : odd \cap {"refused", "unacked"} # {}}
  /\ UNCHANGED <<hub, x1, baseline, plan, writes, run, syncs, trouble, moved, kept>>

\* An edit by the vendor's app: a shortcut deleted, added or brought forward.
Foreign ==
  /\ Trouble("foreign") /\ status # "success"
  /\ \/ \E i \in DOMAIN hub.keys : hub' = [Deleted(hub, i) EXCEPT !.order = Those(@, Ids \ {i})]
     \/ \E c \in Commands, i \in Ids \ DOMAIN hub.keys :
          hub' = [WithKey(hub, i, Favorite(c)) EXCEPT !.order = Append(@, i)]
     \/ \E d \in {Display(hub)} : hub' = [hub EXCEPT !.order = Reverse(d)]
  /\ kept' = {c \in kept : Places(hub', c) = Places(hub, c)}
  /\ UNCHANGED <<x1, editor, status, plan, writes, run, edits, syncs, moved>>

\* An empty plan succeeds without a look at the hub; an add without an order
\* step rewrites the table by id or, on X1, ends up before unlisted keys; adds
\* are made in the order of ids, where a reused id shows at its old place.
Oddities(p) ==
  LET does    == {p[k].do : k \in DOMAIN p}
      added   == {i \in Favorites(edited) : edited.keys[i].what \notin Content(baseline)}
      byId    == \A i, j \in added : i < j => Before(edited, i, j)
      ordered == "favorite_order" \in does
                 \/ (x1 /\ byId /\ DOMAIN baseline.keys \subseteq Range(baseline.order))
  IN {k \in {"unread"} : p = << >>}
     \cup {k \in {"unsorted"} : "favorite_add" \in does /\ ~ordered}

\* The baseline has the id for what the hub has there, or for nothing.
Fits(i) == i \in DOMAIN baseline.keys => baseline.keys[i] = hub.keys[i]

RequestSync ==
  /\ status \in {"editing", "failed"} /\ edited # baseline /\ syncs < MaxSyncs
  /\ syncs' = syncs + 1
  /\ plan' = Plan(baseline, edited)
  /\ status' = IF plan' = << >> THEN "success" ELSE "checking"
  /\ live' = << >> /\ session' = {} /\ remap' = << >>
  /\ moved' = {} /\ kept' = {c \in Content(hub) \cap Content(edited) : Fits(Found(hub)[c])}
  /\ odd' = (odd \ {"unsorted"}) \cup Oddities(plan')
  /\ UNCHANGED <<hub, x1, editor, writes, seen, edits, trouble>>

\* What the preflight compares: neither ids of favorites, nor the order.
Signature(a) == <<Content(a), Macros(a), [i \in Macros(a) |-> a.keys[i].steps], a.binds>>

\* _preflight_is_stale: a read that is not complete proves nothing.
Preflight ==
  /\ status = "checking"
  /\ \/ /\ status' = IF Signature(hub) = Signature(baseline) THEN "running" ELSE "failed"
        /\ plan' = IF status' = "running" THEN plan ELSE << >>
        /\ seen' = Macros(hub) /\ Calm
     \/ Trouble("unread") /\ status' = "running" /\ UNCHANGED <<plan, seen>>
  /\ UNCHANGED <<hub, x1, editor, writes, live, session, remap, edits, syncs, moved, kept>>

(***************************************************************************)
(* The executor.  A step reads what it needs and decides its writes.       *)
(***************************************************************************)
\* A read that times out finds nothing.
Nothing   == [c \in {} |-> 0]
Heard(r, ok, deaf) == (r = ok /\ Calm) \/ (r = deaf /\ Trouble("deaf"))

\* A handler that returns None.
GiveUp == <<[op |-> "give_up"]>>

\* The run's cached read of the favorites: read once, then kept.
FirstRead(r) ==
  IF live = << >> THEN Heard(r, Found(hub), Nothing) /\ live' = <<r>>
                  ELSE r = live[1] /\ Calm /\ UNCHANGED live
Reads == {Found(hub), Nothing} \cup Range(live)

\* Mutant (BUG #5 of the code): the editor's proposal is written as it is.
AllocatedAsProposed(proposed, r) == proposed

\* _activity_sync_allocate_macro_button_id
Allocated(proposed, r) ==
  LET occupied == session \cup Range(r) \cup Range(hub.order) \cup seen
      next     == 1 + Max({0} \cup occupied)
  IN IF proposed \notin occupied THEN proposed
     ELSE IF next <= MaxId THEN next ELSE IF Ids \subseteq occupied THEN 0 ELSE Min(Ids \ occupied)

MacroNew(s) ==
  \E r \in Reads :
    LET i == Allocated(s.id, r)
    IN /\ FirstRead(r)
       /\ session' = session \cup ({i} \ {0})
       /\ remap' = IF i \in {0, s.id} THEN remap ELSE Upd(remap, s.id, i)
       /\ moved' = IF i \in {0, s.id} THEN moved ELSE moved \cup {s.id}
       /\ writes' = IF i = 0 THEN GiveUp ELSE <<[op |-> "save", id |-> i, key |-> s.key]>>

MacroWrite(s) ==
  /\ s.do = "macro_write"
  /\ IF s.new THEN MacroNew(s)
     ELSE /\ writes' = <<[op |-> "save", id |-> s.id, key |-> s.key]>>
          /\ Calm /\ UNCHANGED <<live, session, remap, moved>>

\* An id that names a favorite is not a macro's: it is left alone.
MacroDelete(s) ==
  /\ s.do = "macro_delete"
  /\ \E r \in Reads : /\ FirstRead(r)
                      /\ writes' = IF s.id \in Range(r) THEN << >> ELSE <<[op |-> "delete", id |-> s.id]>>
  /\ UNCHANGED <<session, remap, moved>>

BindingStep(s) ==
  /\ s.do \in {"binding_write", "binding_delete"}
  /\ writes' =
       IF s.do = "binding_delete" THEN <<[op |-> "unbind", button |-> s.button]>>
       ELSE <<[op |-> "bind", button |-> s.button,
               to |-> IF s.to.is = "macro" /\ s.to.id \in DOMAIN remap
                      THEN RunMacro(remap[s.to.id]) ELSE s.to]>>
  /\ Calm /\ UNCHANGED <<live, session, remap, moved>>

\* X1 reads the order first: no answer is an empty order.
FavoriteAdd(s) ==
  /\ s.do = "favorite_add"
  /\ \E r \in {hub.order, << >>} :
       /\ IF x1 THEN Heard(r, hub.order, << >>) ELSE r = << >> /\ Calm
       /\ writes' = <<[op |-> "map", what |-> s.what, after |-> r]>>
  /\ UNCHANGED <<live, session, remap, moved>>

\* _validate_favorite_fav_id
Known(i, favorites) == i \in Range(hub.order) \cup favorites \cup seen \cup session

FavoriteDelete(s) ==
  /\ s.do = "favorite_delete"
  /\ \E r \in Reads :
       /\ FirstRead(r)
       /\ IF s.id \notin Range(r) /\ s.what \notin DOMAIN r THEN writes' = << >>
          ELSE LET i == IF s.id \in Range(r) THEN s.id ELSE r[s.what]
               IN writes' = IF ~Known(i, Range(r)) THEN GiveUp
                            ELSE <<[op |-> "delete", id |-> i],
                                   [op |-> "sort", ids |-> Those(hub.order, Ids \ {i})]>>
  /\ UNCHANGED <<session, remap, moved>>

FavoriteOrder(s) ==
  /\ s.do = "favorite_order"
  /\ \E r \in {Found(hub), Nothing} :
       LET follow(i)   == IF i \in DOMAIN remap THEN remap[i] ELSE i
           resolves(t) == IF t.is = "favorite" THEN t.what \in DOMAIN r
                          ELSE t.new => follow(t.id) \in session
           tokens      == Those(s.tokens, {t \in Range(s.tokens) : resolves(t)})
           order       == [k \in DOMAIN tokens |->
                             IF tokens[k].is = "favorite" THEN r[tokens[k].what]
                                                          ELSE follow(tokens[k].id)]
           known       == Those(order, {i \in Range(order) : Known(i, Range(r))})
       IN /\ Heard(r, Found(hub), Nothing)
          /\ writes' = IF order = << >> THEN << >>
                       ELSE IF known = << >> THEN GiveUp ELSE <<[op |-> "sort", ids |-> known]>>
  /\ UNCHANGED <<live, session, remap, moved>>

Step ==
  /\ status = "running" /\ writes = << >> /\ plan # << >>
  /\ \E s \in {Head(plan)} :
       \/ MacroWrite(s) \/ MacroDelete(s) \/ BindingStep(s)
       \/ FavoriteAdd(s) \/ FavoriteDelete(s) \/ FavoriteOrder(s)
  /\ plan' = Tail(plan)
  /\ UNCHANGED <<hub, x1, editor, status, seen, edits, syncs, kept>>

\* Mutant: the finally that forgets the run's state is missing.
EndsDirty(s) ==
  /\ status' = s /\ plan' = << >> /\ writes' = << >>
  /\ UNCHANGED <<live, session, remap>>

\* The run ends; what it kept for itself is forgotten.
Ends(s) ==
  /\ status' = s /\ plan' = << >> /\ writes' = << >>
  /\ live' = << >> /\ session' = {} /\ remap' = << >>

\* A step gives up, or the hub refuses one of its writes.
Fail ==
  /\ status = "running" /\ writes # << >>
  /\ IF writes = GiveUp THEN Calm ELSE Trouble("refused")
  /\ Ends("failed")
  /\ UNCHANGED <<hub, x1, editor, seen, edits, syncs, moved, kept>>

(***************************************************************************)
(* The hub, by what the code expects of it: a save or a bind overwrites, a *)
(* delete leaves the table to the sort that follows, a map picks the id.   *)
(***************************************************************************)
Free == Ids \ (DOMAIN hub.keys \cup Range(hub.order))

Apply(w) ==
  CASE w.op = "save"   -> hub' = WithKey(hub, w.id, w.key)
    [] w.op = "delete" -> hub' = [hub EXCEPT !.keys = Without(@, w.id)]
    [] w.op = "sort"   -> hub' = [hub EXCEPT !.order = w.ids]
    [] w.op = "bind"   -> hub' = [hub EXCEPT !.binds = Upd(@, w.button, w.to)]
    [] w.op = "unbind" -> hub' = [hub EXCEPT !.binds = Without(@, w.button)]

Write ==
  /\ status = "running" /\ writes # << >> /\ Head(writes).op \notin {"map", "give_up"}
  /\ Apply(Head(writes))
  /\ \/ writes' = Tail(writes) /\ Calm /\ UNCHANGED <<status, plan, live, session, remap>>
     \/ Trouble("unacked") /\ Ends("failed")
  /\ UNCHANGED <<x1, editor, seen, edits, syncs, moved, kept>>

\* The favorite is mapped, again if the first ack is late, then the table is
\* sorted: on X1 as it was read, elsewhere by id.
Map ==
  /\ status = "running" /\ writes # << >> /\ Head(writes).op = "map"
  /\ \E i \in Free, j \in Free :
       LET w      == Head(writes)
           once   == WithKey(hub, i, Favorite(w.what))
           sorted == [op |-> "sort", ids |-> IF x1 THEN Append(w.after, i) ELSE [k \in 1..i |-> k]]
       IN \/ i = j /\ hub' = once /\ Calm
             /\ writes' = <<sorted>> /\ UNCHANGED <<status, plan, live, session, remap>>
          \/ i # j /\ hub' = WithKey(once, j, Favorite(w.what)) /\ Trouble("twice")
             /\ writes' = <<sorted>> /\ UNCHANGED <<status, plan, live, session, remap>>
          \/ i = j /\ hub' = once /\ Trouble("unacked") /\ Ends("failed")
  /\ UNCHANGED <<x1, editor, seen, edits, syncs, moved, kept>>

Done ==
  /\ status = "running" /\ plan = << >> /\ writes = << >>
  /\ Ends("success") /\ Calm
  /\ UNCHANGED <<hub, x1, editor, seen, edits, syncs, moved, kept>>

\* After a sync, or when the editor is opened again: the next baseline is
\* what the hub holds or, when that cannot be read, the working copy.
Rebase ==
  /\ status \in {"success", "failed"}
  /\ \/ baseline' = hub /\ edited' = hub /\ seen' = Macros(hub)
        /\ odd' = {} /\ UNCHANGED trouble
     \/ status = "success" /\ baseline' = edited /\ UNCHANGED <<edited, seen>>
        /\ IF edited = hub THEN Calm ELSE Trouble("promoted")
  /\ status' = "editing" /\ moved' = {} /\ kept' = {}
  /\ UNCHANGED <<hub, x1, plan, writes, live, session, remap, edits, syncs>>

Next ==
  \/ Edit \/ Foreign \/ RequestSync \/ Preflight
  \/ Step \/ Fail \/ Write \/ Map \/ Done \/ Rebase

Spec == Init /\ [][Next]_vars

(***************************************************************************)
(* Properties.                                                             *)
(***************************************************************************)
TypeOK ==
  /\ IsActivity(hub) /\ IsActivity(baseline) /\ IsActivity(edited) /\ x1 \in BOOLEAN
  /\ status \in {"editing", "checking", "running", "success", "failed"}
  /\ plan # << >> => status \in {"checking", "running"}
  /\ writes # << >> => status = "running"
  /\ seen \subseteq Ids /\ session \subseteq Ids /\ Range(remap) \subseteq session
  /\ odd \subseteq Troubles /\ kept \subseteq Commands /\ moved \subseteq Ids
  /\ status \in {"editing", "success", "failed"} => live = << >> /\ session = {}

Alike(a) == \A i, j \in DOMAIN a.keys : a.keys[i] = a.keys[j] => i = j

\* Ids that rows of the plan other than a new macro's own may name.
Named(a) == Macros(a) \cup {i \in Ids : RunMacro(i) \in Range(a.binds)}

\* Nothing twice, neither in the sort table, and the macros of buttons are there.
Orderly(a) ==
  /\ Alike(a) /\ \A k, l \in DOMAIN a.order : a.order[k] = a.order[l] => k = l
  /\ \A b \in DOMAIN a.binds : a.binds[b].is = "macro" => a.binds[b].id \in Macros(a)

Undisturbed ==
  /\ odd \cap {"foreign", "deaf", "twice", "promoted", "unsorted", "reworked"} = {}
  /\ "unread" \in odd => odd \cap {"refused", "unacked"} = {}

\* A sync that reports success left on the hub what the editor showed: the
\* same shortcuts in the same order, the same macros behind the buttons; also
\* when it is the retry of one that failed half way.  The cases it excludes are
\* named: two shortcuts of the same content, an id that the sort table lists
\* twice, a button whose macro is gone from the baseline, a new macro whose
\* proposed id another row of the plan also names, and what Undisturbed lists.
SyncedAsEdited ==
  status = "success" /\ Undisturbed /\ Orderly(baseline) /\ Alike(edited)
    /\ moved \cap Named(baseline) = {}
  => Shown(hub) = Shown(edited)

\* No favorite that the sync found on the hub and was to keep disappears from
\* it, whatever ids it and the macros have there and whatever step fails (BUG
\* #5 of the code).  Not counted: those whose id the baseline has for something
\* else, and those that others touched since.  What it takes to lose one of the
\* rest is a read of the favorites that failed unnoticed.
NothingElseLost ==
  "deaf" \notin odd => kept \subseteq Content(hub)

\* "positional renumbering never leaks to the wire" (MacroPairing): without
\* any trouble a successful sync shows what the editor showed.
RenumberingStaysInside ==
  status = "success" /\ odd = {} /\ Alike(baseline) /\ Alike(edited)
  => Shown(hub) = Shown(edited)

\* "re-resolve the target by content so the delete cannot land on a different
\* favorite" (_sync_step_favorite_delete), also from a promoted baseline.
DeleteIsByContent ==
  [][\A s \in Range(plan) : Step /\ FavoriteDelete(s) /\ s = Head(plan) /\ odd' \subseteq {"promoted"} =>
       \A w \in Range(writes') : w.op = "delete" => w.id \in Places(hub, s.what)]_vars

=============================================================================
