---------------------------- MODULE EntityTables ----------------------------
(* The tables of one entity: the buttons, macros and members of an activity  *)
(* and the commands of a device.  The hub answers a read in pages; handlers  *)
(* put the pages together again and replace or extend the cached table; the  *)
(* end of the burst, by the last page or by silence, marks it complete.      *)
(*                                                                           *)
(* A behaviour is about one kind of table.  A page stands for the rows it    *)
(* carries: <<e, v, n>> is page n of the table of e as the hub had it in its *)
(* version v.  The scheduler appears as the read that holds it and the reads *)
(* it deferred; WireScheduler models it in full.                             *)
EXTENDS Naturals, Sequences, FiniteSets, SequencesExt, Functions

CONSTANTS Entities,     \* activities, or devices when the kind is "commands"
          Kinds,        \* the kinds of table that behaviours are about
          MaxVersion,   \* bound on the hub's edits of one table
          MaxReads,     \* bound on the reads made
          MaxTrouble    \* bound on answers that break off, pauses and restarts

None     == <<"none", FALSE>>
NoBuffer == [pages |-> << >>, total |-> 0]

VARIABLES
  kind,      \* the kind of table
  hub,       \* [Entities -> version of the hub's table]
  wire,      \* pages on their way from the hub
  burst,     \* <<entity, single>> of the read that holds the scheduler, or None
  queue,     \* reads deferred while a burst runs
  pending,   \* _pending_*_requests: the reads asked for and not ended
  buffer,    \* assembler: [Entities -> rows by arrival, frames expected (0: unknown)]
  last,      \* MacroAssembler._last_activity_id, as a set of at most one
  table,     \* cached rows
  known,     \* entities with a cached entry
  complete,  \* _commands_complete, _macros_complete, _activity_map_complete
  cut,       \* entities with an answer that broke off or paused
  strayed,   \* entities that a late page, or an older table, got mixed into
  reads, trouble

link   == <<wire, burst, queue>>
cache  == <<table, known, complete>>
bounds == <<reads, trouble>>
vars   == <<kind, hub, link, pending, buffer, last, cache, cut, strayed, bounds>>

Rows(e, v)  == {<<e, v, n>> : n \in 1..2}
Row(p)      == <<p.e, p.v, p.n>>
Whole(e)    == <<e, FALSE>>
Single(e)   == <<e, TRUE>>
Upd(f, x, y) == [f EXCEPT ![x] = y]

Init ==
  /\ kind \in Kinds
  /\ hub = [e \in Entities |-> 1]
  /\ wire = << >> /\ burst = None /\ queue = << >>
  /\ pending = {} /\ buffer = [e \in Entities |-> NoBuffer] /\ last = {}
  /\ table = [e \in Entities |-> {}] /\ known = {} /\ complete = {}
  /\ cut = {} /\ strayed = {} /\ reads = 0 /\ trouble = 0

Trouble == trouble < MaxTrouble /\ trouble' = trouble + 1 /\ UNCHANGED reads

-----------------------------------------------------------------------------
(* The scheduler, as the tables see it.                                      *)

Answer(r) == [n \in 1..(IF r[2] THEN 1 ELSE 2) |->
               [e |-> r[1], v |-> hub[r[1]], n |-> n, single |-> r[2], late |-> FALSE]]

\* A read leaves and the hub answers it.
Sent(r, w) == burst' = r /\ wire' = w \o Answer(r)

\* A burst has ended: the first deferred read is sent, if there is one.  Pages
\* of a disturbed read that are still to come now come late.
Drained(w) ==
  LET rest == [i \in DOMAIN w |-> [w[i] EXCEPT !.late = @ \/ w[i].e \in cut' \cup strayed']]
  IN IF queue = << >> THEN burst' = None /\ wire' = rest /\ queue' = queue
                      ELSE queue' = Tail(queue) /\ Sent(Head(queue), rest)

(* What the listeners of a burst's end do.  Commands, macros and members     *)
(* count as complete from here on, whatever came before the end.             *)
ButtonsEnd(r)  == {}
CommandsEnd(r) == IF r[2] \/ r \notin pending THEN {} ELSE {r[1]}
MacrosEnd(r)   == {r[1]}
MapEnd(r)      == {r[1]}
Ended(r, done) ==
  /\ pending' = pending \ {r}
  /\ complete' = done \cup CASE kind \in {"buttons", "favorites"} -> ButtonsEnd(r)
                             [] kind = "commands"                 -> CommandsEnd(r)
                             [] kind = "macros"                   -> MacrosEnd(r)
                             [] kind = "map"                      -> MapEnd(r)

-----------------------------------------------------------------------------
(* The front ends.                                                           *)

\* What a getter takes for a finished read.  Favorites come with the buttons.
HasButtons(e)  == e \in known
HasCommands(e) == e \in known /\ e \in complete
HasMacros(e)   == table[e] # {} /\ e \in complete
HasMap(e)      == e \in complete
Ready(e) ==
  CASE kind \in {"buttons", "favorites"} -> HasButtons(e)
    [] kind = "commands"                 -> HasCommands(e)
    [] kind = "macros"                   -> HasMacros(e)
    [] kind = "map"                      -> HasMap(e)

Ask(r) ==
  /\ reads < MaxReads /\ reads' = reads + 1 /\ UNCHANGED trouble
  /\ r \notin pending /\ pending' = pending \cup {r}
  /\ IF burst = None THEN Sent(r, wire) /\ queue' = queue
                     ELSE queue' = Append(queue, r) /\ UNCHANGED <<wire, burst>>
  /\ UNCHANGED <<kind, hub, buffer, last, cache, cut>>

\* A getter finds nothing and asks, once per entity.  Members are added to what
\* the cache still holds.
AskTable(e) ==
  /\ ~Ready(e) /\ Ask(Whole(e))
  /\ strayed' = IF kind = "map" /\ table[e] # {} THEN strayed \cup {e} ELSE strayed

\* The label of one command of a device that its table does not have yet.
AskSingle(e) ==
  /\ kind = "commands" /\ Whole(e) \notin pending
  /\ \A r \in table[e] : r[3] # 1
  /\ Ask(Single(e)) /\ UNCHANGED strayed

\* Everything cached for one entity is thrown away, to be read again.  Frames
\* left in an assembler stay: those of buttons and commands go with the next
\* first page, those of macros do not.
Clear(e) ==
  /\ e \in known \cup complete \/ \E r \in pending : r[1] = e
  /\ table' = Upd(table, e, {}) /\ known' = known \ {e}
  /\ complete' = complete \ {e} /\ pending' = pending \ {Whole(e), Single(e)}
  /\ LET left == \/ \E r \in {burst} \cup Range(queue) : r[1] = e
                 \/ \E p \in Range(wire) : p.e = e
                 \/ kind = "macros" /\ buffer[e] # NoBuffer
     IN /\ cut' = IF left THEN cut ELSE cut \ {e}
        /\ strayed' = IF left THEN strayed \cup {e} ELSE strayed \ {e}
  /\ UNCHANGED <<kind, hub, link, buffer, last, bounds>>

\* A button was written: its activity's buttons are read again and the
\* favorites that the cache has stay.
ClearButtons(e) ==
  /\ kind = "favorites" /\ e \in known
  /\ known' = known \ {e} /\ pending' = pending \ {Whole(e)}
  /\ UNCHANGED <<kind, hub, link, buffer, last, table, complete, cut, strayed, bounds>>

-----------------------------------------------------------------------------
(* The assemblers.  Those of buttons and commands keep a frame under its     *)
(* number, that of the macros keeps every frame that arrives.                *)

\* What a frame says of itself.
ButtonsHeader(p)  == p.n = 1
CommandsHeader(p) == p.n = 1
MacrosHeader(p)   == p.n = 1

Joined(p, b, t) == [pages |-> Append(b.pages, Row(p)), total |-> t]

\* A second frame of one number takes the place of the first.
Filed(p, b, t) ==
  LET Same(r) == r[3] = p.n
  IN IF \E r \in Range(b.pages) : Same(r)
       THEN [pages |-> [i \in DOMAIN b.pages |->
                          IF Same(b.pages[i]) THEN Row(p) ELSE b.pages[i]], total |-> t]
       ELSE Joined(p, b, t)

\* Mutant: frames of buttons add up too, whatever came before the first page.
AssembledButtonsOn(p, b) == {Joined(p, b, IF b.total = 0 THEN 2 ELSE b.total)}

\* A first page starts over and says how many frames there are.  A later page
\* whose first page never came brings no total; the row bytes read as one may
\* or may not call it the end.
AssembledButtons(p, b) ==
  IF ButtonsHeader(p) THEN {Filed(p, NoBuffer, 2)}
             ELSE {Filed(p, b, t) : t \in IF b.total = 0 THEN {1, 2} ELSE {b.total}}

\* The same, but a later page says nothing of a total; a single one is whole.
AssembledCommands(p, b) ==
  {IF CommandsHeader(p) THEN Filed(p, NoBuffer, IF p.single THEN 1 ELSE 2) ELSE Filed(p, b, b.total)}

\* Nothing starts over; the frames and the totals of an activity add up until
\* as many frames are there as were announced.
AssembledMacros(p, b) ==
  {Joined(p, b, IF MacrosHeader(p) THEN b.total + 2 ELSE IF b.total = 0 THEN 1 ELSE b.total)}

Finished(b) == b.total > 0 /\ Len(b.pages) >= b.total

(* What a finished buffer makes of the cached table.  The rows of another    *)
(* activity are filtered out of a stream of buttons; favorites and commands  *)
(* are added to those that are there.                                        *)
KeymapRecords(e, b) == {r \in Range(b.pages) : r[1] = e}
ButtonRows(e, b)    == KeymapRecords(e, b)
FavoriteRows(e, b)  == table[e] \cup KeymapRecords(e, b)
CommandRecords(b)   == Range(b.pages)
CommandRows(e, b)   == table[e] \cup CommandRecords(b)
MacroRecords(b)     == Range(b.pages)
MacroRows(e, b)     == MacroRecords(b)

-----------------------------------------------------------------------------
(* The handlers.  Each takes the first page from the wire.                   *)

\* The assembler has taken the page for e and the burst is now `holder`.  When
\* the table is whole it is stored as `rows` and the burst `key` ends if it is
\* the one that runs.
Taken(p, e, b, holder, key, rows) ==
  /\ strayed' = strayed \cup (IF p.late THEN {p.e, e, burst[1], holder[1]} \cap Entities ELSE {})
                        \cup (IF kind \in {"commands", "favorites"} /\ Finished(b) /\ table[e] # {}
                                THEN {e} ELSE {})
  /\ IF Finished(b)
       THEN /\ buffer' = Upd(buffer, e, NoBuffer)
            /\ table' = Upd(table, e, rows) /\ known' = known \cup {e}
            /\ LET done == IF kind = "macros" THEN complete \cup {e} ELSE complete
               IN IF holder = key
                    THEN Ended(key, done) /\ Drained(Tail(wire))
                    ELSE /\ burst' = holder /\ wire' = Tail(wire) /\ complete' = done
                         /\ pending' = IF kind = "macros" THEN pending \ {Whole(e)} ELSE pending
                         /\ UNCHANGED queue
       ELSE /\ buffer' = Upd(buffer, e, b) /\ burst' = holder /\ wire' = Tail(wire)
            /\ UNCHANGED <<queue, pending, cache>>

Ignored(p) ==
  /\ wire' = Tail(wire) /\ strayed' = strayed \cup {p.e}
  /\ UNCHANGED <<burst, queue, pending, buffer, cache, last>>

Page(kinds, p) ==
  kind \in kinds /\ wire # << >> /\ p = Head(wire) /\ UNCHANGED <<kind, hub, cut, bounds>>

\* KeymapHandler: a first page names its activity and claims the scheduler; a
\* later one belongs to the burst that is active, or to nothing.
ButtonsPage(p) ==
  /\ Page({"buttons", "favorites"}, p)
  /\ LET e == IF ButtonsHeader(p) THEN p.e ELSE burst[1]
     IN IF ~ButtonsHeader(p) /\ burst = None
          THEN Ignored(p)
          ELSE /\ \E b \in AssembledButtons(p, buffer[e]) :
                    Taken(p, e, b, Whole(e), Whole(e),
                          IF kind = "favorites" THEN FavoriteRows(e, b) ELSE ButtonRows(e, b))
               /\ UNCHANGED last

\* DeviceButtonFamilyHandler: every page names its device.  The first one of a
\* list claims the scheduler.
CommandsTaken(p, holder, key) ==
  /\ Page({"commands"}, p)
  /\ \E b \in AssembledCommands(p, buffer[p.e]) :
       Taken(p, p.e, b, holder, key, CommandRows(p.e, b))
  /\ UNCHANGED last

Claimed(p) == IF burst = None THEN Whole(p.e) ELSE burst
CommandsFirst(p) == CommandsHeader(p) /\ ~p.single /\ CommandsTaken(p, Whole(p.e), Whole(p.e))
CommandsLater(p) == ~CommandsHeader(p) /\ CommandsTaken(p, Claimed(p), Whole(p.e))

\* A single answer ends the single read that runs, whichever it is.
CommandsSingle(p) == p.single /\ CommandsTaken(p, Claimed(p), IF burst[2] THEN burst ELSE None)

CommandsPage(p) == CommandsFirst(p) \/ CommandsLater(p) \/ CommandsSingle(p)

\* MacroHandler: a later page belongs to the activity of the last first page,
\* whatever burst is active.
MacrosPage(p) ==
  /\ Page({"macros"}, p)
  /\ last' = IF MacrosHeader(p) THEN {p.e} ELSE last
  /\ IF last' = {}
       THEN wire' = Tail(wire) /\ strayed' = strayed \cup {p.e}
            /\ burst' = (IF burst = None THEN <<"macros", FALSE>> ELSE burst)
            /\ UNCHANGED <<queue, pending, buffer, cache>>
       ELSE \E e \in last' : \E b \in AssembledMacros(p, buffer[e]) :
              Taken(p, e, b, IF burst = None THEN Whole(e) ELSE burst, Whole(e), MacroRows(e, b))

\* record_activity_member.
Mapped(e, p) == table[e] \cup {Row(p)}

\* ActivityMapHandler: every page is one row and is stored at once, for the
\* activity whose burst is active, else for one that is pending; the last row
\* makes its list complete.
MapPage(p) ==
  /\ Page({"map"}, p)
  /\ LET owners == IF burst # None THEN {burst[1]} ELSE {r[1] : r \in pending}
     IN IF owners = {}
          THEN Ignored(p)
          ELSE \E e \in owners :
                 /\ table' = Upd(table, e, Mapped(e, p)) /\ known' = known \cup {e}
                 /\ strayed' = IF p.late THEN strayed \cup {p.e, e} ELSE strayed
                 /\ IF p.n = 2 THEN Ended(Whole(e), complete) /\ Drained(Tail(wire))
                               ELSE burst' = Whole(e) /\ wire' = Tail(wire)
                                    /\ UNCHANGED <<queue, pending, complete>>
                 /\ UNCHANGED <<buffer, last>>

Arriving == Range(wire)

Receive ==
  \E p \in Arriving : ButtonsPage(p) \/ CommandsPage(p) \/ MacrosPage(p) \/ MapPage(p)

-----------------------------------------------------------------------------
(* What else happens.                                                        *)

\* The scheduler gives a burst up after its window of silence: nothing more is
\* to come, or the hub has paused and the rest comes late.
IdleEnd ==
  /\ burst # None /\ UNCHANGED strayed
  /\ IF wire = << >> THEN UNCHANGED <<bounds, cut>> ELSE Trouble /\ cut' = cut \cup {p.e : p \in Range(wire)}
  /\ IF burst \in Entities \X BOOLEAN THEN Ended(burst, complete)
                                      ELSE pending' = {} /\ UNCHANGED complete
  /\ Drained([i \in DOMAIN wire |-> [wire[i] EXCEPT !.late = TRUE]])
  /\ UNCHANGED <<kind, hub, buffer, last, table, known>>

\* An answer breaks off: its last page never comes.
BreakOff ==
  /\ wire # << >> /\ Trouble
  /\ wire' = Front(wire) /\ cut' = cut \cup {Last(wire).e}
  /\ UNCHANGED <<kind, hub, burst, queue, pending, buffer, last, cache, strayed>>

\* Somebody edits the table on the hub.
Edit(e) ==
  /\ hub[e] < MaxVersion /\ hub' = Upd(hub, e, hub[e] + 1)
  /\ UNCHANGED <<kind, link, pending, buffer, last, cache, cut, strayed, bounds>>

(* The integration starts anew from the cache it saved: the tables and, of   *)
(* commands and macros, which are complete; the rest is derived from what is *)
(* there, and so are, once more, those of the tables that have an entry.     *)
Saved == [table |-> table, known |-> known,
          complete |-> IF kind \in {"commands", "macros"} THEN complete ELSE {}]

Completed(s) == CASE kind \in {"commands", "macros"} -> s.complete \cup s.known
                  [] kind = "map"                    -> {e \in Entities : s.table[e] # {}}
                  [] OTHER                           -> {}

Loaded(s) == [table |-> s.table, known |-> s.known]

Restart ==
  /\ Trouble
  /\ wire' = << >> /\ burst' = None /\ queue' = << >> /\ pending' = {}
  /\ buffer' = [e \in Entities |-> NoBuffer] /\ last' = {}
  /\ table' = Loaded(Saved).table /\ known' = Loaded(Saved).known /\ complete' = Completed(Saved)
  /\ strayed' = strayed \cup (complete' \ complete)
  /\ UNCHANGED <<kind, hub, cut, reads>>

Next ==
  \/ \E e \in Entities : AskTable(e) \/ AskSingle(e) \/ Clear(e) \/ ClearButtons(e) \/ Edit(e)
  \/ Receive \/ IdleEnd \/ BreakOff \/ Restart

Spec == Init /\ [][Next]_vars

-----------------------------------------------------------------------------
(* A table that a getter hands out as complete is one answer of the hub,     *)
(* whole and unmixed, unless an answer of this entity broke off or paused,   *)
(* or a page that came late fell into it, and nobody has cleared it since    *)
(* with its reads at rest (KeymapHandler, MacroHandler, ActivityMapHandler,  *)
(* DeviceButtonFamilyHandler, the burst-end listeners).  A read of another   *)
(* entity, an edit on the hub or a deferred read never damages it.           *)
TableIsWhole ==
  \A e \in Entities \ (cut \cup strayed) : Ready(e) => \E v \in 1..hub[e] : table[e] = Rows(e, v)
=============================================================================
