---------------------------- MODULE WireScheduler ----------------------------
(***************************************************************************)
(* The one wire to the hub and everybody who writes to it:                 *)
(*                                                                         *)
(*   - BurstScheduler (lib/state_helpers.py) with its queue of deferred    *)
(*     requests, called through X1Proxy.enqueue_cmd by executor threads    *)
(*     and the event loop (Callers) and by the frame handlers (Frame);     *)
(*   - the exchange() guard (lib/proxy_exchange.py) that blocking helpers  *)
(*     open on worker threads (Writers);                                   *)
(*   - the bridge thread (Frame): the idle tick and the handlers of the    *)
(*     row and status frames (lib/opcode_handlers.py, proxy_catalog.py);   *)
(*   - the hub, which serves one request at a time and silently drops a    *)
(*     frame that reaches it while it streams the rows of a table.         *)
(*                                                                         *)
(* None of the scheduler's methods takes a lock.  Each is split here where *)
(* another thread can run between two accesses of the shared fields; Spec  *)
(* interleaves the threads freely, SerialSpec lets a method run to its end *)
(* before another thread enters one.                                       *)
(***************************************************************************)
EXTENDS Naturals, Sequences, FiniteSets, Functions

CONSTANTS
  Frame,        \* the bridge thread: reads the hub socket, ticks the scheduler
  Callers,      \* threads that enqueue requests and never open an exchange
  Writers,      \* threads that open exchanges
  NoThread,     \* the exchange lock is free
  Activities, Devices,   \* the burst kinds of the two catalogs
  Tables,       \* burst kinds of one entity: "buttons:5", "macros:3", ...
  RowTables,    \* tables an exchange reads by itself (assign_macro_fetch, ...)
  Plain,        \* a request that expects no burst, and the ack of a write
  Xchg,         \* the pseudo-burst kind "exchange:<name>"
  NoKind,       \* kind is None; the hub streams nothing; nothing is awaited
  MaxRequests,  \* bound: requests made in a behaviour
  MaxTries,     \* bound: attempts and nested scopes of one outermost exchange
  MaxDepth,     \* bound: nesting of exchange scopes
  MaxFlaps      \* bound: times the app attaches or the hub drops

Threads  == {Frame} \cup Callers \cup Writers
Catalogs == {Activities, Devices}
Reads    == Catalogs \cup Tables
Kinds    == Reads \cup {Plain}
Tickets  == 1 .. MaxRequests
NoTicket == 0

ASSUME ThreadsDistinct ==
  /\ Frame \notin Callers \cup Writers
  /\ Callers \cap Writers = {}
  /\ NoThread \notin Threads

ASSUME KindsDistinct ==
  /\ Activities # Devices
  /\ Catalogs \cap Tables = {}
  /\ RowTables \subseteq Tables
  /\ Plain \notin Reads
  /\ Xchg \notin Kinds
  /\ NoKind \notin Kinds \cup {Xchg}

ASSUME BoundsNat ==
  /\ MaxRequests \in Nat
  /\ MaxTries \in Nat \ {0}
  /\ MaxDepth \in Nat \ {0}
  /\ MaxFlaps \in Nat

VARIABLES
  active,     \* BurstScheduler.active
  kind,       \* BurstScheduler.kind
  lull,       \* active and now - last_ts >= idle_s: the window has run out
  queue,      \* BurstScheduler.queue, the tickets of the deferred requests
  pending,    \* _pending_button_requests and its siblings
  inflight,   \* per catalog: no generation in flight, asked, some rows came
  holder,     \* owner of _exchange_lock
  depth,      \* _exchange_depth
  tries,      \* attempts and nested scopes of the outermost exchange so far
  want,       \* the answer the holder waits for: an ack (Plain) or a table
  answered,   \* that answer is in its queue (ack queue, macro event)
  pc,         \* where each thread is
  hand,       \* the request a thread carries (a local variable)
  ending,     \* finished_kind of the _drain a thread runs
  requested,  \* what each request asks for; its domain is the requests made
  sent,       \* the requests put on the wire, in order
  dropped,    \* the requests refused by can_issue, at enqueue or in a drain
  link,       \* "up", "app" (the official app is attached), "down"
  flaps,      \* how often the link has changed hands
  hub,        \* the table the hub streams, NoKind when it is quiet
  begun,      \* the hub has sent a row of that table
  owes,       \* the hub owes an ack
  lost,       \* a frame of the proxy met a streaming hub and was dropped
  disturbed   \* see Disturbance below

scheduler == << active, kind, lull, queue >>
catalog   == << pending, inflight >>
guard     == << holder, depth, tries, want >>
local     == << pc, hand, ending >>
history   == << requested, sent, dropped >>
wire      == << link, flaps, hub, begun, owes, lost, disturbed >>
vars      == << scheduler, catalog, guard, answered, local, history, wire >>

-----------------------------------------------------------------------------
(* Where a thread can be.                                                  *)

Enqueueing == {"ask", "append", "begin", "send"}
Draining   == {"end", "notify", "loop", "pop", "item", "dsend"}
InMethod   == Enqueueing \cup Draining \cup {"mark"}
Locations  == InMethod \cup {"out", "quiesce", "body", "await", "dead"}

Carrying   == Enqueueing \cup {"item", "dsend"}

CanIssue == link = "up"

Goto(t, where) == pc' = [pc EXCEPT ![t] = where]

(***************************************************************************)
(* Disturbance.  The guard promises a quiet wire on a hub that keeps its   *)
(* deadlines and that only the proxy talks to.  "disturbed" records that   *)
(* this was not so: an answer outlasted the window that waits for it, the  *)
(* app read a table, or the rows of a table took the wire from an exchange *)
(* that reads it itself.                                                   *)
(***************************************************************************)
Disturb(cause) == disturbed' = (disturbed \/ cause)

Init ==
  /\ active = FALSE /\ kind = NoKind /\ lull = FALSE /\ queue = << >>
  /\ pending = {} /\ inflight = [c \in Catalogs |-> "no"]
  /\ holder = NoThread /\ depth = 0 /\ tries = 0 /\ want = NoKind
  /\ answered = FALSE
  /\ pc = [t \in Threads |-> "out"]
  /\ hand = [t \in Threads |-> NoTicket]
  /\ ending = [t \in Threads |-> NoKind]
  /\ requested = << >> /\ sent = << >> /\ dropped = {}
  /\ link = "up" /\ flaps = 0
  /\ hub = NoKind /\ begun = FALSE /\ owes = FALSE
  /\ lost = FALSE /\ disturbed = FALSE

-----------------------------------------------------------------------------
(* The scheduler's fields and the wire.                                    *)

\* BurstScheduler.start: the window is last_ts = now + response_grace.
StartBurst(k) == /\ active' = TRUE /\ kind' = k /\ lull' = FALSE

\* _send_cmd_frame and the bridge: a frame for table k (or a plain one).  With
\* no hub the bridge discards it; a streaming hub drops it.
Transmit(k) ==
  /\ lost' = (lost \/ (link # "down" /\ hub # NoKind))
  /\ IF link # "down" /\ hub = NoKind /\ k \in Reads
     THEN hub' = k /\ begun' = FALSE
     ELSE UNCHANGED << hub, begun >>

\* _begin_device_request, _begin_activity_request.
SetCatalog(k, state) ==
  inflight' = [c \in Catalogs |-> IF c = k THEN state ELSE inflight[c]]
ArmCatalog(k) == SetCatalog(k, "asked")

\* The send of request n: a catalog read arms a new generation.
SendRequest(n) ==
  /\ Transmit(requested[n])
  /\ ArmCatalog(requested[n])
  /\ sent' = Append(sent, n)

-----------------------------------------------------------------------------
(* request_devices, request_buttons_for_entity, send_command, ...: the     *)
(* front end, then queue_or_send in up to four steps.                      *)

Request(t, k) ==
  LET n == Len(requested) + 1 IN
  /\ pc[t] = "out" /\ n \in Tickets
  /\ t = Frame => k \in {Activities} \cup Tables   \* AckReadyHandler
  /\ CanIssue /\ k \notin pending
  /\ pending' = pending \cup ({k} \cap Tables)
  /\ requested' = Append(requested, k)
  /\ hand' = [hand EXCEPT ![t] = n]
  /\ Goto(t, "ask")
  /\ UNCHANGED << scheduler, inflight, guard, answered, ending, sent, dropped,
                  wire >>

\* queue_or_send: can_issue() and the read of self.active.
Ask(t) ==
  /\ pc[t] = "ask"
  /\ \/ /\ ~CanIssue
        /\ dropped' = dropped \cup {hand[t]}
        /\ hand' = [hand EXCEPT ![t] = NoTicket]
        /\ Goto(t, "out")
     \/ /\ CanIssue
        /\ Goto(t, CASE active                            -> "append"
                     [] ~active /\ requested[hand[t]] \in Reads -> "begin"
                     [] ~active /\ requested[hand[t]] = Plain   -> "send")
        /\ UNCHANGED << dropped, hand >>
  /\ UNCHANGED << scheduler, catalog, guard, answered, ending, requested, sent,
                  wire >>

AppendRequest(t) ==
  /\ pc[t] = "append"
  /\ queue' = Append(queue, hand[t])
  /\ hand' = [hand EXCEPT ![t] = NoTicket]
  /\ Goto(t, "out")
  /\ UNCHANGED << active, kind, lull, catalog, guard, answered, ending, history,
                  wire >>

BeginBurst(t) ==
  /\ pc[t] = "begin"
  /\ StartBurst(requested[hand[t]])
  /\ Goto(t, "send")
  /\ UNCHANGED << queue, catalog, guard, answered, hand, ending, history, wire >>

SendNow(t) ==
  /\ pc[t] = "send"
  /\ SendRequest(hand[t])
  /\ hand' = [hand EXCEPT ![t] = NoTicket]
  /\ Goto(t, "out")
  /\ UNCHANGED << scheduler, pending, guard, answered, ending, requested, dropped,
                  link, flaps, owes, disturbed >>

-----------------------------------------------------------------------------
(* _drain, reached through tick(), finish() and the exit of an exchange.   *)

\* What the caller of _drain does next: a writer leaves its exchange scope and
\* gives the lock back, another thread is done.
Return(t) ==
  /\ Goto(t, "out")
  /\ IF t = holder
     THEN holder' = NoThread /\ tries' = 0 /\ want' = NoKind
     ELSE UNCHANGED << holder, tries, want >>

EndBurst(t) ==
  /\ pc[t] = "end"
  /\ ending' = [ending EXCEPT ![t] = kind]
  /\ active' = FALSE /\ kind' = NoKind /\ lull' = FALSE
  /\ Goto(t, "notify")
  /\ UNCHANGED << queue, catalog, guard, answered, hand, history, wire >>

\* _notify_burst_end: the _on_*_burst_end callbacks of the finished kind.
NotifyBurstEnd(t) ==
  /\ pc[t] = "notify"
  /\ pending' = pending \ {ending[t]}
  /\ SetCatalog(ending[t], "no")
  /\ ending' = [ending EXCEPT ![t] = NoKind]
  /\ Goto(t, "loop")
  /\ UNCHANGED << scheduler, guard, answered, hand, history, wire >>

\* while self.queue
Loop(t) ==
  /\ pc[t] = "loop"
  /\ \/ queue = << >> /\ Return(t)
     \/ queue # << >> /\ Goto(t, "pop") /\ UNCHANGED << holder, tries, want >>
  /\ UNCHANGED << scheduler, catalog, depth, answered, hand, ending, history,
                  wire >>

\* Mutants of Pop: the last request first; a request that is read, not removed.
PopLast(t) ==
  /\ pc[t] = "pop" /\ queue # << >>
  /\ hand' = [hand EXCEPT ![t] = queue[Len(queue)]]
  /\ queue' = SubSeq(queue, 1, Len(queue) - 1)
  /\ Goto(t, "item")
  /\ UNCHANGED << active, kind, lull, catalog, guard, answered, ending, history,
                  wire >>

PopKeeps(t) ==
  /\ pc[t] = "pop" /\ queue # << >>
  /\ hand' = [hand EXCEPT ![t] = Head(queue)]
  /\ Goto(t, "item")
  /\ UNCHANGED << scheduler, catalog, guard, answered, ending, history, wire >>

Pop(t) ==
  /\ pc[t] = "pop" /\ queue # << >>
  /\ hand' = [hand EXCEPT ![t] = Head(queue)]
  /\ queue' = Tail(queue)
  /\ Goto(t, "item")
  /\ UNCHANGED << active, kind, lull, catalog, guard, answered, ending, history,
                  wire >>

\* queue.pop(0) after another drain took the last item: IndexError.  In the tick
\* it ends the bridge thread, in a frame handler the dispatcher logs it (the model
\* does not tell the two apart); a writer's caller sees it, the with block unlocks.
PopEmpty(t) ==
  /\ pc[t] = "pop" /\ queue = << >>
  /\ \/ t = Frame /\ Goto(t, "dead") /\ UNCHANGED << holder, tries, want >>
     \/ Return(t)
  /\ UNCHANGED << scheduler, catalog, depth, answered, hand, ending, history,
                  wire >>

Item(t) ==
  /\ pc[t] = "item"
  /\ \/ /\ ~CanIssue
        /\ dropped' = dropped \cup {hand[t]}
        /\ hand' = [hand EXCEPT ![t] = NoTicket]
        /\ Goto(t, "loop")
        /\ UNCHANGED << active, kind, lull >>
     \/ /\ CanIssue
        /\ Goto(t, "dsend")
        /\ IF requested[hand[t]] \in Reads
           THEN StartBurst(requested[hand[t]])
           ELSE UNCHANGED << active, kind, lull >>
        /\ UNCHANGED << dropped, hand >>
  /\ UNCHANGED << queue, catalog, guard, answered, ending, requested, sent, wire >>

\* Mutant of DrainSend: one request per finished burst.
DrainSendOne(t) ==
  /\ pc[t] = "dsend"
  /\ SendRequest(hand[t])
  /\ hand' = [hand EXCEPT ![t] = NoTicket]
  /\ Return(t)
  /\ UNCHANGED << scheduler, pending, depth, answered, ending, requested, dropped,
                  link, flaps, owes, disturbed >>

\* sender(op, payload); if self.active: break
DrainSend(t) ==
  /\ pc[t] = "dsend"
  /\ SendRequest(hand[t])
  /\ hand' = [hand EXCEPT ![t] = NoTicket]
  /\ \/ active /\ Return(t)
     \/ ~active /\ Goto(t, "loop") /\ UNCHANGED << holder, tries, want >>
  /\ UNCHANGED << scheduler, pending, depth, answered, ending, requested, dropped,
                  link, flaps, owes, disturbed >>

-----------------------------------------------------------------------------
(* exchange() and the attempt loop inside it.                              *)

EnterExchange(t) ==
  /\ pc[t] = "out" /\ holder = NoThread
  /\ holder' = t /\ depth' = 1
  /\ Goto(t, "quiesce")
  /\ UNCHANGED << scheduler, catalog, tries, want, answered, hand, ending,
                  history, wire >>

\* Mutant of QuiesceDone: the outermost scope does not wait.
QuiesceSkipped(t) ==
  /\ pc[t] = "quiesce"
  /\ Goto(t, "mark")
  /\ UNCHANGED << scheduler, catalog, guard, answered, hand, ending, history,
                  wire >>

\* wait_for_read_burst_quiesce: the poll saw no burst, or 8 s are over.
QuiesceDone(t) ==
  /\ pc[t] = "quiesce" /\ ~active
  /\ Goto(t, "mark")
  /\ UNCHANGED << scheduler, catalog, guard, answered, hand, ending, history,
                  wire >>

QuiesceTimeout(t) ==
  /\ pc[t] = "quiesce" /\ active
  /\ Disturb(hub # NoKind)
  /\ Goto(t, "mark")
  /\ UNCHANGED << scheduler, catalog, guard, answered, hand, ending, history,
                  link, flaps, hub, begun, owes, lost >>

MarkWire(t) ==
  /\ pc[t] = "mark"
  /\ StartBurst(Xchg)
  /\ Goto(t, "body")
  /\ UNCHANGED << queue, catalog, guard, answered, hand, ending, history, wire >>

\* A helper that holds an exchange calls a helper that opens its own.
NestExchange(t) ==
  /\ pc[t] = "body" /\ depth < MaxDepth /\ tries < MaxTries
  /\ depth' = depth + 1 /\ tries' = tries + 1
  /\ UNCHANGED << scheduler, catalog, holder, want, answered, local, history,
                  wire >>

\* Mutant of UnnestExchange: an inner exit that does not look at the level.
UnnestAnyLevel(t) ==
  /\ pc[t] = "body"
  /\ depth' = depth - 1
  /\ UNCHANGED << scheduler, catalog, holder, tries, want, answered, local,
                  history, wire >>

UnnestExchange(t) ==
  /\ pc[t] = "body" /\ depth > 1
  /\ depth' = depth - 1
  /\ UNCHANGED << scheduler, catalog, holder, tries, want, answered, local,
                  history, wire >>

\* One attempt: send a write and wait for its ack, or read table k directly.
SendStep(t, k) ==
  /\ pc[t] = "body" /\ tries < MaxTries
  /\ tries' = tries + 1
  /\ want' = k /\ answered' = FALSE
  /\ Transmit(k)
  /\ owes' = (owes \/ (k = Plain /\ link # "down" /\ hub = NoKind))
  /\ Goto(t, "await")
  /\ UNCHANGED << scheduler, catalog, holder, depth, hand, ending, history,
                  link, flaps, disturbed >>

StepAnswered(t) ==
  /\ pc[t] = "await" /\ answered
  /\ want' = NoKind /\ answered' = FALSE
  /\ Goto(t, "body")
  /\ UNCHANGED << scheduler, catalog, holder, depth, tries, hand,
                  ending, history, wire >>

StepTimeout(t) ==
  /\ pc[t] = "await" /\ ~answered
  /\ Disturb(owes \/ hub # NoKind)
  /\ want' = NoKind /\ answered' = FALSE
  /\ Goto(t, "body")
  /\ UNCHANGED << scheduler, catalog, holder, depth, tries, hand,
                  ending, history, link, flaps, hub, begun, owes, lost >>

\* Mutant of LeaveExchange: no finally, an exception before the first send leaves
\* the pseudo-burst behind.
LeaveNoFinally(t) ==
  /\ pc[t] = "body" /\ depth = 1
  /\ depth' = 0
  /\ \/ active /\ tries > 0 /\ Goto(t, "end") /\ UNCHANGED << holder, tries, want >>
     \/ (~active \/ tries = 0) /\ Return(t)
  /\ UNCHANGED << scheduler, catalog, answered, hand, ending, history, wire >>

\* The outermost finally, also after an exception: finish whatever kind the
\* scheduler holds.
LeaveExchange(t) ==
  /\ pc[t] = "body" /\ depth = 1
  /\ depth' = 0
  /\ \/ active /\ Goto(t, "end") /\ UNCHANGED << holder, tries, want >>
     \/ ~active /\ Return(t)
  /\ UNCHANGED << scheduler, catalog, answered, hand, ending, history, wire >>

-----------------------------------------------------------------------------
(* The bridge thread: idle tick and frame handlers.                        *)

FrameFree == pc[Frame] = "out"

\* Mutant of Tick: the idle tick also drains a pseudo-burst.
TickAnyKind ==
  /\ FrameFree /\ active /\ lull
  /\ Goto(Frame, "end")
  /\ UNCHANGED << scheduler, catalog, guard, answered, hand, ending, history,
                  wire >>

Tick ==
  /\ FrameFree /\ kind # Xchg /\ active /\ lull
  /\ Goto(Frame, "end")
  /\ UNCHANGED << scheduler, catalog, guard, answered, hand, ending, history,
                  wire >>

\* A row of a catalog nobody asked for is a ghost; the rows of a table are not
\* checked, and claim the scheduler whatever holds it.
Accepted(k) == k \in Catalogs => inflight[k] # "no"

\* Every row of the table is in: the last row follows accepted ones.
Complete(k) == k \in Catalogs /\ begun => inflight[k] = "rows"

\* A row that is not the last one: start the burst or extend its window.
RowFrame ==
  /\ FrameFree /\ hub # NoKind /\ ~begun
  /\ begun' = TRUE
  /\ Disturb(Accepted(hub) /\ kind = Xchg)
  /\ IF Accepted(hub)
     THEN StartBurst(hub) /\ SetCatalog(hub, "rows")
     ELSE UNCHANGED << active, kind, lull, inflight >>
  /\ UNCHANGED << queue, pending, guard, answered, local, history,
                  link, flaps, hub, owes, lost >>

\* The last row: the waiter's event is set, then finish(kind) drains.
LastRowFrame ==
  /\ FrameFree /\ hub # NoKind
  /\ hub' = NoKind /\ begun' = FALSE
  /\ answered' = (answered \/ want = hub)
  /\ Disturb(Accepted(hub) /\ kind = Xchg)
  /\ IF Accepted(hub)
     THEN /\ StartBurst(hub) /\ SetCatalog(hub, "rows")
          /\ IF Complete(hub) THEN Goto(Frame, "end") ELSE UNCHANGED pc
     ELSE UNCHANGED << active, kind, lull, inflight, pc >>
  /\ UNCHANGED << queue, pending, guard, hand, ending, history,
                  link, flaps, owes, lost >>

\* note_catalog_status_ack(0x07): does it finish a burst?  Not while an exchange
\* holds the wire; a catalog in flight without rows comes before the tables.
EmptyFinishes ==
  /\ active
  /\ kind \in IF inflight[Activities] = "asked" THEN {Activities}
              ELSE IF inflight[Devices] = "asked" THEN {Devices}
              ELSE Tables

NoteEmpty ==
  IF EmptyFinishes THEN Goto(Frame, "end") ELSE UNCHANGED pc

\* The hub answers the read it serves with a bare 0x07.
EmptyFrame ==
  /\ FrameFree /\ hub # NoKind /\ ~begun
  /\ hub' = NoKind
  /\ answered' = (answered \/ want = hub)
  /\ NoteEmpty
  /\ UNCHANGED << scheduler, catalog, guard, hand, ending, history,
                  link, flaps, begun, owes, lost, disturbed >>

\* notify_ack: the ack of a write.  A 0x07 is offered to the catalogs before the
\* waiter can see it, so no exchange ends between the two.
AckFrame(empty) ==
  /\ FrameFree /\ owes
  /\ owes' = FALSE
  /\ answered' = (answered \/ want = Plain)
  /\ IF empty THEN NoteEmpty ELSE UNCHANGED pc
  /\ UNCHANGED << scheduler, catalog, guard, hand, ending, history,
                  link, flaps, hub, begun, lost, disturbed >>

-----------------------------------------------------------------------------
(* Time, the app and the hub.                                              *)

\* The window of the burst runs out: 5 s without a frame, so never between the
\* start of a burst and its send.  A hub that still has rows to send is late.
WindowOver ==
  /\ active /\ ~lull
  /\ \A t \in Threads : pc[t] \notin {"send", "dsend"}
  /\ lull' = TRUE
  /\ Disturb(hub # NoKind)
  /\ UNCHANGED << active, kind, queue, catalog, guard, answered, local, history,
                  link, flaps, hub, begun, owes, lost >>

AppAttach ==
  /\ link = "up" /\ flaps < MaxFlaps
  /\ link' = "app" /\ flaps' = flaps + 1
  /\ UNCHANGED << scheduler, catalog, guard, answered, local, history,
                  hub, begun, owes, lost, disturbed >>

AppDetach ==
  /\ link = "app" /\ link' = "up"
  /\ UNCHANGED << scheduler, catalog, guard, answered, local, history,
                  flaps, hub, begun, owes, lost, disturbed >>

\* The attached app reads table k; the proxy adopts a catalog it reads.
AppRead(k) ==
  /\ link = "app" /\ hub = NoKind
  /\ hub' = k /\ begun' = FALSE
  /\ ArmCatalog(k)
  /\ Disturb(TRUE)
  /\ UNCHANGED << scheduler, pending, guard, answered, local, history,
                  link, flaps, owes, lost >>

HubDrop ==
  /\ link # "down" /\ flaps < MaxFlaps
  /\ link' = "down" /\ flaps' = flaps + 1
  /\ hub' = NoKind /\ begun' = FALSE /\ owes' = FALSE
  /\ UNCHANGED << scheduler, catalog, guard, answered, local, history,
                  lost, disturbed >>

HubBack ==
  /\ link = "down" /\ link' = "up"
  /\ UNCHANGED << scheduler, catalog, guard, answered, local, history,
                  flaps, hub, begun, owes, lost, disturbed >>

-----------------------------------------------------------------------------

CallerStep(t) ==
  \/ \E k \in Kinds : Request(t, k)
  \/ Ask(t) \/ AppendRequest(t) \/ BeginBurst(t) \/ SendNow(t)

DrainStep(t) ==
  \/ EndBurst(t) \/ NotifyBurstEnd(t) \/ Loop(t) \/ Pop(t) \/ PopEmpty(t)
  \/ Item(t) \/ DrainSend(t)

ExchangeStep(t) ==
  \/ EnterExchange(t) \/ QuiesceDone(t) \/ QuiesceTimeout(t) \/ MarkWire(t)
  \/ NestExchange(t) \/ UnnestExchange(t)
  \/ \E k \in {Plain} \cup RowTables : SendStep(t, k)
  \/ StepAnswered(t) \/ StepTimeout(t) \/ LeaveExchange(t)

HandleFrame ==
  \/ RowFrame \/ LastRowFrame \/ EmptyFrame
  \/ \E empty \in BOOLEAN : AckFrame(empty)

ThreadStep(t) ==
  \/ t \notin Writers /\ CallerStep(t)
  \/ t \notin Callers /\ DrainStep(t)
  \/ t \in Writers /\ ExchangeStep(t)
  \/ t = Frame /\ (Tick \/ HandleFrame)

Environment ==
  \/ WindowOver \/ AppAttach \/ AppDetach \/ HubDrop \/ HubBack
  \/ \E k \in Reads : AppRead(k)

\* The threads as they run.
Next == Environment \/ \E t \in Threads : ThreadStep(t)
Spec == Init /\ [][Next]_vars

\* No other thread is inside a method of the scheduler: what a lock around the
\* methods, or a single thread, would give.
Alone(t) == \A u \in Threads \ {t} : pc[u] \notin InMethod

SerialNext == Environment \/ \E t \in Threads : Alone(t) /\ ThreadStep(t)
SerialSpec == Init /\ [][SerialNext]_vars

-----------------------------------------------------------------------------
(* Properties.                                                             *)

Made        == DOMAIN requested

\* Every variable keeps the type its field has in the code.
FieldType ==
  /\ active \in BOOLEAN /\ lull \in BOOLEAN /\ kind \in Reads \cup {Xchg, NoKind}
  /\ pending \subseteq Tables
  /\ inflight \in [Catalogs -> {"no", "asked", "rows"}]

GuardType ==
  /\ holder \in Writers \cup {NoThread}
  /\ depth \in 0 .. MaxDepth /\ tries \in 0 .. MaxTries
  /\ want \in {Plain, NoKind} \cup RowTables /\ answered \in BOOLEAN

LocalType ==
  /\ pc \in [Threads -> Locations]
  /\ hand \in [Threads -> Tickets \cup {NoTicket}]
  /\ ending \in [Threads -> Reads \cup {Xchg, NoKind}]

HistoryType ==
  /\ queue \in Seq(Tickets) /\ sent \in Seq(Tickets) /\ dropped \subseteq Tickets
  /\ requested \in Seq(Kinds) /\ Len(requested) <= MaxRequests

WireType ==
  /\ link \in {"up", "app", "down"} /\ flaps \in 0 .. MaxFlaps
  /\ hub \in Reads \cup {NoKind} /\ begun \in BOOLEAN /\ owes \in BOOLEAN
  /\ lost \in BOOLEAN /\ disturbed \in BOOLEAN

TypeOK == FieldType /\ GuardType /\ LocalType /\ HistoryType /\ WireType

\* A request is in exactly one place: deferred, in a thread's hand, on the wire
\* or refused; never lost between two of them, never sent twice.  queue_or_send
\* and _drain hand requests over without a lock, so this must survive any
\* interleaving of enqueues, ticks and exchange exits.
InHand == {hand[t] : t \in Threads} \ {NoTicket}
EachRequestInOnePlace ==
  /\ IsInjective(queue) /\ IsInjective(sent)
  /\ \A t, u \in Threads : hand[t] = hand[u] /\ hand[t] # NoTicket => t = u
  /\ Made = Range(queue) \cup InHand \cup Range(sent) \cup dropped
  /\ Range(queue) \cap (InHand \cup Range(sent) \cup dropped) = {}
  /\ InHand \cap (Range(sent) \cup dropped) = {}
  /\ Range(sent) \cap dropped = {}

\* The idle tick skips an "exchange:" pseudo-burst, so one that outlives its
\* scope would hold every later read back for ever.  It never does, whatever
\* the threads and the frame handlers do to the scheduler meanwhile.
MarkHasHolder ==
  kind = Xchg => holder # NoThread /\ pc[holder] \in {"body", "await", "end"}

\* Requests wait only behind a burst: with the scheduler idle and no method
\* under way the queue is empty.
IdleMeansDrained ==
  ~active /\ (\A t \in Threads : pc[t] \notin InMethod) => queue = << >>

\* Requests reach the wire in the order they were made: a later one never
\* overtakes one that was deferred.
SentInOrder == \A i, j \in DOMAIN sent : i < j => sent[i] < sent[j]

\* exchange(): "every A->H frame starts on a quiet wire".  On an undisturbed
\* wire no frame meets a streaming hub.
QuietWire == lost => disturbed

\* exchange(): "this finally is its sole terminator".  On a wire undisturbed so
\* far, a pseudo-burst ends only when its own exchange leaves.
OnlyItsOwnerEnds == kind = Xchg /\ kind' # Xchg => pc[holder] = "end"
SoleTerminator == [][~disturbed => OnlyItsOwnerEnds]_vars

\* What is left of it: neither the idle tick, nor a 0x07 status, nor a deferred
\* request takes the wire from the exchange, only the rows of its own table do.
ExchangeKeepsWire == [][~disturbed' => OnlyItsOwnerEnds]_vars

\* request_buttons_for_entity refuses a second request because one is "already
\* pending": then that one is still deferred, carried or in its burst.
Awaited(k) ==
  \/ active /\ kind = k
  \/ \E i \in DOMAIN queue : requested[queue[i]] = k
  \/ \E t \in Threads : pc[t] \in InMethod
PendingIsAwaited == \A k \in pending : Awaited(k)

\* exchange(): reads "enqueued meanwhile are deferred and auto-drained".  Every
\* deferred request ends up on the wire, or is dropped because the proxy may no
\* longer issue commands.
DeferredLeaves ==
  \A n \in Tickets : n \in Range(queue) ~> n \notin Range(queue) \cup InHand

(* Fairness: a runnable thread runs, helpers give up at their timeouts and *)
(* leave their scopes, the bridge loop keeps ticking, and time passes.     *)
(* Nothing is assumed of the hub or of the app.                            *)
Progress(t) ==
  \/ t \notin Writers /\ (Ask(t) \/ AppendRequest(t) \/ BeginBurst(t) \/ SendNow(t))
  \/ t \notin Callers /\ DrainStep(t)
  \/ t \in Writers /\ (\/ QuiesceDone(t) \/ QuiesceTimeout(t) \/ MarkWire(t)
                       \/ UnnestExchange(t) \/ StepAnswered(t) \/ StepTimeout(t)
                       \/ LeaveExchange(t))
  \/ t = Frame /\ Tick

FairSerialSpec ==
  /\ SerialSpec
  /\ WF_vars(WindowOver)
  /\ \A t \in Threads : WF_vars(Alone(t) /\ Progress(t))

=============================================================================
