--------------------------- MODULE CatalogSnapshot ---------------------------
(***************************************************************************)
(* How the catalogs of activities and devices are read from the hub        *)
(* (lib/proxy_catalog.py, the row handlers of lib/opcode_handlers.py, the  *)
(* retry in lib/x1_proxy.py).  A request goes out, rows or a bare status   *)
(* 0x07 ("the table is empty") come back on one ordered stream that they   *)
(* share with the answers to entity reads, exchanges and the app, none of  *)
(* them naming the request it answers.  Rows are collected and committed   *)
(* at the end of the burst.                                                *)
(*                                                                         *)
(* The methods of the scheduler are atomic here; WireScheduler is about    *)
(* their interleaving.                                                     *)
(***************************************************************************)
EXTENDS Integers, Sequences

CONSTANTS
  Sizes,      \* the numbers of rows a table may have
  MaxChanges, \* bound: changes of a table on the hub
  MaxCalls,   \* bound: requests made by the callers, the app and exchanges
  MaxFlaps    \* bound: times the app attaches or the hub is lost

ASSUME CatalogBounds ==
  Sizes \subseteq Nat /\ Sizes # {} /\ MaxChanges \in Nat /\ MaxCalls \in Nat
  /\ MaxFlaps \in Nat

Acts     == "activities"
Catalogs == {Acts, "devices"}
Entity   == "entity"            \* a read of one entity's table
Xchg     == "exchange"          \* the pseudo-burst of an exchange
Idle     == "idle"
Reads    == Catalogs \cup {Entity}
Nothing  == "nothing"

\* Who calls: a thread of Home Assistant, and the bridge thread.
Threads == {"caller", "bridge"}

VARIABLES
  \* BurstScheduler: kind (Idle when not active), queue
  burst, queue,
  \* per catalog: inflight, generation and expected rows (-1 for None), and rows
  pend,
  \* retry of the activities: count, due, and the flag send_pending
  retry,
  \* per catalog: the committed snapshot and its ready flag
  committed, ready,
  \* a request between request_activities and enqueue_cmd, per thread
  hand,
  xchg,       \* an exchange is open
  link,       \* "up", "app" (the app is attached) or "down"
  \* the hub: versions of each table (sizes), requests not answered, the answer
  \* it streams
  hist, asked, answer,
  \* history: version when the request in flight was sent, and when the
  \* committed one was; a request was sent while another was unanswered
  since, basis, overlap,
  asks, retries, calls, flaps

scheduler == << burst, queue >>
state     == << committed, ready >>
hub       == << asked, answer >>
ghosts    == << since, basis, overlap >>
counts    == << asks, retries, calls, flaps >>
vars == << scheduler, pend, retry, state, hand, xchg, link, hist, hub, ghosts, counts >>

None == -1
NoAnswer == [kind |-> Nothing, version |-> 0, next |-> 0]
Last(c) == Len(hist[c])
\* The rows of version v of a table: by index, which version they are from.
Table(c, v) == [i \in 1 .. hist[c][v] |-> v]

NoRequest == [inflight |-> None, gen |-> None, expected |-> None, rows |-> << >>,
              serial |-> 0]

Init ==
  /\ burst = Idle /\ queue = << >>
  /\ pend = [c \in Catalogs |-> NoRequest]
  /\ retry = [count |-> 0, due |-> FALSE, flag |-> FALSE]
  /\ committed = [c \in Catalogs |-> << >>] /\ ready = [c \in Catalogs |-> FALSE]
  /\ hand = [t \in Threads |-> Nothing] /\ xchg = FALSE /\ link = "up"
  /\ hist \in [Catalogs -> {<< n >> : n \in Sizes}]
  /\ asked = << >> /\ answer = NoAnswer
  /\ since = [c \in Catalogs |-> 1] /\ basis = [c \in Catalogs |-> 1]
  /\ overlap = FALSE
  /\ asks = 0 /\ retries = 0 /\ calls = 0 /\ flaps = 0

CanIssue == link = "up"

-----------------------------------------------------------------------------
(* One catalog's pending snapshot.                                         *)

\* _reset_pending_*_snapshot
Reset(p, g) == [p EXCEPT !.gen = g, !.expected = None, !.rows = << >>]

\* _begin_*_request
Begun(p) ==
  Reset([p EXCEPT !.serial = p.serial + 1, !.inflight = p.serial + 1], p.serial + 1)

\* Mutants of Complete: any rows will do; silence means that the table is empty.
CompleteSome(p) ==
  /\ p.inflight # None /\ p.gen = p.inflight
  /\ p.expected = 0 \/ DOMAIN p.rows # {}
CompleteSilent(p) ==
  /\ p.inflight # None /\ p.gen = p.inflight
  /\ p.expected = None \/ DOMAIN p.rows = 1 .. p.expected

\* _*_snapshot_complete, with the test of the generation that precedes it.
Complete(p) ==
  /\ p.inflight # None /\ p.gen = p.inflight
  /\ p.expected # None /\ DOMAIN p.rows = 1 .. p.expected

\* A row of index i out of n, of version v, with the expected count it leads to.
Put(p, i, n, v) ==
  [p EXCEPT !.expected = n,
            !.rows = [j \in DOMAIN p.rows \cup {i} |-> IF j = i THEN v ELSE p.rows[j]]]

\* Mutant of Restart: row 1 is a row like the others.
RestartNever(p, i, n) ==
  IF p.gen # p.inflight \/ p.expected \notin {None, n} THEN Reset(p, p.inflight) ELSE p

\* What ingest_*_row starts from: row 1 and a new count begin the snapshot anew.
Restart(p, i, n) ==
  IF i = 1 \/ p.gen # p.inflight \/ p.expected \notin {None, n}
  THEN Reset(p, p.inflight) ELSE p

\* Whether ingest_*_row takes the row.
Accepts(p, i, n) ==
  /\ p.inflight # None
  /\ i = 1 \/ (p.gen = p.inflight /\ p.expected \in {None, n})

\* The pending snapshot after ingest_*_row.
Ingest(p, i, n, v) ==
  IF Accepts(p, i, n) THEN Put(Restart(p, i, n), i, n, v)
  ELSE IF p.inflight = None \/ p.gen # p.inflight THEN p
  ELSE [Restart(p, i, n) EXCEPT !.expected = n]

-----------------------------------------------------------------------------
(* Sending.                                                                *)

\* A frame reaches the hub, which drops it while it streams rows; answer': what
\* it still streams, p: the pending snapshots as the frame leaves.
Transmit(k, p) ==
  /\ asked' = IF answer' = NoAnswer THEN Append(asked, k) ELSE asked
  /\ overlap' = \/ overlap \/ asked # << >> \/ answer' # NoAnswer
                \/ \E c \in Catalogs : p[c].inflight # None
  /\ since' = IF k \in Catalogs THEN [since EXCEPT ![k] = Last(k)] ELSE since

\* Mutant of BegunRetry: a retry starts the count, too.
BegunRetryFresh(r, isRetry) == [r EXCEPT !.due = FALSE, !.count = 0]

\* _begin_activity_request takes the retry flag; a first request starts the count.
BegunRetry(r, isRetry) ==
  [r EXCEPT !.due = FALSE, !.count = IF isRetry THEN r.count ELSE 0]

\* _send_cmd_frame, on top of what the step made of pend and retry.
Send(k, p, r) ==
  /\ Transmit(k, p)
  /\ pend' = IF k \in Catalogs THEN [p EXCEPT ![k] = Begun(p[k])] ELSE p
  /\ retry' = IF k = Acts THEN [BegunRetry(r, r.flag) EXCEPT !.flag = FALSE] ELSE r

\* Mutant of AfterEnd: an incomplete retry is retried.
AfterEndAlways(r, k, done) ==
  IF k = Acts /\ ~done THEN [r EXCEPT !.due = TRUE, !.count = r.count + 1] ELSE r

\* _schedule_activity_retry, at an incomplete end.
AfterEnd(r, k, done) ==
  IF k = Acts /\ ~done /\ r.count < 1
  THEN [r EXCEPT !.due = TRUE, !.count = r.count + 1] ELSE r

\* _drain of burst k: its end is told to the catalog, which commits or discards,
\* then the next deferred request leaves unless nothing may be sent.
Drain(k, p) ==
  LET done  == k \in Catalogs /\ Complete(p[k])
      ended == IF k \in Catalogs
               THEN [p EXCEPT ![k] = Reset([p[k] EXCEPT !.inflight = None], None)]
               ELSE p
      after == AfterEnd(retry, k, done)
  IN
  /\ committed' = IF done THEN [committed EXCEPT ![k] = p[k].rows] ELSE committed
  /\ ready' = IF done THEN [ready EXCEPT ![k] = TRUE] ELSE ready
  /\ basis' = IF done THEN [basis EXCEPT ![k] = since[k]] ELSE basis
  /\ IF queue = << >> \/ ~CanIssue
     THEN /\ burst' = Idle /\ queue' = << >>
          /\ pend' = ended /\ retry' = after
          /\ UNCHANGED << asked, since, overlap >>
     ELSE /\ burst' = Head(queue) /\ queue' = Tail(queue)
          /\ Send(Head(queue), ended, after)

-----------------------------------------------------------------------------
(* The callers.                                                            *)

Counted == calls < MaxCalls /\ calls' = calls + 1

\* request_activities and its like: it sets the flag, then calls enqueue_cmd.
Ask(k) ==
  /\ hand["caller"] = Nothing
  /\ Counted
  /\ hand' = [hand EXCEPT !["caller"] = k]
  /\ retry' = IF k = Acts THEN [retry EXCEPT !.flag = FALSE] ELSE retry
  /\ asks' = IF k = Acts THEN asks + 1 ELSE asks
  /\ UNCHANGED << scheduler, pend, state, xchg, link, hist, hub, ghosts, retries, flaps >>

\* queue_or_send, when it does not refuse.
Issue(k) ==
  /\ CanIssue
  /\ UNCHANGED << state, answer, basis >>
  /\ \/ /\ burst # Idle
        /\ queue' = Append(queue, k)
        /\ UNCHANGED << burst, pend, retry, asked, since, overlap >>
     \/ /\ burst = Idle
        /\ burst' = k
        /\ Send(k, pend, retry)
        /\ UNCHANGED queue

\* enqueue_cmd, and what request_activities does when it is refused.
Enqueue(t) ==
  /\ hand[t] # Nothing
  /\ hand' = [hand EXCEPT ![t] = Nothing]
  /\ \/ Issue(hand[t])
     \/ /\ ~CanIssue
        /\ retry' = IF hand[t] = Acts THEN [retry EXCEPT !.flag = FALSE] ELSE retry
        /\ UNCHANGED << scheduler, pend, state, hub, ghosts >>
  /\ UNCHANGED << xchg, link, hist, counts >>

\* clear_activities_catalog, clear_devices_catalog.
Clear(c) ==
  /\ ready[c]
  /\ committed' = [committed EXCEPT ![c] = << >>]
  /\ ready' = [ready EXCEPT ![c] = FALSE]
  /\ UNCHANGED << scheduler, pend, retry, hand, xchg, link, hist, hub, ghosts, counts >>

\* exchange: its wait for a quiet wire may time out, so the burst that is active
\* may be replaced.
EnterExchange ==
  /\ ~xchg /\ CanIssue
  /\ Counted
  /\ xchg' = TRUE /\ burst' = Xchg
  /\ UNCHANGED << queue, pend, retry, state, hand, link, hist, hub, ghosts, asks,
                  retries, flaps >>

ExchangeStep ==
  /\ xchg /\ link # "down"
  /\ Counted
  /\ UNCHANGED << scheduler, pend, retry, state, hand, xchg, link, hist, answer, basis,
                  asks, retries, flaps >>
  /\ Transmit(Xchg, pend)

\* The end of the outermost exchange finishes whatever burst is active.
LeaveExchange ==
  /\ xchg /\ xchg' = FALSE
  /\ UNCHANGED << hand, link, hist, answer, counts >>
  /\ IF burst = Idle THEN UNCHANGED << scheduler, pend, retry, state, asked, ghosts >>
     ELSE Drain(burst, pend)

-----------------------------------------------------------------------------
(* The bridge thread.                                                      *)

BridgeFree == hand["bridge"] = Nothing

\* _handle_idle: the tick, after the silence it waits for.
Tick ==
  /\ BridgeFree
  /\ burst \notin {Idle, Xchg}
  /\ UNCHANGED << hand, xchg, link, hist, answer, counts >>
  /\ Drain(burst, pend)

\* _handle_idle: the retry, up to its call of enqueue_cmd.
Retry ==
  /\ BridgeFree
  /\ retry.due /\ burst = Idle /\ CanIssue
  /\ retry' = [retry EXCEPT !.due = FALSE, !.flag = TRUE]
  /\ hand' = [hand EXCEPT !["bridge"] = Acts]
  /\ retries' = retries + 1
  /\ UNCHANGED << scheduler, pend, state, xchg, link, hist, hub, ghosts, asks, calls, flaps >>

\* AckReadyHandler calls enqueue_cmd itself.
AckReady ==
  /\ BridgeFree
  /\ Counted /\ asks' = asks + 1
  /\ Issue(Acts)
  /\ UNCHANGED << hand, xchg, link, hist, retries, flaps >>

\* CatalogDeviceHandler, CatalogActivityHandler: row i of version v of a table.
RowFrame(c, v, i) ==
  LET n == hist[c][v]
      p == [pend EXCEPT ![c] = Ingest(pend[c], i, n, v)]
  IN
  IF Accepts(pend[c], i, n) /\ Complete(p[c])
  THEN Drain(c, p)
  ELSE /\ burst' = IF Accepts(pend[c], i, n) THEN c ELSE burst
       /\ pend' = p
       /\ UNCHANGED << queue, retry, state, asked, ghosts >>

\* The catalog that note_catalog_status_ack takes to be empty, if any.
Claims(c) == pend[c].inflight # None /\ DOMAIN pend[c].rows = {}
Claimed ==
  IF Claims(Acts) THEN Acts ELSE IF Claims("devices") THEN "devices" ELSE Nothing

\* note_catalog_status_ack, outside of an exchange.
StatusClaimed ==
  LET c == Claimed
      p == [pend EXCEPT ![c] = [IF pend[c].gen # pend[c].inflight
                                 THEN Reset(pend[c], pend[c].inflight)
                                 ELSE pend[c] EXCEPT !.expected = 0]]
  IN
  IF c = Nothing
  THEN IF burst = Entity THEN Drain(Entity, pend)
       ELSE UNCHANGED << scheduler, pend, retry, state, asked, ghosts >>
  ELSE IF burst = c THEN Drain(c, p)
  ELSE /\ pend' = p
       /\ UNCHANGED << scheduler, retry, state, asked, ghosts >>

\* note_catalog_status_ack, on a status 0x07.
StatusFrame ==
  IF burst = Xchg THEN UNCHANGED << scheduler, pend, retry, state, asked, ghosts >>
  ELSE StatusClaimed

\* The frame that the hub streams next.
HubFrame ==
  /\ BridgeFree
  /\ answer # NoAnswer
  /\ LET k == answer.kind IN
     \/ /\ k \in Catalogs /\ hist[k][answer.version] > 0
        /\ answer' = IF answer.next = hist[k][answer.version] THEN NoAnswer
                     ELSE [answer EXCEPT !.next = answer.next + 1]
        /\ RowFrame(k, answer.version, answer.next)
     \/ /\ k \in Catalogs => hist[k][answer.version] = 0
        /\ answer' = NoAnswer
        /\ StatusFrame
     \/ /\ k = Entity       \* rows of an entity, the last of which ends the burst
        /\ answer' = NoAnswer
        /\ Drain(Entity, pend)
     \/ /\ k = Xchg         \* any other answer to an exchange
        /\ answer' = NoAnswer
        /\ UNCHANGED << scheduler, pend, retry, state, asked, ghosts >>
  /\ UNCHANGED << hand, xchg, link, hist, counts >>

-----------------------------------------------------------------------------
(* The hub and the app.                                                    *)

HubUnchanged == << scheduler, pend, retry, state, hand, xchg >>

\* The hub takes up the request that has waited longest: it answers, or does not.
HubBegin ==
  /\ answer = NoAnswer /\ asked # << >>
  /\ LET k == Head(asked) IN
     answer' \in {NoAnswer,
                  [kind |-> k, version |-> IF k \in Catalogs THEN Last(k) ELSE 0, next |-> 1]}
  /\ asked' = Tail(asked)
  /\ UNCHANGED << HubUnchanged, link, hist, ghosts, counts >>

\* The hub breaks off an answer.
HubCut ==
  /\ answer # NoAnswer /\ answer' = NoAnswer
  /\ UNCHANGED << HubUnchanged, link, hist, asked, ghosts, counts >>

\* The table changes on the hub.
TableChange(c) ==
  /\ Len(hist[Acts]) + Len(hist["devices"]) < 2 + MaxChanges
  /\ \E n \in Sizes : hist' = [hist EXCEPT ![c] = Append(hist[c], n)]
  /\ UNCHANGED << HubUnchanged, link, hub, ghosts, counts >>

\* The session with the hub is lost with all that is on its way, and comes back.
HubGone ==
  /\ link # "down" /\ flaps < MaxFlaps
  /\ link' = "down" /\ flaps' = flaps + 1
  /\ asked' = << >> /\ answer' = NoAnswer
  /\ UNCHANGED << HubUnchanged, hist, ghosts, asks, retries, calls >>

HubBack ==
  /\ link = "down" /\ link' = "up"
  /\ UNCHANGED << HubUnchanged, hist, hub, ghosts, counts >>

AppAttach ==
  /\ link = "up" /\ flaps < MaxFlaps
  /\ link' = "app" /\ flaps' = flaps + 1
  /\ UNCHANGED << HubUnchanged, hist, hub, ghosts, asks, retries, calls >>

AppDetach ==
  /\ link = "app" /\ link' = "up"
  /\ UNCHANGED << HubUnchanged, hist, hub, ghosts, counts >>

\* A frame of the app passes through; _handle_app_frames adopts its catalog reads.
AppAsk(k) ==
  /\ link = "app" /\ BridgeFree
  /\ Counted
  /\ UNCHANGED << scheduler, state, hand, xchg, link, hist, answer, basis, retries, flaps >>
  /\ Transmit(k, pend)
  /\ pend' = IF k \in Catalogs THEN [pend EXCEPT ![k] = Begun(pend[k])] ELSE pend
  /\ retry' = IF k = Acts THEN BegunRetry(retry, FALSE) ELSE retry
  /\ asks' = IF k = Acts THEN asks + 1 ELSE asks

Next ==
  \/ \E k \in Reads : Ask(k) \/ AppAsk(k)
  \/ \E t \in Threads : Enqueue(t)
  \/ \E c \in Catalogs : Clear(c) \/ TableChange(c)
  \/ EnterExchange \/ ExchangeStep \/ LeaveExchange
  \/ Tick \/ Retry \/ AckReady \/ HubFrame
  \/ HubBegin \/ HubCut \/ HubGone \/ HubBack
  \/ AppAttach \/ AppDetach

Spec == Init /\ [][Next]_vars

-----------------------------------------------------------------------------
(* What a reader of the catalogs may rely on.                              *)

Requests == Reads \cup {Xchg}
MaxOf    == UNION {{hist[c][v] : v \in 1 .. Last(c)} : c \in Catalogs}

TypeOK ==
  /\ burst \in Requests \cup {Idle} /\ queue \in Seq(Reads)
  /\ \A c \in Catalogs :
       /\ pend[c].serial \in Nat
       /\ pend[c].inflight \in {None, pend[c].serial} /\ pend[c].gen = pend[c].inflight
       /\ pend[c].expected \in MaxOf \cup {None, 0}
       /\ \A i \in DOMAIN pend[c].rows : pend[c].rows[i] \in 1 .. Last(c)
       /\ ready[c] \in BOOLEAN
  /\ retry \in [count : 0 .. 1, due : BOOLEAN, flag : BOOLEAN]
  /\ hand \in [Threads -> Reads \cup {Nothing}] /\ xchg \in BOOLEAN
  /\ link \in {"up", "app", "down"}
  /\ asked \in Seq(Requests)

\* A catalog that is ready is a whole version of the hub's table, or empty: rows
\* of two versions, or a part of the rows, are never committed, whatever answers
\* overlap (proxy_catalog.py _*_snapshot_complete and the restart at row 1).
SnapshotIsWhole ==
  \A c \in Catalogs : ready[c] =>
    committed[c] = << >> \/ \E v \in 1 .. Last(c) : committed[c] = Table(c, v)

\* As long as no frame left while the hub owed another answer or a catalog read
\* was in flight (the exchange's wait for a quiet wire did not time out, the app
\* did not talk over a read), a ready catalog is the table as it was when its
\* request left or later: silence, an answer that breaks off and a read that was
\* abandoned never become a snapshot (_activity_snapshot_complete).
Fresh ==
  ~overlap => \A c \in Catalogs : ready[c] =>
    \E v \in basis[c] .. Last(c) : committed[c] = Table(c, v)

\* Incomplete answers do not make the bridge retry for ever: a request gives rise
\* to one retry, and to a second when request_activities clears the flag of a
\* retry that has not left yet, which then counts as a request of its own
\* (x1_proxy.py request_activities and _send_cmd_frame share the flag).
RetriesBounded == retries <= 2 * asks

\* The docstring of note_catalog_status_ack: a catalog is committed as empty when
\* the table is genuinely empty.
EmptyIsGenuine ==
  \A c \in Catalogs : ready[c] /\ committed[c] = << >> =>
    \E v \in 1 .. Last(c) : hist[c][v] = 0

=============================================================================
