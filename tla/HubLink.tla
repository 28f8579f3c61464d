------------------------------- MODULE HubLink -------------------------------
(***************************************************************************)
(* The TCP sessions that the hubs open with this process:                  *)
(*                                                                         *)
(*   - the shared HubListener (lib/hub_listener.py) with its table of      *)
(*     registrations, its accept thread and its bounce;                    *)
(*   - one TransportBridge per hub (lib/transport_bridge.py): the socket   *)
(*     it uses, the bridge thread that reads it, the OTA pause, stop;      *)
(*   - the hubs, which dial, and leave without notice.                     *)
(*                                                                         *)
(* _hub_lock protects each access of _hub_sock, never two of them: the     *)
(* accept thread, the bridge thread, the event loop (pause_for_ota) and    *)
(* the executor (stop) interleave between any two.                         *)
(***************************************************************************)
EXTENDS Naturals, Sequences, Functions

CONSTANTS
  Hubs,         \* hubs, each with its own bridge and its own address
  Slots,        \* socket objects per hub, used again once nobody refers to them
  NoConn,       \* None
  MaxUpsets,    \* bound: times a hub leaves its session or an OTA pause begins
  MaxBounces    \* bound: bounces of the listener

\* A connection: the hub that dialled it (the peer address) and a socket object.
Conns    == Hubs \X Slots
Owner(c) == c[1]

\* What an instance assumes of its constants.
NoConnIsNone == NoConn \notin Conns
LinkBounds   == MaxUpsets \in Nat /\ MaxBounces \in Nat

VARIABLES
  registered,   \* HubListener._by_ip
  listening,    \* the listening socket is open and its accept thread runs
  bouncing,     \* HubListener._bouncing
  backlog,      \* connections the accept thread has not taken up
  apc, client, existing,   \* the accept thread and its locals
  refused,      \* taken up by the accept thread in the current pause
  life,         \* per bridge: "new", "up", "stopping" (_stop is set), "stopped"
  sock,         \* _hub_sock
  told,         \* the last state passed to _notify_hub_state
  bpc, sampled, \* the bridge thread and the socket it read at its loop head
  paused,       \* _ota_pause_until lies ahead
  ppc, taken,   \* pause_for_ota under way, and its local "existing"
  open,         \* the sockets that are open at this end
  session,      \* the connection a hub believes to have
  upsets, bounces

listener == << registered, listening, bouncing >>
acceptor == << apc, client, existing, refused >>
bridge   == << bpc, sampled >>
ota      == << paused, ppc, taken >>
counts   == << upsets, bounces >>
vars == << listener, backlog, acceptor, life, sock, told, bridge, ota, open,
           session, counts >>

Init ==
  /\ registered = {} /\ listening = FALSE /\ bouncing = FALSE /\ backlog = << >>
  /\ apc = "idle" /\ client = NoConn /\ existing = NoConn /\ refused = {}
  /\ life = [h \in Hubs |-> "new"]
  /\ sock = [h \in Hubs |-> NoConn] /\ told = [h \in Hubs |-> FALSE]
  /\ bpc = [h \in Hubs |-> "loop"] /\ sampled = [h \in Hubs |-> NoConn]
  /\ paused = [h \in Hubs |-> FALSE]
  /\ ppc = [h \in Hubs |-> "no"] /\ taken = [h \in Hubs |-> NoConn]
  /\ open = {} /\ session = [h \in Hubs |-> NoConn]
  /\ upsets = 0 /\ bounces = 0

-----------------------------------------------------------------------------
(* The listener.  Its methods run under HubListener._lock.                 *)

Pending == Range(backlog)

\* _stop_thread_locked: close the listening socket and join the accept thread.
\* The join waits for an on_socket callback to return; a thread that waits for
\* the lock is given up on after a second and goes on once it gets the lock.
StopListening ==
  /\ apc \in {"idle", "lookup"}
  /\ listening' = FALSE
  /\ backlog' = << >> /\ open' = open \ Pending

\* _ensure_running_locked
EnsureRunning == listening' = (listening \/ ~bouncing')

\* TransportBridge.start and register_hub.
Start(h) ==
  /\ life[h] = "new" /\ life' = [life EXCEPT ![h] = "up"]
  /\ registered' = registered \cup {h}
  /\ UNCHANGED bouncing /\ EnsureRunning
  /\ UNCHANGED << backlog, acceptor, sock, told, bridge, ota, open, session,
                  counts >>

\* bounce: a hub was disabled or deleted; refuse it for a while.
Bounce ==
  /\ ~bouncing /\ registered # {} /\ bounces < MaxBounces
  /\ \E h \in Hubs : life[h] = "stopped"
  /\ bouncing' = TRUE /\ bounces' = bounces + 1
  /\ StopListening
  /\ UNCHANGED << registered, acceptor, life, sock, told, bridge, ota, session,
                  upsets >>

\* Mutant of BounceEnd: the port stays closed until the next registration.
BounceEndDown ==
  /\ bouncing /\ bouncing' = FALSE
  /\ UNCHANGED << registered, listening, backlog, acceptor, life, sock, told,
                  bridge, ota, open, session, counts >>

\* _bounce_run, when the downtime is over.
BounceEnd ==
  /\ bouncing /\ bouncing' = FALSE
  /\ IF registered = {} THEN UNCHANGED listening ELSE EnsureRunning
  /\ UNCHANGED << registered, backlog, acceptor, life, sock, told, bridge, ota,
                  open, session, counts >>

-----------------------------------------------------------------------------
(* The accept thread: _accept_loop and _install_hub_socket.                *)

Accept ==
  /\ apc = "idle" /\ listening /\ backlog # << >>
  /\ LET c == Head(backlog) IN
     /\ client' = c /\ backlog' = Tail(backlog) /\ apc' = "lookup"
     /\ refused' = refused \cup (IF paused[Owner(c)] THEN {c} ELSE {})
  /\ UNCHANGED << listener, existing, life, sock, told, bridge, ota, open, session,
                  counts >>

\* The accept thread closes the connection it holds.
Reject ==
  /\ open' = open \ {client} /\ refused' = refused \ {client}
  /\ client' = NoConn /\ apc' = "idle"

\* An unknown peer is dropped; the registration is used after the lock is gone.
Lookup ==
  /\ apc = "lookup"
  /\ \/ Owner(client) \notin registered /\ Reject
     \/ Owner(client) \in registered /\ apc' = "check"
        /\ UNCHANGED << client, refused, open >>
  /\ UNCHANGED << listener, backlog, existing, life, sock, told, bridge, ota,
                  session, counts >>

\* Mutant of CheckPause: no OTA check.
CheckNothing ==
  /\ apc = "check" /\ apc' = "swap"
  /\ UNCHANGED << listener, backlog, client, existing, refused, life, sock, told,
                  bridge, ota, open, session, counts >>

\* if self._ota_pause_active(): reject
CheckPause ==
  /\ apc = "check"
  /\ \/ paused[Owner(client)] /\ Reject
     \/ ~paused[Owner(client)] /\ apc' = "swap"
        /\ UNCHANGED << client, refused, open >>
  /\ UNCHANGED << listener, backlog, existing, life, sock, told, bridge, ota,
                  session, counts >>

\* existing = self._hub_sock; self._hub_sock = hub_sock, under the lock.
Swap ==
  /\ apc = "swap" /\ apc' = "close"
  /\ existing' = sock[Owner(client)]
  /\ sock' = [sock EXCEPT ![Owner(client)] = client]
  /\ UNCHANGED << listener, backlog, client, refused, life, told, bridge, ota,
                  open, session, counts >>

CloseExisting ==
  /\ apc = "close" /\ apc' = "tell"
  /\ open' = open \ {existing} /\ existing' = NoConn
  /\ UNCHANGED << listener, backlog, client, refused, life, sock, told, bridge,
                  ota, session, counts >>

TellConnected ==
  /\ apc = "tell" /\ apc' = "idle"
  /\ told' = [told EXCEPT ![Owner(client)] = TRUE]
  /\ client' = NoConn
  /\ UNCHANGED << listener, backlog, existing, refused, life, sock, bridge, ota,
                  open, session, counts >>

-----------------------------------------------------------------------------
(* The bridge thread: _bridge_forever.                                     *)

\* The loop head; a bridge that is told to stop leaves the loop here.
Sample(h) ==
  /\ bpc[h] = "loop" /\ life[h] = "up" /\ sampled[h] # sock[h]
  /\ sampled' = [sampled EXCEPT ![h] = sock[h]]
  /\ UNCHANGED << listener, backlog, acceptor, life, sock, told, bpc, ota, open,
                  session, counts >>

\* The peer has gone (end of file, reset, keepalive) or this end is closed.
Ended(c) == c \notin open \/ session[Owner(c)] # c

\* recv returns no data or fails, on the socket sampled at the loop head.
Eof(h) ==
  /\ bpc[h] = "loop" /\ sampled[h] # NoConn /\ Ended(sampled[h])
  /\ bpc' = [bpc EXCEPT ![h] = "clear"]
  /\ UNCHANGED << listener, backlog, acceptor, life, sock, told, sampled, ota,
                  open, session, counts >>

ThenTell(h) ==
  bpc' = [bpc EXCEPT ![h] = IF bpc[h] = "clear" THEN "tell" ELSE "tell again"]

\* Mutant of Clear: the socket is closed, the field keeps it.
ClearKeeps(h) ==
  /\ bpc[h] \in {"clear", "clear again"} /\ ThenTell(h)
  /\ open' = open \ {sampled[h]}
  /\ UNCHANGED << listener, backlog, acceptor, life, sock, told, sampled, ota,
                  session, counts >>

\* hub.close(); self._hub_sock = None, under the lock.
Clear(h) ==
  /\ bpc[h] \in {"clear", "clear again"} /\ ThenTell(h)
  /\ open' = open \ {sampled[h]}
  /\ sock' = [sock EXCEPT ![h] = NoConn]
  /\ UNCHANGED << listener, backlog, acceptor, life, told, sampled, ota, session,
                  counts >>

\* In the same round buffered frames may still be flushed to the same socket:
\* that fails, and the field is cleared once more (a third time adds nothing).
TellLost(h) ==
  /\ bpc[h] \in {"tell", "tell again"}
  /\ told' = [told EXCEPT ![h] = FALSE]
  /\ \/ bpc[h] = "tell" /\ bpc' = [bpc EXCEPT ![h] = "clear again"]
        /\ UNCHANGED sampled
     \/ bpc' = [bpc EXCEPT ![h] = "loop"]
        /\ sampled' = [sampled EXCEPT ![h] = NoConn]
  /\ UNCHANGED << listener, backlog, acceptor, life, sock, ota, open, session,
                  counts >>

-----------------------------------------------------------------------------
(* The event loop and the executor: OTA pause and stop.                    *)

\* pause_for_ota: arm the deadline, ...
Pause(h) ==
  /\ life[h] = "up" /\ ~paused[h] /\ upsets < MaxUpsets
  /\ paused' = [paused EXCEPT ![h] = TRUE] /\ upsets' = upsets + 1
  /\ ppc' = [ppc EXCEPT ![h] = "take"]
  /\ UNCHANGED << listener, backlog, acceptor, life, sock, told, bridge, taken,
                  open, session, bounces >>

\* ... take the socket under the lock, ...
TakeSocket(h) ==
  /\ ppc[h] = "take"
  /\ taken' = [taken EXCEPT ![h] = sock[h]]
  /\ sock' = [sock EXCEPT ![h] = NoConn]
  /\ ppc' = [ppc EXCEPT ![h] = IF sock[h] = NoConn THEN "no" ELSE "close"]
  /\ UNCHANGED << listener, backlog, acceptor, life, told, bridge, paused, open,
                  session, counts >>

\* Mutant of CloseTaken: the taken socket is kept.
CloseKeeps(h) ==
  /\ ppc[h] = "close" /\ ppc' = [ppc EXCEPT ![h] = "no"]
  /\ open' = open \ {taken[h]}
  /\ told' = [told EXCEPT ![h] = FALSE]
  /\ UNCHANGED << listener, backlog, acceptor, life, sock, bridge, paused, taken,
                  session, counts >>

\* ... close it and notify.
CloseTaken(h) ==
  /\ ppc[h] = "close" /\ ppc' = [ppc EXCEPT ![h] = "no"]
  /\ open' = open \ {taken[h]} /\ taken' = [taken EXCEPT ![h] = NoConn]
  /\ told' = [told EXCEPT ![h] = FALSE]
  /\ UNCHANGED << listener, backlog, acceptor, life, sock, bridge, paused, session,
                  counts >>

\* The deadline passes.
PauseEnd(h) ==
  /\ paused[h] /\ ppc[h] = "no"
  /\ paused' = [paused EXCEPT ![h] = FALSE]
  /\ refused' = {c \in refused : Owner(c) # h}
  /\ UNCHANGED << listener, backlog, apc, client, existing, life, sock, told,
                  bridge, ppc, taken, open, session, counts >>

\* stop: set _stop and unregister, which closes the port with the last hub.
StopUnregister(h) ==
  /\ life[h] = "up" /\ life' = [life EXCEPT ![h] = "stopping"]
  /\ registered' = registered \ {h}
  /\ IF registered' = {} THEN StopListening
                         ELSE UNCHANGED << listening, backlog, open >>
  /\ UNCHANGED << bouncing, acceptor, sock, told, bridge, ota, session, counts >>

\* stop: close the socket and notify, both under the lock.
StopClose(h) ==
  /\ life[h] = "stopping" /\ life' = [life EXCEPT ![h] = "stopped"]
  /\ open' = open \ {sock[h]}
  /\ sock' = [sock EXCEPT ![h] = NoConn]
  /\ told' = [told EXCEPT ![h] = told[h] /\ sock[h] = NoConn]
  /\ UNCHANGED << listener, backlog, acceptor, bridge, ota, session, counts >>

-----------------------------------------------------------------------------
(* The hubs and the interpreter.                                           *)

\* What a field, a local variable or the kernel still refers to.
Held ==
  Pending \cup {client, existing}
  \cup UNION {{sock[h], sampled[h], taken[h]} : h \in Hubs}

\* A socket object nobody refers to is closed when it is collected; the accept
\* thread may keep its last one for as long as it likes.
Collect(c) ==
  /\ c \in open \ Held /\ open' = open \ {c}
  /\ UNCHANGED << listener, backlog, acceptor, life, sock, told, bridge, ota,
                  session, counts >>

\* Hub h opens a connection, and forgets the one it had.
Connect(h) ==
  /\ listening
  /\ \E c \in ({h} \X Slots) \ (open \cup Held) :
       /\ open' = open \cup {c} /\ backlog' = Append(backlog, c)
       /\ session' = [session EXCEPT ![h] = c]
  /\ UNCHANGED << listener, acceptor, life, sock, told, bridge, ota, counts >>

\* A hub whose session has ended dials again; a stopped hub does so too.
Redial(h) == session[h] \notin open /\ Connect(h)

\* _call_me_loop calls a hub that is not connected every 2 s: the hub follows, and
\* the connection it opens is taken up before the next call.
CallMe(h) ==
  /\ life[h] = "up" /\ sock[h] = NoConn /\ ~paused[h]
  /\ session[h] \notin Pending \cup ({client} \cap Conns)
  /\ Connect(h)

\* A hub closes its session, or restarts and forgets it.
Leave(h) ==
  /\ session[h] # NoConn /\ upsets < MaxUpsets
  /\ session' = [session EXCEPT ![h] = NoConn] /\ upsets' = upsets + 1
  /\ UNCHANGED << listener, backlog, acceptor, life, sock, told, bridge, ota, open,
                  bounces >>

-----------------------------------------------------------------------------

AcceptStep ==
  Accept \/ Lookup \/ CheckPause \/ Swap \/ CloseExisting \/ TellConnected

BridgeStep(h) == Sample(h) \/ Eof(h) \/ Clear(h) \/ TellLost(h)

ControlStep(h) ==
  \/ Start(h) \/ Pause(h) \/ TakeSocket(h) \/ CloseTaken(h) \/ PauseEnd(h)
  \/ StopUnregister(h) \/ StopClose(h)

HubStep(h) == Redial(h) \/ CallMe(h) \/ Leave(h)

Next ==
  \/ AcceptStep \/ Bounce \/ BounceEnd
  \/ \E h \in Hubs : BridgeStep(h) \/ ControlStep(h) \/ HubStep(h)
  \/ \E c \in Conns : Collect(c)

Spec == Init /\ [][Next]_vars

\* Threads run, downtimes and pauses end, a hub that is called answers.  A stop, a
\* pause, a bounce and the departure of a hub never have to happen.
FairSpec ==
  /\ Spec
  /\ WF_vars(AcceptStep) /\ WF_vars(BounceEnd)
  /\ \A h \in Hubs :
       /\ WF_vars(BridgeStep(h)) /\ WF_vars(CallMe(h))
       /\ WF_vars(TakeSocket(h) \/ CloseTaken(h) \/ PauseEnd(h))
       /\ WF_vars(StopClose(h))

-----------------------------------------------------------------------------
(* Properties.                                                             *)

\* Every variable keeps the type its field has in the code, and the locals of a
\* thread are set exactly where it uses them.
TypeOK ==
  /\ registered \subseteq Hubs /\ listening \in BOOLEAN /\ bouncing \in BOOLEAN
  /\ backlog \in Seq(Conns)
  /\ apc \in {"idle", "lookup", "check", "swap", "close", "tell"}
  /\ client \in Conns \cup {NoConn} /\ existing \in Conns \cup {NoConn}
  /\ refused \subseteq Conns
  /\ life \in [Hubs -> {"new", "up", "stopping", "stopped"}]
  /\ sock \in [Hubs -> Conns \cup {NoConn}] /\ told \in [Hubs -> BOOLEAN]
  /\ bpc \in [Hubs -> {"loop", "clear", "tell", "clear again", "tell again"}]
  /\ sampled \in [Hubs -> Conns \cup {NoConn}]
  /\ paused \in [Hubs -> BOOLEAN] /\ ppc \in [Hubs -> {"no", "take", "close"}]
  /\ taken \in [Hubs -> Conns \cup {NoConn}]
  /\ open \subseteq Conns /\ session \in [Hubs -> Conns \cup {NoConn}]
  /\ upsets \in 0 .. MaxUpsets /\ bounces \in 0 .. MaxBounces
  /\ client # NoConn <=> apc # "idle"
  /\ existing # NoConn => apc = "close"
  /\ \A h \in Hubs : /\ taken[h] # NoConn <=> ppc[h] = "close"
                     /\ bpc[h] # "loop" => sampled[h] # NoConn

\* "By briefly closing the bound socket": the port is open exactly while a hub is
\* registered and no bounce is under way, in whatever order hubs are started,
\* stopped and bounced.
PortFollowsHubs == listening <=> registered # {} /\ ~bouncing

\* The bridge never uses a socket that has been closed: accept thread, bridge
\* thread, OTA pause and stop take it out of _hub_sock when they close it,
\* although each decides on a value it read before.
CurrentIsOpen == \A h \in Hubs : sock[h] \in open \cup {NoConn}

\* pause_for_ota: "refuse reconnects".  A connection that is taken up during a
\* pause never becomes the session of that pause.
PauseRefuses == \A h \in Hubs : sock[h] \notin refused

\* "that hub self-heals via its own CALL_ME loop afterwards": once hubs stay and
\* no further pause or bounce comes, the bridge of a running hub has a session
\* for good, whatever was replaced, paused or dropped before.
SelfHeals == \A h \in Hubs : <>[](life[h] # "up" \/ sock[h] # NoConn)

\* test_install_hub_socket_replaces_existing_socket: after a reconnect the bridge
\* uses the new socket.  Only the end of that socket, a pause or a stop takes it
\* away.
OnlyItsEndClears(h) ==
  sock[h] # NoConn /\ sock'[h] = NoConn =>
    sampled[h] = sock[h] \/ ppc[h] = "take" \/ life[h] = "stopping"
ReplacementStays == [][\A h \in Hubs : OnlyItsEndClears(h)]_vars

\* erase_configuration: "_hub_connected is updated by the transport bridge as
\* frames arrive / connections drop".  With no change under way the state that
\* was passed on last is the state of the bridge.
Settled(h) ==
  /\ life[h] = "up" /\ bpc[h] = "loop" /\ ppc[h] = "no"
  /\ client = NoConn \/ Owner(client) # h
StateIsTold == \A h \in Hubs : Settled(h) => told[h] = (sock[h] # NoConn)
=============================================================================
