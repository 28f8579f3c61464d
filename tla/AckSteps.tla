------------------------------ MODULE AckSteps ------------------------------
(***************************************************************************)
(* How a blocking call on the hub gets its answer (lib/proxy_ack_waiters.py,*)
(* lib/proxy_exchange.py, run_create_sequence of lib/device_create.py).    *)
(* Executor threads send a frame inside an exchange and wait; the bridge   *)
(* thread puts the hub's answers where they wait: the ack queue, the       *)
(* buffer of inputs frames, the assembly of a key sort, the assigned       *)
(* device id.  None of these places says whom it is for, and               *)
(* reset_ack_queues empties all of them, also from outside the exchange.   *)
(*                                                                         *)
(* WireScheduler is about the wire being quiet; here it is, and the        *)
(* question is whose answer a caller takes for its own.                    *)
(***************************************************************************)
EXTENDS Integers, Sequences, SequencesExt

CONSTANTS
  Threads,    \* executor threads, each with an entity of its own
  Free,       \* nobody (the lock, the pending key sort)
  Programs,   \* the operations tried: sequences of Kinds
  MaxOps,     \* bound: operations begun
  MaxLate     \* bound: answers that outlast the wait for them

ASSUME AckBounds == Free \notin Threads /\ MaxOps \in Nat /\ MaxLate \in Nat

(***************************************************************************)
(* The kinds of step an operation is made of.                              *)
(*   reset    reset_ack_queues, outside of any exchange                    *)
(*   write    a write that is acked by a status                            *)
(*   bind     a write acked by its own echo or a status, tried twice       *)
(*   page     a page, but not the last, of a write of run_create_sequence  *)
(*   create   a create, acked by its own code that brings the new id       *)
(*   takeid   wait_for_assigned_device_id, after the exchange of create    *)
(*   save     a page of _send_paged_macro_save, which keeps the exchange   *)
(*   saved    its last page                                                *)
(*   order    request_favorites_order      sort  fetch_device_key_sort     *)
(*   inputs   fetch_device_input_entries   ask   query_device_input_index  *)
(***************************************************************************)
Local  == {"reset", "takeid"}
Framed == {"write", "bind", "page", "create", "save", "saved", "order", "sort", "inputs", "ask"}
Kinds  == Local \cup Framed
Inputs == {"inputs", "ask"}

Status  == {"ok", "empty", "refused"}       \* 0x0103 with 0x00, 0x07, 0x0C

ASSUME ProgramsAreOfKinds ==
  \A p \in Programs : p \in Seq(Kinds) /\ p # << >>

\* The id is only asked for right after a create, and the pages of a macro save
\* follow each other up to the last.
Follows(p) ==
  \A i \in DOMAIN p :
    /\ p[i] = "takeid" /\ i > 1 => p[i - 1] = "create"
    /\ p[i] = "save" => i < Len(p) /\ p[i + 1] \in {"save", "saved"}

ASSUME ProgramsAreOperations == \A p \in Programs : Follows(p) /\ Head(p) # "takeid"

VARIABLES
  todo,       \* steps left of each thread's operation
  pc,         \* where a thread is in its step
  tries,      \* attempts of the step so far
  holder,     \* _exchange_lock
  inbox,      \* frames on their way to the hub, in order
  line,       \* answers on their way back, in order
  acks,       \* _ack_queue, less what is older than the last send
  sorting,    \* _device_key_sort_pending: whose device
  buffer,     \* _activity_inputs_*: armed, refused (with its ticket), frames
  assigned,   \* _pending_assigned_device_id, 0 for None
  verdict,    \* outcome of a thread's step: AckOutcome
  \* history
  ticket,     \* frames sent so far
  mine,       \* tickets of the step under way
  got,        \* ticket of the answer a step took
  seen,       \* tickets whose answer the step would take and that has come
  meddled,    \* threads whose answer another one has thrown away or taken
  late,       \* number of steps left while an answer was still to come
  ops

conn   == << inbox, line >>
places == << acks, sorting, buffer, assigned >>
step   == << todo, pc, tries, verdict >>
ghosts == << ticket, mine, got, seen, meddled, late, ops >>
vars   == << step, holder, conn, places, ghosts >>

Empty == [armed |-> FALSE, refused |-> 0, frames |-> << >>]

Init ==
  /\ todo = [t \in Threads |-> << >>] /\ pc = [t \in Threads |-> "next"]
  /\ tries = [t \in Threads |-> 0] /\ verdict = [t \in Threads |-> "none"]
  /\ holder = Free /\ inbox = << >> /\ line = << >>
  /\ acks = << >> /\ sorting = Free /\ buffer = Empty /\ assigned = 0
  /\ ticket = 0 /\ mine = [t \in Threads |-> {}] /\ got = [t \in Threads |-> 0]
  /\ seen = {} /\ meddled = {} /\ late = 0 /\ ops = 0

At(t, label) == pc[t] = label
Goto(t, label) == pc' = [pc EXCEPT ![t] = label]
Step(t) == Head(todo[t])
Busy(t) == todo[t] # << >>
NextIs(t, kinds) == Busy(t) /\ At(t, "next") /\ Step(t) \in kinds

-----------------------------------------------------------------------------
(* Operations and what they do outside of the exchange.                    *)

\* A public method is called: delete_favorite, command_to_button, ...
Begin(t) ==
  /\ ~Busy(t) /\ ops < MaxOps
  /\ \E p \in Programs : todo' = [todo EXCEPT ![t] = p]
  /\ ops' = ops + 1 /\ meddled' = meddled \ {t}
  /\ mine' = [mine EXCEPT ![t] = {}] /\ got' = [got EXCEPT ![t] = 0]
  /\ verdict' = [verdict EXCEPT ![t] = "none"]
  /\ UNCHANGED << pc, tries, holder, conn, places, ticket, seen, late >>

\* The create of this thread has been acked and its id not been read yet.
IdUnread(t) ==
  \/ Busy(t) /\ Step(t) = "create" /\ pc[t] \in {"leave", "left"}
  \/ NextIs(t, {"takeid"})

\* The others whose answer would be thrown away now: they wait for it, or for the
\* id that came with it, or have armed a key sort.
Losers(t) == {u \in Threads \ {t} : At(u, "wait") \/ IdUnread(u) \/ sorting = u}

\* reset_ack_queues.  The frames of a burst are not among what it clears, but
\* their count is, which the waiter looks at: they are as good as gone.
Wiped ==
  /\ acks' = << >> /\ sorting' = Free /\ assigned' = 0
  /\ buffer' = [buffer EXCEPT !.frames = << >>]

ResetQueues(t) ==
  /\ NextIs(t, {"reset"})
  /\ Wiped
  /\ todo' = [todo EXCEPT ![t] = Tail(@)]
  /\ meddled' = meddled \cup Losers(t)
  /\ UNCHANGED << pc, tries, verdict, holder, conn, ticket, mine, got, seen, late, ops >>

\* fetch_device_key_sort arms the assembly before it enters the exchange.
ArmSort(t) ==
  /\ NextIs(t, {"sort"})
  /\ sorting' = t
  /\ Goto(t, "enter")
  /\ meddled' = IF sorting \in {Free, t} THEN meddled ELSE meddled \cup {sorting}
  /\ UNCHANGED << todo, tries, verdict, holder, conn, acks, buffer, assigned,
                  ticket, mine, got, seen, late, ops >>

\* wait_for_assigned_device_id: the id is there, or has been wiped and never comes.
TakeId(t) ==
  /\ NextIs(t, {"takeid"})
  /\ got' = [got EXCEPT ![t] = assigned]
  /\ verdict' = [verdict EXCEPT ![t] = IF assigned = 0 THEN "timeout" ELSE "acked"]
  /\ Goto(t, "left")
  /\ UNCHANGED << todo, tries, holder, conn, places, ticket, mine, seen, meddled, late, ops >>

-----------------------------------------------------------------------------
(* The exchange.                                                           *)

\* exchange() is entered, on a quiet wire, and what a helper clears inside it.
\* The pages of a macro save find the lock already theirs.
Enter(t) ==
  /\ Busy(t) /\ Step(t) \in Framed
  /\ At(t, IF Step(t) = "sort" THEN "enter" ELSE "next")
  /\ holder \in {Free, t} /\ holder' = t
  /\ Goto(t, "send")
  /\ tries' = [tries EXCEPT ![t] = 0]
  /\ mine' = [mine EXCEPT ![t] = IF Step(t) = "saved" THEN @ ELSE {}] /\ seen' = {}
  /\ CASE Step(t) = "order" ->
            Wiped /\ meddled' = meddled \cup Losers(t)
       [] Step(t) = "inputs" ->
            /\ buffer' = [Empty EXCEPT !.armed = TRUE]
            /\ UNCHANGED << acks, sorting, assigned, meddled >>
       [] Step(t) = "ask" ->
            /\ buffer' = [buffer EXCEPT !.frames = << >>]
            /\ UNCHANGED << acks, sorting, assigned, meddled >>
       [] OTHER -> UNCHANGED << places, meddled >>
  /\ UNCHANGED << todo, verdict, conn, ticket, got, late, ops >>

\* Mutant: the wait also looks at acks that are older than the frame.
SendKeepsAcks(t) ==
  /\ At(t, "send")
  /\ ticket' = ticket + 1
  /\ inbox' = Append(inbox, [id |-> ticket', by |-> t, kind |-> Step(t)])
  /\ mine' = [mine EXCEPT ![t] = @ \cup {ticket'}]
  /\ tries' = [tries EXCEPT ![t] = @ + 1]
  /\ Goto(t, "wait")
  /\ UNCHANGED << todo, verdict, holder, line, places, got, seen, meddled, late, ops >>

\* The frame leaves; not_before hides the acks that are already there.
Send(t) ==
  /\ At(t, "send")
  /\ ticket' = ticket + 1
  /\ inbox' = Append(inbox, [id |-> ticket', by |-> t, kind |-> Step(t)])
  /\ mine' = [mine EXCEPT ![t] = @ \cup {ticket'}]
  /\ tries' = [tries EXCEPT ![t] = @ + 1]
  /\ acks' = << >>
  /\ Goto(t, "wait")
  /\ UNCHANGED << todo, verdict, holder, line, sorting, buffer, assigned, got, seen,
                  meddled, late, ops >>

\* The answers that a step listens for.
Listens(t, kind, a) ==
  CASE kind \in {"write", "page", "save"} -> a.what \in Status
    [] kind = "bind"   -> a.what \in Status \/ (a.what = "bound" /\ a.by = t)
    [] kind = "saved"  -> a.what \in Status \cup {"stored"}
    [] kind = "create" -> a.what = "created"
    [] kind = "order"  -> a.what = "empty" \/ (a.what = "ordered" /\ a.by = t)
    [] kind = "sort"   -> a.what \in Status \/ (a.what = "sorted" /\ a.by = t)
    [] OTHER -> FALSE

\* How the caller takes it: a page that is not the last is not looked at
\* (run_create_sequence), an empty table is an answer like another to a read.  A
\* status in reply to a key sort says that there is none.
Outcome(kind, a) ==
  IF \/ kind \in {"write", "bind", "save", "saved"} /\ a.what \in {"empty", "refused"}
     \/ kind = "sort" /\ a.what \in Status
  THEN "rejected" ELSE "acked"

\* The hub owes this thread an answer, or has sent it.
Owed(t, but) ==
  \/ \E i \in DOMAIN inbox : inbox[i].id \in mine[t] \ {but}
  \/ \E i \in DOMAIN line : line[i].id \in mine[t] \ {but}

Leave(t, outcome, tk) ==
  /\ verdict' = [verdict EXCEPT ![t] = outcome]
  /\ got' = [got EXCEPT ![t] = tk]
  /\ Goto(t, "leave")
  /\ IF Owed(t, tk) THEN late < MaxLate /\ late' = late + 1 ELSE late' = late

\* wait_for_ack_any: the first ack in the queue that the step listens for.
TakeAck(t) ==
  /\ At(t, "wait") /\ Step(t) \notin Inputs
  /\ \E i \in DOMAIN acks :
       /\ Listens(t, Step(t), acks[i])
       /\ \A j \in 1 .. i - 1 : ~Listens(t, Step(t), acks[j])
       /\ acks' = RemoveAt(acks, i)
       /\ Leave(t, Outcome(Step(t), acks[i]), acks[i].id)
  /\ UNCHANGED << todo, tries, holder, conn, sorting, buffer, assigned, ticket, mine, seen,
                  meddled, ops >>

\* wait_for_activity_inputs_burst: a refusal first, then a burst that has ended.
TakeInputs(t) ==
  /\ At(t, "wait") /\ Step(t) \in Inputs
  /\ IF buffer.refused # 0
     THEN Leave(t, "rejected", buffer.refused)
          /\ buffer' = [buffer EXCEPT !.refused = 0, !.frames = << >>]
     ELSE /\ buffer.frames # << >>
          /\ Leave(t, "acked", Head(buffer.frames))
          /\ buffer' = [buffer EXCEPT !.frames = << >>]
  /\ UNCHANGED << todo, tries, holder, conn, acks, sorting, assigned, ticket, mine, seen,
                  meddled, ops >>

\* Mutant: only the oldest ack is looked at.
NothingFirst(t) ==
  IF Step(t) \in Inputs THEN buffer.refused = 0 /\ buffer.frames = << >>
  ELSE ~(acks # << >> /\ Listens(t, Step(t), Head(acks)))

Nothing(t) ==
  IF Step(t) \in Inputs THEN buffer.refused = 0 /\ buffer.frames = << >>
  ELSE \A i \in DOMAIN acks : ~Listens(t, Step(t), acks[i])

Attempts(kind) == IF kind = "bind" THEN 2 ELSE 1

\* The wait is over: the next attempt in the same exchange, or the step fails.
Timeout(t) ==
  /\ At(t, "wait") /\ Nothing(t)
  /\ IF tries[t] < Attempts(Step(t))
     THEN Goto(t, "send") /\ UNCHANGED << verdict, got, late >>
     ELSE Leave(t, "timeout", 0)
  /\ UNCHANGED << todo, tries, holder, conn, places, ticket, mine, seen, meddled, ops >>

\* Mutant: the lock goes back after every page of a macro save.
LeaveBetweenPages(t) ==
  /\ At(t, "leave")
  /\ Goto(t, "left")
  /\ holder' = Free
  /\ buffer' = IF Step(t) = "inputs" THEN [buffer EXCEPT !.armed = FALSE] ELSE buffer
  /\ UNCHANGED << todo, tries, verdict, conn, acks, sorting, assigned, ghosts >>

\* Mutant: a page that failed keeps the lock.
LeaveSaveLocked(t) ==
  /\ At(t, "leave")
  /\ Goto(t, "left")
  /\ holder' = IF Step(t) = "save" THEN t ELSE Free
  /\ buffer' = IF Step(t) = "inputs" THEN [buffer EXCEPT !.armed = FALSE] ELSE buffer
  /\ UNCHANGED << todo, tries, verdict, conn, acks, sorting, assigned, ghosts >>

\* The scope ends: _activity_inputs_pending is cleared in its finally, the lock
\* goes back, unless the next page of a macro save follows.
LeaveExchange(t) ==
  /\ At(t, "leave")
  /\ Goto(t, "left")
  /\ holder' = IF Step(t) = "save" /\ verdict[t] = "acked" THEN t ELSE Free
  /\ buffer' = IF Step(t) = "inputs" THEN [buffer EXCEPT !.armed = FALSE] ELSE buffer
  /\ UNCHANGED << todo, tries, verdict, conn, acks, sorting, assigned, ghosts >>

\* fetch_device_key_sort disarms the assembly when no table has come, with the
\* exchange over: another thread may have armed it for itself by then.
Disarms(t) == Step(t) = "sort" /\ verdict[t] # "acked"

\* The caller goes on to its next step, or gives up.
Proceed(t) ==
  /\ At(t, "left")
  /\ todo' = [todo EXCEPT ![t] = IF verdict[t] = "acked" THEN Tail(@) ELSE << >>]
  /\ Goto(t, "next")
  /\ sorting' = IF Disarms(t) THEN Free ELSE sorting
  /\ meddled' = IF Disarms(t) THEN meddled \cup ({sorting} \ {t, Free}) ELSE meddled
  /\ UNCHANGED << tries, verdict, holder, conn, acks, buffer, assigned,
                  ticket, mine, got, seen, late, ops >>

-----------------------------------------------------------------------------
(* The hub, and the bridge thread that hands its answers over.             *)

\* What the hub may answer to a frame.
Answers(kind) ==
  CASE kind \in {"write", "page", "save"} -> {"ok", "refused"}
    [] kind = "bind"   -> {"bound", "ok", "refused"}
    [] kind = "saved"  -> {"stored", "refused"}
    [] kind = "create" -> {"created", "refused"}
    [] kind = "order"  -> {"favorites", "empty"}
    [] kind = "sort"   -> {"keys", "empty"}
    [] OTHER -> {"input", "empty"}

\* It serves one frame after the other, and may ignore one.
HubServe ==
  /\ inbox # << >> /\ inbox' = Tail(inbox)
  /\ LET f == Head(inbox) IN
     \/ UNCHANGED line
     \/ \E w \in Answers(f.kind) : line' = Append(line, [id |-> f.id, by |-> f.by, what |-> w])
  /\ UNCHANGED << step, holder, places, ghosts >>

\* An answer is queued as an ack.  seen notes that the one who waits could take it.
Queue(a) ==
  /\ acks' = Append(acks, a)
  /\ seen' = IF \E t \in Threads : At(t, "wait") /\ a.id \in mine[t] /\ Listens(t, Step(t), a)
             THEN seen \cup {a.id} ELSE seen

\* A status: notify_ack takes a non-zero one for the refusal of an inputs request
\* that is armed and has no frame yet, and queues it all the same.
StatusAnswer(a) ==
  /\ a.what \in Status
  /\ Queue(a)
  /\ buffer' = IF a.what # "ok" /\ buffer.armed /\ buffer.frames = << >>
               THEN [buffer EXCEPT !.refused = a.id] ELSE buffer
  /\ UNCHANGED << sorting, assigned, meddled >>

\* Mutant: an id that is there is kept.
CreatedAnswerOnce(a) ==
  /\ a.what = "created"
  /\ assigned' = IF assigned = 0 THEN a.id ELSE assigned
  /\ Queue(a)
  /\ meddled' = meddled \cup {u \in Threads \ {a.by} : IdUnread(u)}
  /\ UNCHANGED << sorting, buffer >>

\* CreateDeviceAckHandler: the id first, then the ack.
CreatedAnswer(a) ==
  /\ a.what = "created"
  /\ assigned' = a.id
  /\ Queue(a)
  /\ meddled' = meddled \cup {u \in Threads \ {a.by} : IdUnread(u)}
  /\ UNCHANGED << sorting, buffer >>

\* FavoritesOrderHandler: family 0x63 answers both a favorites order and a key
\* sort.  It is the key sort's if one is armed for this very entity; one that is
\* armed for another is disarmed, and the frame is read as a favorites order.
TableAnswer(a) ==
  /\ a.what \in {"favorites", "keys"}
  /\ LET own == a.what = "keys" /\ sorting = a.by IN
     /\ Queue([a EXCEPT !.what = IF own THEN "sorted" ELSE "ordered"])
     /\ meddled' = IF own THEN meddled ELSE meddled \cup {t \in Threads : sorting = t}
  /\ sorting' = Free
  /\ UNCHANGED << buffer, assigned >>

\* notify_activity_inputs_frame.
InputAnswer(a) ==
  /\ a.what = "input"
  /\ buffer' = [buffer EXCEPT !.frames = Append(@, a.id)]
  /\ UNCHANGED << acks, sorting, assigned, seen, meddled >>

\* Any other echo of a write.
EchoAnswer(a) ==
  /\ a.what \in {"bound", "stored"}
  /\ Queue(a)
  /\ UNCHANGED << sorting, buffer, assigned, meddled >>

Deliver ==
  /\ line # << >> /\ line' = Tail(line)
  /\ LET a == Head(line) IN
       \/ StatusAnswer(a) \/ CreatedAnswer(a) \/ TableAnswer(a)
       \/ InputAnswer(a) \/ EchoAnswer(a)
  /\ UNCHANGED << step, holder, inbox, ticket, mine, got, late, ops >>

Next ==
  \/ \E t \in Threads :
       \/ Begin(t) \/ ResetQueues(t) \/ ArmSort(t) \/ TakeId(t)
       \/ Enter(t) \/ Send(t) \/ TakeAck(t) \/ TakeInputs(t) \/ Timeout(t)
       \/ LeaveExchange(t) \/ Proceed(t)
  \/ HubServe \/ Deliver

Spec == Init /\ [][Next]_vars

-----------------------------------------------------------------------------
(* Properties.                                                             *)

Tickets == 0 .. ticket

\* Every place holds what the code may put there; the lock belongs to a thread that is
\* inside its step or between the pages of a macro save.
TypeOK ==
  /\ todo \in [Threads -> Seq(Kinds)]
  /\ pc \in [Threads -> {"next", "enter", "send", "wait", "leave", "left"}]
  /\ tries \in [Threads -> 0 .. 2]
  /\ verdict \in [Threads -> {"none", "acked", "rejected", "timeout"}]
  /\ holder \in Threads \cup {Free} /\ sorting \in Threads \cup {Free}
  /\ assigned \in Tickets /\ buffer.refused \in Tickets /\ buffer.armed \in BOOLEAN
  /\ ticket \in Nat /\ ops \in 0 .. MaxOps /\ late \in 0 .. MaxLate
  /\ \A t \in Threads : At(t, "send") \/ At(t, "wait") \/ At(t, "leave") => holder = t
  /\ \A t \in Threads : holder = t => Busy(t)

\* A step is decided by an answer to a frame of its own, also when that answer is a
\* refusal left behind in the queue by a step of another kind or in the inputs
\* buffer: nothing in an ack says what it answers but the time it came
\* (proxy_ack_waiters.py, not_before).  It holds while no wait ended before its
\* answer had come.
AckIsOwn ==
  \A t \in Threads :
    At(t, "leave") /\ verdict[t] # "timeout" /\ late = 0 => got[t] \in mine[t]

\* A step times out only if nothing that it listens for has come since it entered the
\* exchange, unless another thread emptied the queues under it.
TimeoutMeansSilence ==
  \A t \in Threads :
    At(t, "leave") /\ verdict[t] = "timeout" /\ t \notin meddled => seen \cap mine[t] = {}

\* The id a thread goes on with is that of the device it has created itself, or none
\* (wait_for_assigned_device_id after the exchange), unless another thread's create
\* came in between; with a wrong one the steps that follow write another device.
CreatedIsOwn ==
  \A t \in Threads :
    At(t, "left") /\ Step(t) = "takeid" /\ t \notin meddled /\ late = 0 =>
      verdict[t] = "acked" /\ got[t] \in mine[t]

\* The attempts of one step and the pages of one macro save follow each other to the
\* hub with no frame of another thread between them (execute_exchange and
\* _send_paged_macro_save: one scope around the loop).
AttemptsTogether ==
  \A t \in Threads : At(t, "wait") =>
    \A k \in mine[t] : k .. ticket \subseteq mine[t]

=============================================================================
