--------------------------- MODULE AckStepsProofs ---------------------------
(***************************************************************************)
(* Proofs about AckSteps, for any number of threads, any operations made   *)
(* of its steps and any number of late answers.                            *)
(***************************************************************************)
EXTENDS AckSteps, SequenceTheorems, TLAPS

-----------------------------------------------------------------------------
(* Sequences.                                                               *)

\* What Append does to the elements of a sequence.
LEMMA AppendRange ==
  ASSUME NEW S, NEW s \in Seq(S), NEW e \in S
  PROVE  /\ Range(Append(s, e)) = Range(s) \cup {e}
         /\ IsInjective(s) /\ e \notin Range(s) => IsInjective(Append(s, e))
<1> DEFINE a == Append(s, e)
<1>1. /\ Len(s) \in Nat /\ DOMAIN s = 1 .. Len(s) /\ DOMAIN a = 1 .. Len(s) + 1
      /\ a[Len(s) + 1] = e /\ \A i \in 1 .. Len(s) : a[i] = s[i]
  BY AppendProperties
<1> HIDE DEF a
<1>2. \A i \in DOMAIN a : i = Len(s) + 1 \/ i \in DOMAIN s
  BY <1>1
<1>3. Range(a) = Range(s) \cup {e}
  BY <1>1, <1>2 DEF Range
<1>4. IsInjective(s) /\ e \notin Range(s) => IsInjective(a)
  BY <1>1, <1>2 DEF Range, IsInjective
<1> QED
  BY <1>3, <1>4 DEF a

\* What taking the head off a sequence does to its elements.
LEMMA TailRange ==
  ASSUME NEW S, NEW s \in Seq(S), s # << >>
  PROVE  /\ Range(s) = {Head(s)} \cup Range(Tail(s))
         /\ IsInjective(s) => IsInjective(Tail(s)) /\ Head(s) \notin Range(Tail(s))
<1>1. /\ DOMAIN s = 1 .. Len(s) /\ Len(s) \in Nat \ {0}
      /\ Head(s) = s[1] /\ Tail(s) \in Seq(S) /\ Len(Tail(s)) = Len(s) - 1
      /\ DOMAIN Tail(s) = 1 .. Len(s) - 1
      /\ \A i \in 1 .. Len(s) - 1 : Tail(s)[i] = s[i + 1]
  OBVIOUS
<1>2. \A i \in 1 .. Len(s) : i = 1 \/ (i - 1 \in 1 .. Len(s) - 1 /\ i - 1 + 1 = i)
  BY <1>1
<1>3. Range(s) \subseteq {Head(s)} \cup Range(Tail(s))
  <2> SUFFICES ASSUME NEW i \in 1 .. Len(s), s[i] # Head(s)
               PROVE  s[i] \in Range(Tail(s))
    BY <1>1 DEF Range
  <2>1. i - 1 \in 1 .. Len(s) - 1 /\ Tail(s)[i - 1] = s[i]
    BY <1>1, <1>2
  <2> QED
    BY <1>1, <2>1 DEF Range
<1>4. \A i \in 1 .. Len(s) - 1 : i + 1 \in 1 .. Len(s) /\ i + 1 # 1
  BY <1>1
<1>5. {Head(s)} \cup Range(Tail(s)) \subseteq Range(s)
  BY <1>1, <1>4 DEF Range
<1>6. ASSUME IsInjective(s) PROVE IsInjective(Tail(s)) /\ Head(s) \notin Range(Tail(s))
  <2>1. Head(s) \notin Range(Tail(s))
    BY <1>1, <1>4, <1>6 DEF Range, IsInjective
  <2>2. ASSUME NEW i \in 1 .. Len(s) - 1, NEW j \in 1 .. Len(s) - 1,
               Tail(s)[i] = Tail(s)[j]
        PROVE  i = j
    <3>1. i + 1 = j + 1
      BY <1>1, <1>4, <1>6, <2>2 DEF IsInjective
    <3> QED
      BY <3>1
  <2> QED
    BY <1>1, <2>1, <2>2 DEF IsInjective
<1> QED
  BY <1>3, <1>5, <1>6

-----------------------------------------------------------------------------
(* The inductive invariant.                                                *)

Frames  == [id : Nat, by : Threads, kind : Framed]
Whats   == Status \cup {"bound", "stored", "created", "favorites", "keys", "ordered",
                        "sorted", "input"}
Acks    == [id : Nat, by : Threads, what : Whats]
Buffers == [armed : BOOLEAN, refused : Nat, frames : Seq(Nat)]

\* What every variable may hold.
Typed ==
  /\ todo \in [Threads -> Seq(Kinds)]
  /\ pc \in [Threads -> {"next", "enter", "send", "wait", "leave", "left"}]
  /\ tries \in [Threads -> 0 .. 2]
  /\ verdict \in [Threads -> {"none", "acked", "rejected", "timeout"}]
  /\ holder \in Threads \cup {Free} /\ sorting \in Threads \cup {Free}
  /\ inbox \in Seq(Frames) /\ line \in Seq(Acks) /\ acks \in Seq(Acks)
  /\ buffer \in Buffers /\ assigned \in Nat
  /\ ticket \in Nat /\ ops \in 0 .. MaxOps /\ late \in 0 .. MaxLate
  /\ mine \in [Threads -> SUBSET Nat] /\ got \in [Threads -> Nat]
  /\ seen \in SUBSET Nat /\ meddled \in SUBSET Threads

\* What is left of an operation goes on as operations do.
TodoFollows == \A t \in Threads : Follows(todo[t])

\* Where a thread is in its step, and whether it holds the exchange there.
Scope(t) ==
  /\ pc[t] \in {"send", "wait", "leave"} => holder = t /\ Busy(t) /\ Step(t) \in Framed
  /\ pc[t] = "send" => tries[t] < Attempts(Step(t))
  /\ pc[t] = "enter" => holder # t /\ Busy(t) /\ Step(t) = "sort"
  /\ pc[t] = "left" => Busy(t) /\ (holder = t => Step(t) = "save" /\ verdict[t] = "acked")
  /\ pc[t] = "next" /\ holder = t => Busy(t) /\ Step(t) \in {"save", "saved"}
Scoped == \A t \in Threads : Scope(t)

\* What has come of the frames so far: acks, frames of a burst, a refusal.
Come == {a.id : a \in Range(acks)} \cup Range(buffer.frames) \cup {buffer.refused}

\* A ticket is in one place only, on its way there, on its way back or come, and
\* it has been issued.
TicketsDiffer ==
  /\ IsInjective(inbox) /\ \A f, g \in Range(inbox) : f.id = g.id => f = g
  /\ IsInjective(line) /\ \A a, b \in Range(line) : a.id = b.id => a = b
  /\ \A f \in Range(inbox), a \in Range(line) : f.id # a.id
  /\ \A f \in Range(inbox) : f.id \notin Come
  /\ \A a \in Range(line) : a.id \notin Come
TicketsIssued ==
  /\ \A f \in Range(inbox) : f.id \in 1 .. ticket
  /\ \A a \in Range(line) : a.id \in 1 .. ticket
  /\ Come \subseteq 0 .. ticket /\ seen \subseteq 0 .. ticket
  /\ \A t \in Threads : mine[t] \subseteq 1 .. ticket
  /\ assigned <= ticket

Arming ==
  buffer.armed => /\ holder \in Threads
                  /\ Step(holder) = "inputs"
                  /\ pc[holder] \in {"send", "wait", "leave"}

\* While no answer has outlasted its wait, what is under way is the business of
\* the thread that waits for it, and so is what has come since its last frame.
OwnUnderWay(f) ==
  holder \in Threads /\ f.by = holder /\ f.id \in mine[holder] /\ pc[holder] \in {"send", "wait"}
Owned ==
  late = 0 =>
    /\ \A f \in Range(inbox) : OwnUnderWay(f)
    /\ \A a \in Range(line) : OwnUnderWay(a)
    /\ \A t \in Threads : At(t, "wait") => \A a \in Range(acks) : a.id \in mine[t]
    /\ \A t \in Threads :
         pc[t] \in {"send", "wait"} /\ Step(t) \in Inputs => Range(buffer.frames) \subseteq mine[t]
    /\ buffer.refused # 0 =>
         /\ holder \in Threads /\ pc[holder] \in {"send", "wait"}
         /\ Step(holder) \in Inputs /\ buffer.refused \in mine[holder]
    /\ AckIsOwn

\* What has come for the step under way is still where its wait looks for it.
Silent(t) == seen \cap mine[t] = {}
Heard ==
  \A t \in Threads \ meddled :
    /\ pc[t] = "send" => Silent(t)
    /\ pc[t] = "wait" => \A k \in seen \cap mine[t] :
                           \E a \in Range(acks) : a.id = k /\ Listens(t, Step(t), a)
    /\ pc[t] = "leave" /\ verdict[t] = "timeout" => Silent(t)

\* The id that is there is the one the thread has created.
IdIsOwn ==
  late = 0 => \A t \in Threads \ meddled :
    /\ pc[t] = "wait" /\ Step(t) = "create" /\ (\E a \in Range(acks) : a.what = "created")
         => assigned \in mine[t]
    /\ pc[t] \in {"leave", "left"} /\ Step(t) = "create" /\ verdict[t] = "acked"
         => assigned \in mine[t]
    /\ NextIs(t, {"takeid"}) => assigned \in mine[t]
    /\ pc[t] = "left" /\ Step(t) = "takeid" => verdict[t] = "acked" /\ got[t] \in mine[t]

Ground == Typed /\ TodoFollows /\ Scoped
Flight == TicketsDiffer /\ TicketsIssued /\ Arming
IInv == Ground /\ Flight /\ Owned /\ Heard /\ IdIsOwn

-----------------------------------------------------------------------------
(* Sequences and records of the model.                                     *)

\* Taking an ack out of the queue leaves acks that were there.
LEMMA RemoveAtRange ==
  ASSUME NEW S, NEW s \in Seq(S), NEW i \in DOMAIN s
  PROVE  RemoveAt(s, i) \in Seq(S) /\ Range(RemoveAt(s, i)) \subseteq Range(s)
<1>1. i \in 1 .. Len(s) /\ Len(s) \in Nat /\ DOMAIN s = 1 .. Len(s)
  OBVIOUS
<1> DEFINE b == SubSeq(s, 1, i - 1)
           e == SubSeq(s, i + 1, Len(s))
<1>2. /\ b \in Seq(S) /\ Len(b) = i - 1
      /\ \A k \in 1 .. i - 1 : b[k] = s[k]
  BY <1>1
<1>3. /\ e \in Seq(S) /\ Len(e) = Len(s) - i
      /\ \A k \in 1 .. Len(s) - i : e[k] = s[i + k]
  BY <1>1
<1> HIDE DEF b, e
<1>4. /\ b \o e \in Seq(S) /\ Len(b \o e) = Len(s) - 1
      /\ \A k \in 1 .. Len(b) : (b \o e)[k] = b[k]
      /\ \A k \in Len(b) + 1 .. Len(b) + Len(e) : (b \o e)[k] = e[k - Len(b)]
  <2>1. Len(b \o e) = Len(b) + Len(e) /\ Len(b) + Len(e) = Len(s) - 1
    BY <1>1, <1>2, <1>3
  <2>2. \A k \in 1 .. Len(b) + Len(e) :
          (b \o e)[k] = IF k <= Len(b) THEN b[k] ELSE e[k - Len(b)]
    BY <1>2, <1>3, ConcatProperties
  <2>3. Len(b) \in Nat /\ Len(e) \in Nat /\ b \o e \in Seq(S)
    BY <1>2, <1>3
  <2> HIDE <1>2, <1>3
  <2> QED
    BY <2>1, <2>2, <2>3
<1>5. ASSUME NEW k \in 1 .. Len(s) - 1 PROVE (b \o e)[k] \in Range(s)
  <2>1. CASE k < i
    <3>1. k \in 1 .. i - 1 /\ k \in DOMAIN s
      BY <1>1, <2>1
    <3>2. (b \o e)[k] = s[k]
      BY <1>2, <1>4, <3>1
    <3> QED
      BY <3>1, <3>2 DEF Range
  <2>2. CASE k >= i
    <3>1. /\ k \in Len(b) + 1 .. Len(b) + Len(e)
          /\ k - Len(b) \in 1 .. Len(s) - i
          /\ i + (k - Len(b)) = k + 1 /\ k + 1 \in DOMAIN s
      BY <1>1, <1>2, <1>3, <2>2
    <3>2. (b \o e)[k] = s[k + 1]
      BY <1>3, <1>4, <3>1
    <3> QED
      BY <3>1, <3>2 DEF Range
  <2> QED
    <3>1. k < i \/ k >= i
      BY <1>1
    <3> QED
      BY <2>1, <2>2, <3>1
<1>6. Range(b \o e) \subseteq Range(s)
  <2>1. DOMAIN (b \o e) = 1 .. Len(s) - 1
    BY <1>4
  <2> QED
    BY <1>5, <2>1 DEF Range
<1> QED
  BY <1>4, <1>6 DEF RemoveAt, b, e

\* What is left of an operation after a step.
LEMMA TodoTail ==
  ASSUME NEW s \in Seq(Kinds), s # << >>, Follows(s)
  PROVE  /\ Head(s) \in Kinds
         /\ Tail(s) \in Seq(Kinds) /\ Follows(Tail(s))
         /\ Head(s) = "save" => Tail(s) # << >> /\ Head(Tail(s)) \in {"save", "saved"}
         /\ Tail(s) # << >> /\ Head(Tail(s)) = "takeid" => Head(s) = "create"
<1>1. /\ Len(s) \in Nat \ {0} /\ DOMAIN s = 1 .. Len(s) /\ Head(s) = s[1] /\ Head(s) \in Kinds
      /\ Tail(s) \in Seq(Kinds) /\ Len(Tail(s)) = Len(s) - 1
      /\ DOMAIN Tail(s) = 1 .. Len(s) - 1
      /\ \A i \in 1 .. Len(s) - 1 : Tail(s)[i] = s[i + 1]
  OBVIOUS
<1>5. Tail(s) # << >> => Len(s) > 1 /\ Head(Tail(s)) = s[2]
  <2> SUFFICES ASSUME Tail(s) # << >> PROVE Len(s) > 1 /\ Head(Tail(s)) = s[2]
    OBVIOUS
  <2>1. Len(Tail(s)) # 0 /\ Head(Tail(s)) = Tail(s)[1]
    BY <1>1
  <2>2. Len(s) > 1 /\ 1 \in 1 .. Len(s) - 1
    BY <1>1, <2>1
  <2> QED
    BY <1>1, <2>1, <2>2
<1>6. Len(s) > 1 => Tail(s) # << >>
  BY <1>1
<1>2. Follows(Tail(s))
  <2> SUFFICES ASSUME NEW i \in 1 .. Len(s) - 1
               PROVE  /\ Tail(s)[i] = "takeid" /\ i > 1 => Tail(s)[i - 1] = "create"
                      /\ Tail(s)[i] = "save" =>
                           i < Len(Tail(s)) /\ Tail(s)[i + 1] \in {"save", "saved"}
    BY <1>1 DEF Follows
  <2>1. i + 1 \in 1 .. Len(s) /\ i + 1 > 1 /\ Tail(s)[i] = s[i + 1]
    BY <1>1
  <2>2. ASSUME s[i + 1] = "takeid", i > 1 PROVE Tail(s)[i - 1] = "create"
    <3>1. s[(i + 1) - 1] = "create"
      BY <1>1, <2>1, <2>2 DEF Follows
    <3>2. (i + 1) - 1 = (i - 1) + 1 /\ i - 1 \in 1 .. Len(s) - 1
      BY <1>1, <2>2
    <3> QED
      BY <1>1, <3>1, <3>2
  <2>3. ASSUME s[i + 1] = "save"
        PROVE  i < Len(Tail(s)) /\ Tail(s)[i + 1] \in {"save", "saved"}
    <3>1. i + 1 < Len(s) /\ s[(i + 1) + 1] \in {"save", "saved"}
      BY <1>1, <2>1, <2>3 DEF Follows
    <3>2. i + 1 \in 1 .. Len(s) - 1
      BY <1>1, <3>1
    <3> QED
      BY <1>1, <3>1, <3>2
  <2> QED
    BY <2>1, <2>2, <2>3
<1>3. Head(s) = "save" => Tail(s) # << >> /\ Head(Tail(s)) \in {"save", "saved"}
  <2> SUFFICES ASSUME s[1] = "save" PROVE Tail(s) # << >> /\ Head(Tail(s)) \in {"save", "saved"}
    BY <1>1
  <2>1. 1 \in DOMAIN s
    BY <1>1
  <2>2. 1 < Len(s) /\ s[1 + 1] \in {"save", "saved"}
    BY <2>1 DEF Follows
  <2> QED
    BY <1>5, <1>6, <2>2
<1>4. Tail(s) # << >> /\ Head(Tail(s)) = "takeid" => Head(s) = "create"
  <2> SUFFICES ASSUME Tail(s) # << >>, s[2] = "takeid" PROVE s[1] = "create"
    BY <1>1, <1>5
  <2>1. 2 \in DOMAIN s /\ 2 > 1
    BY <1>1, <1>5
  <2>2. s[2 - 1] = "create"
    BY <2>1 DEF Follows
  <2> QED
    BY <2>2
<1> QED
  BY <1>1, <1>2, <1>3, <1>4

LEMMA NothingLeft == << >> \in Seq(Kinds) /\ Follows(<< >>)
  BY DEF Follows

\* What the code does to the inputs buffer.
Is(b, armed, refused, frames) ==
  b \in Buffers /\ b.armed = armed /\ b.refused = refused /\ b.frames = frames

LEMMA BufferType ==
  ASSUME NEW b \in Buffers
  PROVE  /\ Is(Empty, FALSE, 0, << >>)
         /\ Is([Empty EXCEPT !.armed = TRUE], TRUE, 0, << >>)
         /\ Is([b EXCEPT !.frames = << >>], b.armed, b.refused, << >>)
         /\ Is([b EXCEPT !.refused = 0, !.frames = << >>], b.armed, 0, << >>)
         /\ Is([b EXCEPT !.armed = FALSE], FALSE, b.refused, b.frames)
         /\ \A k \in Nat : Is([b EXCEPT !.refused = k], b.armed, k, b.frames)
         /\ \A k \in Nat : Is([b EXCEPT !.frames = Append(@, k)],
                              b.armed, b.refused, Append(b.frames, k))
<1>1. << >> \in Seq(Nat)
  OBVIOUS
<1>2. Is(Empty, FALSE, 0, << >>) /\ Is([Empty EXCEPT !.armed = TRUE], TRUE, 0, << >>)
  BY <1>1 DEF Is, Empty, Buffers
<1>3. Is([b EXCEPT !.frames = << >>], b.armed, b.refused, << >>)
  BY <1>1 DEF Is, Buffers
<1>4. Is([b EXCEPT !.refused = 0, !.frames = << >>], b.armed, 0, << >>)
  BY <1>1 DEF Is, Buffers
<1>5. Is([b EXCEPT !.armed = FALSE], FALSE, b.refused, b.frames)
  BY DEF Is, Buffers
<1>6. ASSUME NEW k \in Nat PROVE Is([b EXCEPT !.refused = k], b.armed, k, b.frames)
  BY DEF Is, Buffers
<1>7. ASSUME NEW k \in Nat
      PROVE  Is([b EXCEPT !.frames = Append(@, k)], b.armed, b.refused, Append(b.frames, k))
  <2>1. Append(b.frames, k) \in Seq(Nat)
    BY DEF Buffers
  <2> QED
    BY <2>1 DEF Is, Buffers
<1> QED
  BY <1>2, <1>3, <1>4, <1>5, <1>6, <1>7

\* What reset_ack_queues leaves.
LEMMA WipedIs ==
  ASSUME buffer \in Buffers, Wiped
  PROVE  /\ << >> \in Seq(Acks) /\ acks' = << >> /\ sorting' = Free /\ assigned' = 0
         /\ Is(buffer', buffer.armed, buffer.refused, << >>)
<1>1. buffer' = [buffer EXCEPT !.frames = << >>]
  BY DEF Wiped
<1>2. Is([buffer EXCEPT !.frames = << >>], buffer.armed, buffer.refused, << >>)
  BY BufferType
<1>3. << >> \in Seq(Acks)
  OBVIOUS
<1> QED
  BY <1>1, <1>2, <1>3 DEF Wiped

-----------------------------------------------------------------------------
(* The ground: types, what is left of an operation, the scope of a step.   *)

LEMMA InitInv == Init => IInv
<1> SUFFICES ASSUME Init PROVE IInv
  OBVIOUS
<1> USE AckBounds DEF Init
<1>1. /\ << >> \in Seq(Kinds) /\ << >> \in Seq(Frames) /\ << >> \in Seq(Acks)
      /\ \A S : << >> \in Seq(S)
  OBVIOUS
<1>2. Is(buffer, FALSE, 0, << >>)
  <2>1. << >> \in Seq(Nat)
    OBVIOUS
  <2> QED
    BY <2>1 DEF Is, Empty, Buffers
<1>3. Range(<< >>) = {}
  BY DEF Range
<1>4. Typed
  BY <1>1, <1>2 DEF Typed, Is
<1>5. TodoFollows /\ Scoped
  BY NothingLeft DEF TodoFollows, Scoped, Scope
<1>6. TicketsDiffer
  BY <1>2, <1>3 DEF TicketsDiffer, Is, IsInjective
<1>7. TicketsIssued
  BY <1>2, <1>3 DEF TicketsIssued, Come, Is
<1>8. Arming /\ Owned
  BY <1>2, <1>3 DEF Arming, Owned, Is, AckIsOwn, At
<1>9. Heard /\ IdIsOwn
  BY DEF Heard, IdIsOwn, NextIs, Busy
<1> QED
  BY <1>4, <1>5, <1>6, <1>7, <1>8, <1>9 DEF IInv, Ground, Flight

\* A thread's operation and the step it is at.
LEMMA StepIs ==
  ASSUME Ground, NEW t \in Threads, Busy(t)
  PROVE  /\ Step(t) \in Kinds
         /\ Tail(todo[t]) \in Seq(Kinds) /\ Follows(Tail(todo[t]))
         /\ Step(t) = "save" => Tail(todo[t]) # << >> /\ Head(Tail(todo[t])) \in {"save", "saved"}
         /\ Tail(todo[t]) # << >> /\ Head(Tail(todo[t])) = "takeid" => Step(t) = "create"
<1>1. todo[t] \in Seq(Kinds) /\ todo[t] # << >> /\ Follows(todo[t])
  BY DEF Ground, Typed, TodoFollows, Busy
<1> QED
  BY <1>1, TodoTail DEF Step

\* What a step of t does not touch of the others' scope.
LEMMA OthersScoped ==
  ASSUME Ground, NEW t \in Threads,
         \A u \in Threads \ {t} : /\ todo'[u] = todo[u] /\ pc'[u] = pc[u]
                                  /\ tries'[u] = tries[u] /\ verdict'[u] = verdict[u],
         holder' = holder \/ (holder \in {Free, t} /\ holder' \in {Free, t}),
         Scope(t)'
  PROVE  Scoped'
<1> SUFFICES ASSUME NEW u \in Threads, u # t PROVE Scope(u)'
  BY DEF Scoped
<1>1. Scope(u)
  BY DEF Ground, Scoped
<1>2. u \notin {Free, t}
  BY AckBounds
<1> QED
  BY <1>1, <1>2 DEF Scope, Busy, Step

LEMMA BeginGround ==
  ASSUME Ground, NEW t \in Threads, Begin(t)
  PROVE  Ground'
<1> USE DEF Ground
<1>1. PICK p \in Programs : todo' = [todo EXCEPT ![t] = p]
  BY DEF Begin
<1>2. p \in Seq(Kinds) /\ p # << >> /\ Follows(p)
  BY ProgramsAreOfKinds, ProgramsAreOperations
<1>3. todo' \in [Threads -> Seq(Kinds)] /\ ops' \in 0 .. MaxOps
  BY <1>1, <1>2, AckBounds DEF Typed, Begin
<1>4. Typed'
  BY <1>3 DEF Typed, Begin, conn, places
<1>5. TodoFollows'
  BY <1>1, <1>2 DEF TodoFollows, Typed
<1>6. pc[t] = "next" /\ holder # t
  BY DEF Begin, Scoped, Scope, Typed, Busy
<1>7. Scope(t)'
  BY <1>6 DEF Begin, Scope
<1>8. Scoped'
  BY <1>1, <1>7, OthersScoped DEF Begin, Typed
<1> QED
  BY <1>4, <1>5, <1>8

LEMMA LocalGround ==
  ASSUME Ground, NEW t \in Threads, ResetQueues(t) \/ ArmSort(t) \/ TakeId(t)
  PROVE  Ground'
<1> USE DEF Ground
<1>0. /\ Busy(t) /\ pc[t] = "next" /\ Step(t) \in {"reset", "sort", "takeid"}
      /\ holder # t /\ UNCHANGED holder
  BY DEF ResetQueues, ArmSort, TakeId, NextIs, At, Scoped, Scope
<1>1. CASE ResetQueues(t)
  <2>1. todo' = [todo EXCEPT ![t] = Tail(todo[t])] /\ UNCHANGED << pc, tries, verdict >>
    BY <1>1 DEF ResetQueues
  <2>2. Tail(todo[t]) \in Seq(Kinds) /\ Follows(Tail(todo[t]))
    BY <1>0, StepIs
  <2>3. /\ << >> \in Seq(Acks)
        /\ Is(buffer', buffer.armed, buffer.refused, << >>) /\ sorting' = Free /\ assigned' = 0
        /\ acks' = << >>
    BY <1>1, WipedIs DEF ResetQueues, Typed
  <2>4. meddled' \in SUBSET Threads
    BY <1>1 DEF ResetQueues, Losers, Typed
  <2>5. todo' \in [Threads -> Seq(Kinds)]
    BY <2>1, <2>2 DEF Typed
  <2>6. Typed'
    BY <1>1, <2>3, <2>4, <2>5 DEF Typed, ResetQueues, Is, conn
  <2>7. TodoFollows'
    BY <2>1, <2>2 DEF TodoFollows, Typed
  <2>8. Scope(t)'
    BY <1>0, <2>1 DEF Scope
  <2>9. Scoped'
    BY <1>0, <2>1, <2>8, OthersScoped DEF Typed
  <2> QED
    BY <2>6, <2>7, <2>9
<1>2. CASE ArmSort(t)
  <2>1. pc' = [pc EXCEPT ![t] = "enter"] /\ UNCHANGED << todo, tries, verdict >>
    BY <1>2 DEF ArmSort, Goto
  <2>2. meddled' \in SUBSET Threads
    BY <1>2 DEF ArmSort, Typed
  <2>3. Typed'
    BY <1>2, <2>1, <2>2 DEF Typed, ArmSort, conn
  <2>4. Scope(t)'
    BY <1>0, <1>2, <2>1 DEF Scope, Typed, Busy, Step, ArmSort, NextIs
  <2>5. Scoped'
    BY <1>0, <2>1, <2>4, OthersScoped DEF Typed
  <2> QED
    BY <2>1, <2>3, <2>5 DEF TodoFollows
<1>3. CASE TakeId(t)
  <2>1. pc' = [pc EXCEPT ![t] = "left"] /\ UNCHANGED << todo, tries >>
    BY <1>3 DEF TakeId, Goto
  <2>2. Typed'
    BY <1>3, <2>1 DEF Typed, TakeId, conn, places
  <2>3. Scope(t)'
    BY <1>0, <2>1 DEF Scope, Typed, Busy
  <2>4. Scoped'
    BY <1>0, <1>3, <2>1, <2>3, OthersScoped DEF Typed, TakeId
  <2> QED
    BY <2>1, <2>2, <2>4 DEF TodoFollows
<1> QED
  BY <1>1, <1>2, <1>3

LEMMA EnterGround ==
  ASSUME Ground, NEW t \in Threads, Enter(t)
  PROVE  Ground'
<1> USE DEF Ground
<1>1. /\ pc' = [pc EXCEPT ![t] = "send"] /\ tries' = [tries EXCEPT ![t] = 0]
      /\ UNCHANGED << todo, verdict, conn, ticket, got, late, ops >>
      /\ holder \in {Free, t} /\ holder' = t /\ Busy(t) /\ Step(t) \in Framed
      /\ mine' = [mine EXCEPT ![t] = IF Step(t) = "saved" THEN @ ELSE {}] /\ seen' = {}
  BY DEF Enter, Goto
<1>2. /\ acks' \in Seq(Acks) /\ sorting' \in Threads \cup {Free} /\ assigned' \in Nat
      /\ buffer' \in Buffers /\ meddled' \in SUBSET Threads
  <2>1. CASE Step(t) = "order"
    <3>1. Wiped /\ meddled' = meddled \cup Losers(t)
      BY <2>1 DEF Enter
    <3>2. /\ << >> \in Seq(Acks)
          /\ Is(buffer', buffer.armed, buffer.refused, << >>) /\ sorting' = Free /\ assigned' = 0
          /\ acks' = << >>
      BY <3>1, WipedIs DEF Typed
    <3> QED
      BY <3>1, <3>2 DEF Is, Losers, Typed
  <2>2. CASE Step(t) \in {"inputs", "ask"}
    <3>1. buffer' \in Buffers /\ UNCHANGED << acks, sorting, assigned, meddled >>
      BY ZenonT(60), <2>2, BufferType DEF Enter, Typed, Is
    <3> QED
      BY <3>1 DEF Typed
  <2>3. CASE Step(t) \notin {"order", "inputs", "ask"}
    <3>1. UNCHANGED << places, meddled >>
      BY <2>3 DEF Enter
    <3> QED
      BY <3>1 DEF Typed, places
  <2> QED
    BY <2>1, <2>2, <2>3
<1>3. Typed'
  BY <1>1, <1>2 DEF Typed, conn
<1>4. Scope(t)'
  <2>1. 0 < Attempts(Step(t))
    BY DEF Attempts
  <2>2. pc'[t] = "send" /\ tries'[t] = 0 /\ todo'[t] = todo[t]
    BY <1>1 DEF Typed
  <2> QED
    BY <1>1, <2>1, <2>2 DEF Scope, Busy, Step
<1>5. Scoped'
  BY <1>1, <1>4, OthersScoped DEF Typed
<1> QED
  BY <1>1, <1>3, <1>5 DEF TodoFollows

LEMMA SendGround ==
  ASSUME Ground, NEW t \in Threads, Send(t)
  PROVE  Ground'
<1> USE DEF Ground
<1>1. /\ pc[t] = "send" /\ pc' = [pc EXCEPT ![t] = "wait"]
      /\ tries' = [tries EXCEPT ![t] = @ + 1] /\ ticket' = ticket + 1 /\ acks' = << >>
      /\ inbox' = Append(inbox, [id |-> ticket', by |-> t, kind |-> Step(t)])
      /\ mine' = [mine EXCEPT ![t] = @ \cup {ticket'}]
      /\ UNCHANGED << todo, verdict, holder, line, sorting, buffer, assigned, got, seen,
                      meddled, late, ops >>
  BY DEF Send, At, Goto
<1>2. holder = t /\ Busy(t) /\ Step(t) \in Framed /\ tries[t] < Attempts(Step(t))
  BY <1>1 DEF Scoped, Scope
<1>3. tries' \in [Threads -> 0 .. 2]
  <2>1. tries[t] \in 0 .. 2 /\ Attempts(Step(t)) \in {1, 2}
    BY DEF Attempts, Typed
  <2>2. tries[t] + 1 \in 0 .. 2
    BY <1>2, <2>1
  <2> QED
    BY <1>1, <2>2 DEF Typed
<1>4. ticket' \in Nat /\ inbox' \in Seq(Frames) /\ mine' \in [Threads -> SUBSET Nat]
  <2>1. ticket' \in Nat
    BY <1>1 DEF Typed
  <2>2. [id |-> ticket', by |-> t, kind |-> Step(t)] \in Frames
    BY <1>2, <2>1 DEF Frames
  <2>3. inbox' \in Seq(Frames)
    BY <1>1, <2>2 DEF Typed
  <2> QED
    BY <1>1, <2>1, <2>3 DEF Typed
<1>5. Typed'
  BY SMTT(30), <1>1, <1>3, <1>4 DEF Typed
<1>6. Scope(t)'
  BY <1>1, <1>2 DEF Scope, Busy, Step, Typed
<1>7. Scoped'
  BY <1>1, <1>6, OthersScoped DEF Typed
<1> QED
  BY <1>1, <1>5, <1>7 DEF TodoFollows

\* A step that ends does so while its thread holds the exchange.
LEMMA LeaveGround ==
  ASSUME Ground, NEW t \in Threads, NEW o \in {"acked", "rejected", "timeout"}, NEW k \in Nat,
         pc[t] = "wait", Leave(t, o, k),
         UNCHANGED << todo, tries, holder, conn, assigned, ticket, mine, seen, meddled, ops >>,
         acks' \in Seq(Acks), sorting' \in Threads \cup {Free}, buffer' \in Buffers
  PROVE  Ground'
<1> USE DEF Ground
<1>1. /\ verdict' = [verdict EXCEPT ![t] = o] /\ got' = [got EXCEPT ![t] = k]
      /\ pc' = [pc EXCEPT ![t] = "leave"]
  BY DEF Leave, Goto
<1>2. late' \in 0 .. MaxLate
  <2>1. late \in 0 .. MaxLate /\ MaxLate \in Nat
    BY AckBounds DEF Typed
  <2>2. late' = late \/ (late < MaxLate /\ late' = late + 1)
    BY DEF Leave
  <2> QED
    BY <2>1, <2>2
<1>3. Typed'
  BY <1>1, <1>2 DEF Typed, conn
<1>4. holder = t /\ Busy(t) /\ Step(t) \in Framed
  BY DEF Scoped, Scope
<1>5. Scope(t)'
  BY <1>1, <1>4 DEF Scope, Typed, Busy, Step
<1>6. Scoped'
  BY <1>1, <1>5, OthersScoped DEF Typed
<1> QED
  BY <1>3, <1>6 DEF TodoFollows

LEMMA TakeAckGround ==
  ASSUME Ground, NEW t \in Threads, TakeAck(t)
  PROVE  Ground'
<1> USE DEF Ground
<1>1. PICK i \in DOMAIN acks :
        /\ acks' = RemoveAt(acks, i)
        /\ Leave(t, Outcome(Step(t), acks[i]), acks[i].id)
        /\ UNCHANGED sorting
  BY DEF TakeAck
<1>6. acks \in Seq(Acks) /\ acks[i] \in Acks
  BY DEF Typed
<1>2. acks \in Seq(Acks) /\ acks[i].id \in Nat
  BY <1>6 DEF Acks
<1>3. acks' \in Seq(Acks)
  BY <1>1, <1>2, RemoveAtRange
<1>4. Outcome(Step(t), acks[i]) \in {"acked", "rejected", "timeout"}
  BY DEF Outcome
<1>5. /\ pc[t] = "wait" /\ sorting' \in Threads \cup {Free} /\ buffer' \in Buffers
      /\ UNCHANGED << todo, tries, holder, conn, assigned, ticket, mine, seen, meddled, ops >>
  BY <1>1 DEF TakeAck, At, Typed
<1> QED
  BY <1>1, <1>2, <1>3, <1>4, <1>5, LeaveGround

LEMMA TakeInputsGround ==
  ASSUME Ground, NEW t \in Threads, TakeInputs(t)
  PROVE  Ground'
<1> USE DEF Ground
<1>1. /\ pc[t] = "wait" /\ sorting' \in Threads \cup {Free} /\ acks' \in Seq(Acks)
      /\ UNCHANGED << todo, tries, holder, conn, assigned, ticket, mine, seen, meddled, ops >>
  BY DEF TakeInputs, At, Typed
<1>2. buffer \in Buffers
  BY DEF Typed
<1>3. CASE buffer.refused # 0
  <2>1. /\ Leave(t, "rejected", buffer.refused)
        /\ buffer' = [buffer EXCEPT !.refused = 0, !.frames = << >>]
    BY <1>3 DEF TakeInputs
  <2>2. buffer' \in Buffers /\ buffer.refused \in Nat
    BY <1>2, <2>1, BufferType DEF Is, Buffers
  <2>3. "rejected" \in {"acked", "rejected", "timeout"}
    OBVIOUS
  <2> QED
    BY <1>1, <2>1, <2>2, <2>3, LeaveGround
<1>4. CASE buffer.refused = 0
  <2>1. /\ buffer.frames # << >> /\ Leave(t, "acked", Head(buffer.frames))
        /\ buffer' = [buffer EXCEPT !.frames = << >>]
    BY <1>4 DEF TakeInputs
  <2>2. buffer.frames \in Seq(Nat)
    BY <1>2 DEF Buffers
  <2>3. Head(buffer.frames) \in Nat
    BY <2>1, <2>2
  <2>4. buffer' \in Buffers
    BY <1>2, <2>1, BufferType DEF Is
  <2>5. "acked" \in {"acked", "rejected", "timeout"}
    OBVIOUS
  <2> QED
    BY <1>1, <2>1, <2>3, <2>4, <2>5, LeaveGround
<1> QED
  BY <1>3, <1>4

LEMMA TimeoutGround ==
  ASSUME Ground, NEW t \in Threads, Timeout(t)
  PROVE  Ground'
<1> USE DEF Ground
<1>1. /\ pc[t] = "wait" /\ sorting' \in Threads \cup {Free} /\ acks' \in Seq(Acks)
      /\ UNCHANGED << todo, tries, holder, conn, acks, buffer, assigned, ticket, mine, seen,
                      meddled, ops >>
  BY DEF Timeout, At, Typed, places
<1>2. CASE tries[t] < Attempts(Step(t))
  <2>1. pc' = [pc EXCEPT ![t] = "send"] /\ UNCHANGED << verdict, got, late >>
    BY <1>2 DEF Timeout, Goto
  <2>2. Typed'
    BY <1>1, <2>1 DEF Typed, conn
  <2>3. Scope(t)
    BY DEF Scoped
  <2>4. Scope(t)'
    BY <1>1, <1>2, <2>1, <2>3 DEF Scope, Typed, Busy, Step
  <2>5. Scoped'
    BY <1>1, <2>1, <2>4, OthersScoped DEF Typed
  <2> QED
    BY <1>1, <2>2, <2>5 DEF TodoFollows
<1>3. CASE ~(tries[t] < Attempts(Step(t)))
  <2>1. Leave(t, "timeout", 0)
    BY <1>3 DEF Timeout
  <2>2. "timeout" \in {"acked", "rejected", "timeout"} /\ 0 \in Nat /\ buffer' \in Buffers
    BY <1>1 DEF Typed
  <2> QED
    BY <1>1, <2>1, <2>2, LeaveGround
<1> QED
  BY <1>2, <1>3

LEMMA LeaveExchangeGround ==
  ASSUME Ground, NEW t \in Threads, LeaveExchange(t)
  PROVE  Ground'
<1> USE DEF Ground
<1>1. /\ pc[t] = "leave" /\ pc' = [pc EXCEPT ![t] = "left"]
      /\ holder' = IF Step(t) = "save" /\ verdict[t] = "acked" THEN t ELSE Free
      /\ UNCHANGED << todo, tries, verdict, conn, acks, sorting, assigned, ghosts >>
  BY DEF LeaveExchange, At, Goto
<1>2. holder = t /\ Busy(t) /\ Step(t) \in Framed
  BY <1>1 DEF Scoped, Scope
<1>3. buffer' \in Buffers
  <2>1. buffer \in Buffers
    BY DEF Typed
  <2>2. [buffer EXCEPT !.armed = FALSE] \in Buffers
    BY <2>1, BufferType DEF Is
  <2> QED
    BY <2>1, <2>2 DEF LeaveExchange
<1>4. Typed'
  BY <1>1, <1>3 DEF Typed, conn, ghosts
<1>5. Scope(t)'
  BY <1>1, <1>2, AckBounds DEF Scope, Typed, Busy, Step
<1>6. Scoped'
  BY <1>1, <1>2, <1>5, OthersScoped DEF Typed
<1> QED
  BY <1>1, <1>4, <1>6 DEF TodoFollows

LEMMA ProceedGround ==
  ASSUME Ground, NEW t \in Threads, Proceed(t)
  PROVE  Ground'
<1> USE DEF Ground
<1>1. /\ pc[t] = "left" /\ pc' = [pc EXCEPT ![t] = "next"]
      /\ todo' = [todo EXCEPT ![t] = IF verdict[t] = "acked" THEN Tail(todo[t]) ELSE << >>]
      /\ UNCHANGED << tries, verdict, holder, conn, acks, buffer, assigned,
                      ticket, mine, got, seen, late, ops >>
  BY DEF Proceed, At, Goto
<1>9. sorting' \in Threads \cup {Free} /\ meddled' \subseteq Threads
  BY DEF Proceed, Typed
<1>2. Busy(t) /\ (holder = t => Step(t) = "save" /\ verdict[t] = "acked")
  BY <1>1 DEF Scoped, Scope
<1>3. /\ Tail(todo[t]) \in Seq(Kinds) /\ Follows(Tail(todo[t]))
      /\ Step(t) = "save" => Tail(todo[t]) # << >> /\ Head(Tail(todo[t])) \in {"save", "saved"}
  BY <1>2, StepIs
<1>4. todo'[t] \in Seq(Kinds) /\ Follows(todo'[t])
  BY <1>1, <1>3, NothingLeft DEF Typed
<1>5. Typed'
  <2>1. todo' \in [Threads -> Seq(Kinds)]
    BY <1>1, <1>4 DEF Typed
  <2> QED
    BY <1>1, <1>9, <2>1 DEF Typed, conn
<1>6. TodoFollows'
  BY <1>1, <1>4 DEF TodoFollows, Typed
<1>7. Scope(t)'
  <2>1. pc'[t] = "next"
    BY <1>1 DEF Typed
  <2>2. holder' = t => todo'[t] # << >> /\ Head(todo'[t]) \in {"save", "saved"}
    BY <1>1, <1>2, <1>3 DEF Typed
  <2> QED
    BY <2>1, <2>2 DEF Scope, Busy, Step
<1>8. Scoped'
  BY <1>1, <1>7, OthersScoped DEF Typed
<1> QED
  BY <1>5, <1>6, <1>8

LEMMA HubServeGround ==
  ASSUME Ground, HubServe
  PROVE  Ground'
<1> USE DEF Ground
<1>1. /\ inbox # << >> /\ inbox' = Tail(inbox)
      /\ UNCHANGED << step, holder, places, ghosts >>
  BY DEF HubServe
<1>2. inbox \in Seq(Frames) /\ line \in Seq(Acks)
  BY DEF Typed
<1>3. inbox' \in Seq(Frames) /\ Head(inbox) \in Frames
  BY <1>1, <1>2
<1>4. line' \in Seq(Acks)
  <2>1. CASE UNCHANGED line
    BY <1>2, <2>1
  <2>2. CASE \E w \in Answers(Head(inbox).kind) :
               line' = Append(line, [id |-> Head(inbox).id, by |-> Head(inbox).by, what |-> w])
    <3>1. PICK w \in Answers(Head(inbox).kind) :
            line' = Append(line, [id |-> Head(inbox).id, by |-> Head(inbox).by, what |-> w])
      BY <2>2
    <3>2. w \in Whats
      BY DEF Answers, Whats, Status
    <3>3. [id |-> Head(inbox).id, by |-> Head(inbox).by, what |-> w] \in Acks
      BY <1>3, <3>2 DEF Frames, Acks
    <3> QED
      BY <1>2, <3>1, <3>3
  <2> QED
    BY <2>1, <2>2 DEF HubServe
<1>5. Typed'
  BY <1>1, <1>3, <1>4 DEF Typed, step, places, ghosts
<1>6. Scoped'
  BY <1>1 DEF Scoped, Scope, step, Busy, Step
<1> QED
  BY <1>1, <1>5, <1>6 DEF TodoFollows, step

\* What the bridge thread does with an answer: it is queued as an ack, perhaps
\* under another name, or goes into the inputs buffer; a status may do both.
Queued(a, b) ==
  /\ b \in Acks /\ b.id = a.id /\ b.by = a.by
  /\ b.what = "created" <=> a.what = "created"
  /\ Queue(b)
LEMMA DeliverIs ==
  ASSUME Typed, Deliver
  PROVE  /\ line # << >> /\ line' = Tail(line) /\ Head(line) \in Acks
         /\ UNCHANGED << step, holder, inbox, ticket, mine, got, late, ops >>
         /\ buffer' \in Buffers /\ sorting' \in Threads \cup {Free}
         /\ meddled \subseteq meddled' /\ meddled' \subseteq Threads
         /\ \/ \E b \in Acks : Queued(Head(line), b)
            \/ UNCHANGED << acks, seen >> /\ Head(line).what # "created"
         /\ IF Head(line).what = "created"
            THEN /\ assigned' = Head(line).id
                 /\ meddled' = meddled \cup {u \in Threads \ {Head(line).by} : IdUnread(u)}
            ELSE assigned' = assigned
         /\ \/ UNCHANGED buffer
            \/ buffer.armed /\ Is(buffer', buffer.armed, Head(line).id, buffer.frames)
            \/ Is(buffer', buffer.armed, buffer.refused, Append(buffer.frames, Head(line).id))
<1> DEFINE a == Head(line)
<1>1. /\ line # << >> /\ line' = Tail(line)
      /\ StatusAnswer(a) \/ CreatedAnswer(a) \/ TableAnswer(a) \/ InputAnswer(a) \/ EchoAnswer(a)
      /\ UNCHANGED << step, holder, inbox, ticket, mine, got, late, ops >>
  BY DEF Deliver
<1>2. line \in Seq(Acks) /\ buffer \in Buffers /\ sorting \in Threads \cup {Free}
      /\ meddled \in SUBSET Threads
  BY DEF Typed
<1>3. a \in Acks
  BY <1>1, <1>2
<1> HIDE DEF a
<1>4. a.id \in Nat /\ a.by \in Threads
  BY <1>3 DEF Acks
<1>5. a.what # "created" /\ Queue(a) => Queued(a, a)
  BY <1>3 DEF Queued
<1>6. CASE StatusAnswer(a)
  <2>1. Queue(a) /\ a.what # "created" /\ UNCHANGED << sorting, assigned, meddled >>
    BY <1>6 DEF StatusAnswer, Status
  <2>2. \/ UNCHANGED buffer
        \/ buffer.armed /\ buffer' = [buffer EXCEPT !.refused = a.id]
    BY <1>6 DEF StatusAnswer
  <2>3. \/ UNCHANGED buffer
        \/ buffer.armed /\ Is(buffer', buffer.armed, a.id, buffer.frames)
    BY <1>2, <1>4, <2>2, BufferType
  <2>4. buffer' \in Buffers
    BY <1>2, <2>3 DEF Is
  <2> QED
    BY <1>1, <1>2, <1>3, <1>5, <2>1, <2>3, <2>4 DEF a
<1>7. CASE CreatedAnswer(a)
  <2>1. /\ Queue(a) /\ a.what = "created" /\ UNCHANGED << sorting, buffer >>
        /\ assigned' = a.id /\ meddled' = meddled \cup {u \in Threads \ {a.by} : IdUnread(u)}
    BY <1>7 DEF CreatedAnswer
  <2>2. Queued(a, a)
    BY <1>3, <2>1 DEF Queued
  <2> QED
    BY <1>1, <1>2, <1>3, <2>1, <2>2 DEF a
<1>8. CASE TableAnswer(a)
  <2>1. /\ a.what \in {"favorites", "keys"} /\ sorting' = Free /\ UNCHANGED << buffer, assigned >>
        /\ \E w \in {"sorted", "ordered"} : Queue([a EXCEPT !.what = w])
        /\ \/ meddled' = meddled
           \/ meddled' = meddled \cup {t \in Threads : sorting = t}
    BY <1>8 DEF TableAnswer
  <2>2. PICK w \in {"sorted", "ordered"} : Queue([a EXCEPT !.what = w])
    BY <2>1
  <2> DEFINE b == [a EXCEPT !.what = w]
  <2>3. b \in Acks /\ b.id = a.id /\ b.by = a.by /\ b.what = w
    BY <1>3 DEF Acks, Whats
  <2>4. Queued(a, b)
    BY <2>1, <2>2, <2>3 DEF Queued
  <2> HIDE DEF b
  <2> QED
    BY <1>1, <1>2, <1>3, <2>1, <2>3, <2>4 DEF a
<1>9. CASE InputAnswer(a)
  <2>1. /\ a.what # "created" /\ UNCHANGED << acks, sorting, assigned, seen, meddled >>
        /\ buffer' = [buffer EXCEPT !.frames = Append(@, a.id)]
    BY <1>9 DEF InputAnswer
  <2>2. Is(buffer', buffer.armed, buffer.refused, Append(buffer.frames, a.id))
    BY <1>2, <1>4, <2>1, BufferType
  <2>3. buffer' \in Buffers
    BY <2>2 DEF Is
  <2> QED
    BY <1>1, <1>2, <1>3, <2>1, <2>2, <2>3 DEF a
<1>10. CASE EchoAnswer(a)
  <2>1. Queue(a) /\ a.what # "created" /\ UNCHANGED << sorting, buffer, assigned, meddled >>
    BY <1>10 DEF EchoAnswer
  <2> QED
    BY <1>1, <1>2, <1>3, <1>5, <2>1 DEF a
<1> QED
  BY <1>1, <1>6, <1>7, <1>8, <1>9, <1>10

\* What a queued ack does to the queue and to what has been heard.
LEMMA QueuedIs ==
  ASSUME Typed, NEW a, NEW b \in Acks, Queued(a, b)
  PROVE  /\ acks' \in Seq(Acks) /\ Range(acks') = Range(acks) \cup {b}
         /\ seen' \in SUBSET Nat /\ seen \subseteq seen' /\ seen' \subseteq seen \cup {a.id}
<1>1. acks \in Seq(Acks) /\ seen \in SUBSET Nat
  BY DEF Typed
<1>2. b.id \in Nat /\ b.id = a.id
  BY DEF Acks, Queued
<1>3. acks' = Append(acks, b)
  BY DEF Queued, Queue
<1>4. seen' = seen \/ seen' = seen \cup {b.id}
  BY DEF Queued, Queue
<1>5. acks' \in Seq(Acks) /\ Range(acks') = Range(acks) \cup {b}
  BY <1>1, <1>3, AppendRange
<1> QED
  BY <1>1, <1>2, <1>4, <1>5

LEMMA DeliverGround ==
  ASSUME Ground, Deliver
  PROVE  Ground'
<1>1. Typed
  BY DEF Ground
<1>2. /\ line # << >> /\ line' = Tail(line) /\ Head(line) \in Acks
      /\ UNCHANGED << step, holder, inbox, ticket, mine, got, late, ops >>
      /\ buffer' \in Buffers /\ sorting' \in Threads \cup {Free} /\ meddled' \subseteq Threads
  BY <1>1, DeliverIs
<1>3. line' \in Seq(Acks)
  BY <1>1, <1>2 DEF Typed
<1>4. acks' \in Seq(Acks) /\ seen' \in SUBSET Nat
  <2>1. (\E b \in Acks : Queued(Head(line), b)) \/ UNCHANGED << acks, seen >>
    BY <1>1, DeliverIs
  <2> QED
    BY <1>1, <2>1, QueuedIs DEF Typed
<1>5. assigned' \in Nat
  <2>1. assigned' = assigned \/ assigned' = Head(line).id
    BY <1>1, DeliverIs
  <2> QED
    BY <1>1, <1>2, <2>1 DEF Typed, Acks
<1>6. Typed'
  BY <1>1, <1>2, <1>3, <1>4, <1>5 DEF Typed, step
<1>7. Scoped' /\ TodoFollows'
  BY <1>2 DEF Ground, Scoped, Scope, step, Busy, Step, TodoFollows
<1> QED
  BY <1>6, <1>7 DEF Ground

LEMMA GroundStep ==
  ASSUME Ground, [Next]_vars
  PROVE  Ground'
<1>1. ASSUME NEW t \in Threads,
             Begin(t) \/ ResetQueues(t) \/ ArmSort(t) \/ TakeId(t) \/ Enter(t) \/ Send(t)
      PROVE  Ground'
  BY <1>1, BeginGround, LocalGround, EnterGround, SendGround
<1>2. ASSUME NEW t \in Threads,
             TakeAck(t) \/ TakeInputs(t) \/ Timeout(t) \/ LeaveExchange(t) \/ Proceed(t)
      PROVE  Ground'
  BY <1>2, TakeAckGround, TakeInputsGround, TimeoutGround, LeaveExchangeGround, ProceedGround
<1>3. CASE UNCHANGED vars
  BY <1>3 DEF Ground, Typed, TodoFollows, Scoped, Scope, Busy, Step,
              vars, step, conn, places, ghosts
<1> QED
  BY <1>1, <1>2, <1>3, HubServeGround, DeliverGround DEF Next

-----------------------------------------------------------------------------
(* What is in flight: every ticket is in one place, and has been issued.   *)

Quiet(t) ==
  \/ Begin(t) \/ ResetQueues(t) \/ ArmSort(t) \/ TakeId(t) \/ Enter(t) \/ TakeAck(t)
  \/ TakeInputs(t) \/ Timeout(t) \/ LeaveExchange(t) \/ Proceed(t)

\* The steps of a thread other than a send add nothing to what has come.
LEMMA QuietStep ==
  ASSUME Ground, Ground', NEW t \in Threads, Quiet(t)
  PROVE  /\ UNCHANGED << inbox, line, ticket >>
         /\ Range(acks') \subseteq Range(acks) /\ assigned' \in {0, assigned}
         /\ Range(buffer'.frames) \subseteq Range(buffer.frames)
         /\ buffer'.refused \in {0, buffer.refused}
         /\ seen' \subseteq seen /\ \A u \in Threads : mine'[u] \subseteq mine[u]
         /\ buffer'.armed =>
              \/ buffer.armed /\ ~(LeaveExchange(t) /\ Step(t) = "inputs")
              \/ Enter(t) /\ Step(t) = "inputs"
<1> USE DEF Ground
<1>1. buffer \in Buffers /\ acks \in Seq(Acks) /\ mine \in [Threads -> SUBSET Nat] /\ Typed
  BY DEF Typed
<1>2. Range(<< >>) = {}
  BY DEF Range
<1>3. CASE Begin(t)
  <2>1. /\ UNCHANGED << conn, places, ticket, seen >>
        /\ mine' = [mine EXCEPT ![t] = {}]
    BY <1>3 DEF Begin
  <2> QED
    BY <1>1, <1>3, <2>1 DEF conn, places, Begin, LeaveExchange, At, Scoped, Scope
<1>4. CASE ResetQueues(t)
  <2>1. Wiped /\ UNCHANGED << conn, ticket, seen, mine >>
    BY <1>4 DEF ResetQueues
  <2>2. /\ acks' = << >> /\ assigned' = 0
        /\ Is(buffer', buffer.armed, buffer.refused, << >>)
    BY <1>1, <2>1, WipedIs
  <2>3. pc[t] # "leave"
    BY <1>4 DEF ResetQueues, NextIs, At
  <2> QED
    BY <1>1, <1>2, <2>1, <2>2, <2>3 DEF conn, Is, LeaveExchange, At
<1>5. CASE ArmSort(t) \/ TakeId(t) \/ Proceed(t)
  <2>1. UNCHANGED << inbox, line, ticket, acks, buffer, assigned, seen, mine >>
    BY <1>5 DEF ArmSort, TakeId, Proceed, conn, places, ghosts
  <2>2. pc[t] # "leave"
    BY <1>5 DEF ArmSort, TakeId, Proceed, NextIs, At
  <2> QED
    BY <2>1, <2>2 DEF LeaveExchange, At
<1>6. CASE Enter(t)
  <2>1. /\ UNCHANGED << conn, ticket >> /\ seen' = {}
        /\ mine' = [mine EXCEPT ![t] = IF Step(t) = "saved" THEN @ ELSE {}]
    BY <1>6 DEF Enter
  <2>2. \A u \in Threads : mine'[u] \subseteq mine[u]
    BY <1>1, <2>1
  <2>3. CASE Step(t) = "order"
    <3>1. Wiped
      BY <1>6, <2>3 DEF Enter
    <3>2. /\ acks' = << >> /\ assigned' = 0
          /\ Is(buffer', buffer.armed, buffer.refused, << >>)
      BY <1>1, <3>1, WipedIs
    <3>3. pc[t] # "leave"
      BY <1>6, <2>3 DEF Enter, At
    <3> QED
      BY <1>1, <1>2, <2>1, <2>2, <3>2, <3>3 DEF conn, Is, LeaveExchange, At
  <2>4. CASE Step(t) = "inputs"
    <3>1. buffer' = [Empty EXCEPT !.armed = TRUE] /\ UNCHANGED << acks, assigned >>
      BY <1>6, <2>4 DEF Enter
    <3>2. Is(buffer', TRUE, 0, << >>)
      BY <1>1, <3>1, BufferType
    <3> QED
      BY <1>2, <1>6, <2>1, <2>2, <2>4, <3>1, <3>2 DEF conn, Is
  <2>5. CASE Step(t) = "ask"
    <3>1. buffer' = [buffer EXCEPT !.frames = << >>] /\ UNCHANGED << acks, assigned >>
      BY <1>6, <2>5 DEF Enter
    <3>2. Is(buffer', buffer.armed, buffer.refused, << >>)
      BY <1>1, <3>1, BufferType
    <3> QED
      BY <1>2, <2>1, <2>2, <2>5, <3>1, <3>2 DEF conn, Is
  <2>6. CASE Step(t) \notin {"order", "inputs", "ask"}
    <3>1. UNCHANGED places
      BY <1>6, <2>6 DEF Enter
    <3> QED
      BY <2>1, <2>2, <2>6, <3>1 DEF conn, places
  <2> QED
    BY <2>3, <2>4, <2>5, <2>6
<1>7. CASE TakeAck(t)
  <2>1. PICK i \in DOMAIN acks : acks' = RemoveAt(acks, i)
    BY <1>7 DEF TakeAck
  <2>2. Range(acks') \subseteq Range(acks)
    BY <1>1, <2>1, RemoveAtRange
  <2>3. UNCHANGED << conn, buffer, assigned, ticket, mine, seen >> /\ pc[t] = "wait"
    BY <1>7 DEF TakeAck, At
  <2> QED
    BY <2>2, <2>3 DEF conn, LeaveExchange, At
<1>8. CASE TakeInputs(t)
  <2>1. UNCHANGED << conn, acks, assigned, ticket, mine, seen >> /\ pc[t] = "wait"
    BY <1>8 DEF TakeInputs, At
  <2>2. \/ buffer' = [buffer EXCEPT !.refused = 0, !.frames = << >>]
        \/ buffer' = [buffer EXCEPT !.frames = << >>]
    BY <1>8 DEF TakeInputs
  <2>3. Is(buffer', buffer.armed, 0, << >>) \/ Is(buffer', buffer.armed, buffer.refused, << >>)
    BY <1>1, <2>2, BufferType
  <2> QED
    BY <1>2, <2>1, <2>3 DEF conn, Is, LeaveExchange, At
<1>9. CASE Timeout(t)
  BY <1>9 DEF Timeout, conn, places, LeaveExchange, At
<1>10. CASE LeaveExchange(t)
  <2>1. UNCHANGED << conn, acks, assigned, ghosts >>
    BY <1>10 DEF LeaveExchange
  <2>2. CASE Step(t) = "inputs"
    <3>1. buffer' = [buffer EXCEPT !.armed = FALSE]
      BY <1>10, <2>2 DEF LeaveExchange
    <3>2. Is(buffer', FALSE, buffer.refused, buffer.frames)
      BY <1>1, <3>1, BufferType
    <3> QED
      BY <2>1, <3>2 DEF conn, ghosts, Is
  <2>3. CASE Step(t) # "inputs"
    BY <1>10, <2>1, <2>3 DEF conn, ghosts, LeaveExchange
  <2> QED
    BY <2>2, <2>3
<1> QED
  BY <1>3, <1>4, <1>5, <1>6, <1>7, <1>8, <1>9, <1>10 DEF Quiet

LEMMA QuietFlight ==
  ASSUME Ground, Ground', Flight, NEW t \in Threads, Quiet(t)
  PROVE  TicketsDiffer' /\ TicketsIssued'
<1>1. /\ UNCHANGED << inbox, line, ticket >>
      /\ Range(acks') \subseteq Range(acks) /\ assigned' \in {0, assigned}
      /\ Range(buffer'.frames) \subseteq Range(buffer.frames)
      /\ buffer'.refused \in {0, buffer.refused}
      /\ seen' \subseteq seen /\ \A u \in Threads : mine'[u] \subseteq mine[u]
  BY QuietStep
<1>2. Come' \subseteq Come \cup {0}
  BY <1>1 DEF Come
<1>3. TicketsDiffer /\ TicketsIssued /\ ticket \in Nat
  BY DEF Flight, Ground, Typed
<1>4. \A f \in Range(inbox) : f.id # 0
  BY <1>3 DEF TicketsIssued
<1>5. \A a \in Range(line) : a.id # 0
  BY <1>3 DEF TicketsIssued
<1>6. TicketsDiffer'
  BY <1>1, <1>2, <1>3, <1>4, <1>5 DEF TicketsDiffer
<1>7. TicketsIssued'
  <2>1. 0 \in 0 .. ticket /\ 0 <= ticket
    BY <1>3
  <2> QED
    BY <1>1, <1>2, <1>3, <2>1 DEF TicketsIssued
<1> QED
  BY <1>6, <1>7

LEMMA SendFlight ==
  ASSUME Ground, Ground', Flight, NEW t \in Threads, Send(t)
  PROVE  TicketsDiffer' /\ TicketsIssued'
<1> DEFINE new == [id |-> ticket + 1, by |-> t, kind |-> Step(t)]
<1>1. /\ ticket' = ticket + 1 /\ inbox' = Append(inbox, new) /\ acks' = << >>
      /\ mine' = [mine EXCEPT ![t] = @ \cup {ticket'}]
      /\ UNCHANGED << line, buffer, seen, assigned >> /\ pc[t] = "send"
  BY DEF Send, At
<1>2. /\ inbox \in Seq(Frames) /\ ticket \in Nat /\ mine \in [Threads -> SUBSET Nat]
      /\ Step(t) \in Framed
  BY <1>1 DEF Ground, Typed, Scoped, Scope
<1>3. new \in Frames /\ new.id = ticket + 1
  BY <1>2 DEF Frames
<1> HIDE DEF new
<1>4. TicketsDiffer /\ TicketsIssued
  BY DEF Flight
<1>5. ticket + 1 \notin 0 .. ticket /\ ticket + 1 \notin 1 .. ticket
  BY <1>2
<1>6. new \notin Range(inbox)
  BY <1>3, <1>4, <1>5 DEF TicketsIssued
<1>7. Range(inbox') = Range(inbox) \cup {new} /\ IsInjective(inbox')
  BY <1>1, <1>2, <1>3, <1>4, <1>6, AppendRange DEF TicketsDiffer
<1>8. Range(<< >>) = {}
  BY DEF Range
<1>9. Come' \subseteq Come
  BY <1>1, <1>8 DEF Come
<1>10. \A f \in Range(inbox) : f.id # new.id
  BY <1>3, <1>4, <1>5 DEF TicketsIssued
<1>11. \A a \in Range(line) : a.id # new.id
  BY <1>3, <1>4, <1>5 DEF TicketsIssued
<1>12. new.id \notin Come
  BY <1>3, <1>4, <1>5 DEF TicketsIssued
<1>13. TicketsDiffer'
  BY <1>1, <1>4, <1>7, <1>9, <1>10, <1>11, <1>12 DEF TicketsDiffer
<1>14. TicketsIssued'
  <2>1. 1 .. ticket \subseteq 1 .. ticket' /\ 0 .. ticket \subseteq 0 .. ticket'
        /\ ticket' \in 1 .. ticket'
    BY <1>1, <1>2
  <2>2. \A u \in Threads : mine'[u] \subseteq 1 .. ticket'
    BY <1>1, <1>2, <1>4, <2>1 DEF TicketsIssued
  <2>3. \A f \in Range(inbox') : f.id \in 1 .. ticket'
    BY <1>1, <1>3, <1>4, <1>7, <2>1 DEF TicketsIssued
  <2>4. assigned <= ticket'
    BY <1>1, <1>2, <1>4 DEF TicketsIssued, Ground, Typed
  <2> QED
    BY <1>1, <1>4, <1>9, <2>1, <2>2, <2>3, <2>4 DEF TicketsIssued
<1> QED
  BY <1>13, <1>14

LEMMA HubServeFlight ==
  ASSUME Ground, Ground', Flight, HubServe
  PROVE  TicketsDiffer' /\ TicketsIssued'
<1> DEFINE f == Head(inbox)
<1>1. /\ inbox # << >> /\ inbox' = Tail(inbox) /\ UNCHANGED << step, holder, places, ghosts >>
      /\ \/ UNCHANGED line
         \/ \E w \in Answers(f.kind) : line' = Append(line, [id |-> f.id, by |-> f.by, what |-> w])
  BY DEF HubServe
<1>2. inbox \in Seq(Frames) /\ line \in Seq(Acks)
  BY DEF Ground, Typed
<1>3. f \in Frames
  BY <1>1, <1>2
<1>4. TicketsDiffer /\ TicketsIssued
  BY DEF Flight
<1>5. /\ Range(inbox) = {f} \cup Range(inbox') /\ IsInjective(inbox')
      /\ f \notin Range(inbox')
  BY <1>1, <1>2, <1>4, TailRange DEF TicketsDiffer
<1> HIDE DEF f
<1>6. Come' = Come /\ UNCHANGED << ticket, seen, mine, assigned >>
  BY <1>1 DEF Come, places, ghosts
<1>7. CASE UNCHANGED line
  BY <1>4, <1>5, <1>6, <1>7 DEF TicketsDiffer, TicketsIssued
<1>8. CASE \E w \in Answers(f.kind) : line' = Append(line, [id |-> f.id, by |-> f.by, what |-> w])
  <2>1. PICK w \in Answers(f.kind) : line' = Append(line, [id |-> f.id, by |-> f.by, what |-> w])
    BY <1>8
  <2> DEFINE new == [id |-> f.id, by |-> f.by, what |-> w]
  <2>2. w \in Whats
    BY DEF Answers, Whats, Status
  <2>3. new \in Acks /\ new.id = f.id
    BY <1>3, <2>2 DEF Frames, Acks
  <2>4. line' = Append(line, new)
    BY <2>1
  <2> HIDE DEF new
  <2>5. \A a \in Range(line) : a.id # f.id
    BY <1>4, <1>5 DEF TicketsDiffer
  <2>6. new \notin Range(line)
    BY <2>3, <2>5
  <2>7. Range(line') = Range(line) \cup {new} /\ IsInjective(line')
    BY <1>2, <1>4, <2>3, <2>4, <2>6, AppendRange DEF TicketsDiffer
  <2>8. \A g \in Range(inbox') : g.id # f.id
    BY <1>4, <1>5 DEF TicketsDiffer
  <2>9. f.id \notin Come /\ f.id \in 1 .. ticket
    BY <1>4, <1>5 DEF TicketsDiffer, TicketsIssued
  <2>10. TicketsDiffer'
    BY <1>4, <1>5, <1>6, <2>3, <2>5, <2>7, <2>8, <2>9 DEF TicketsDiffer
  <2>11. TicketsIssued'
    BY <1>4, <1>5, <1>6, <2>3, <2>7, <2>9 DEF TicketsIssued
  <2> QED
    BY <2>10, <2>11
<1> QED
  BY <1>1, <1>7, <1>8

LEMMA DeliverFlight ==
  ASSUME Ground, Ground', Flight, Deliver
  PROVE  TicketsDiffer' /\ TicketsIssued'
<1> DEFINE a == Head(line)
<1>1. Typed /\ line \in Seq(Acks) /\ buffer \in Buffers /\ seen \in SUBSET Nat /\ ticket \in Nat
  BY DEF Ground, Typed
<1>2. /\ line # << >> /\ line' = Tail(line) /\ a \in Acks
      /\ UNCHANGED << step, holder, inbox, ticket, mine, got, late, ops >>
  BY <1>1, DeliverIs
<1>3. TicketsDiffer /\ TicketsIssued
  BY DEF Flight
<1>4. /\ Range(line) = {a} \cup Range(line') /\ IsInjective(line')
      /\ a \notin Range(line')
  BY <1>1, <1>2, <1>3, TailRange DEF TicketsDiffer
<1>5. \/ UNCHANGED << acks, seen >>
      \/ \E b \in Acks : Queued(a, b)
  BY <1>1, DeliverIs
<1>6. Range(buffer'.frames) \subseteq Range(buffer.frames) \cup {a.id}
      /\ buffer'.refused \in {a.id, buffer.refused}
  <2>1. \/ UNCHANGED buffer
        \/ Is(buffer', buffer.armed, a.id, buffer.frames)
        \/ Is(buffer', buffer.armed, buffer.refused, Append(buffer.frames, a.id))
    BY <1>1, DeliverIs
  <2>2. buffer.frames \in Seq(Nat) /\ a.id \in Nat
    BY <1>1, <1>2 DEF Buffers, Acks
  <2>3. Range(Append(buffer.frames, a.id)) = Range(buffer.frames) \cup {a.id}
    BY <2>2, AppendRange
  <2> QED
    BY <2>1, <2>3 DEF Is
<1>7. assigned' \in {assigned, a.id}
  BY <1>1, DeliverIs
<1> HIDE DEF a
<1>8. /\ \A k \in Range(acks') : k \in Range(acks) \/ k.id = a.id
      /\ seen' \subseteq seen \cup {a.id}
  <2>1. CASE UNCHANGED << acks, seen >>
    BY <2>1
  <2>2. CASE \E b \in Acks : Queued(a, b)
    BY <1>1, <2>2, QueuedIs DEF Queued
  <2> QED
    BY <1>5, <2>1, <2>2
<1>9. Come' \subseteq Come \cup {a.id}
  BY <1>6, <1>8 DEF Come
<1>10. /\ \A f \in Range(inbox) : f.id # a.id
       /\ \A k \in Range(line') : k.id # a.id
       /\ a.id \in 1 .. ticket
  BY <1>3, <1>4 DEF TicketsDiffer, TicketsIssued
<1>11. TicketsDiffer'
  BY <1>2, <1>3, <1>4, <1>9, <1>10 DEF TicketsDiffer
<1>12. TicketsIssued'
  <2>1. a.id \in 0 .. ticket /\ a.id <= ticket
    BY <1>1, <1>10
  <2> QED
    BY <1>2, <1>3, <1>4, <1>7, <1>8, <1>9, <2>1 DEF TicketsIssued
<1> QED
  BY <1>11, <1>12

\* A thread that is at a label inside of the exchange holds it, and no other does.
LEMMA OneInside ==
  ASSUME Ground
  PROVE  \A t \in Threads : pc[t] \in {"send", "wait", "leave"} =>
           /\ holder = t /\ Busy(t) /\ Step(t) \in Framed
           /\ \A u \in Threads \ {t} : pc[u] \notin {"send", "wait", "leave"}
  BY DEF Ground, Scoped, Scope

\* Where the quiet steps begin and end.
LEMMA QuietMoves ==
  ASSUME Ground, Ground', NEW t \in Threads, Quiet(t)
  PROVE  /\ \A u \in Threads \ {t} : pc'[u] = pc[u] /\ todo'[u] = todo[u] /\ verdict'[u] = verdict[u]
                                     /\ mine'[u] = mine[u] /\ got'[u] = got[u]
         /\ late' \in Nat /\ (late' = 0 => late = 0)
         /\ Begin(t) => pc[t] = "next" /\ pc'[t] = "next" /\ holder # t /\ holder' = holder
         /\ ResetQueues(t) => pc[t] = "next" /\ pc'[t] = "next" /\ holder # t /\ holder' = holder
         /\ ArmSort(t) => pc[t] = "next" /\ pc'[t] = "enter" /\ holder # t /\ holder' = holder
         /\ TakeId(t) => pc[t] = "next" /\ pc'[t] = "left" /\ holder # t /\ holder' = holder
         /\ Enter(t) => pc[t] \in {"next", "enter"} /\ pc'[t] = "send"
                        /\ holder \in {Free, t} /\ holder' = t
         /\ TakeAck(t) \/ TakeInputs(t) => pc[t] = "wait" /\ pc'[t] = "leave" /\ holder' = holder
         /\ Timeout(t) => pc[t] = "wait" /\ pc'[t] \in {"send", "leave"} /\ holder' = holder
         /\ LeaveExchange(t) => pc[t] = "leave" /\ pc'[t] = "left" /\ holder' \in {Free, t}
         /\ Proceed(t) => pc[t] = "left" /\ pc'[t] = "next" /\ holder' = holder
<1> USE DEF Ground
<1>1. Typed /\ Typed' /\ Scope(t)
  BY DEF Scoped
<1>2. CASE Begin(t)
  BY <1>1, <1>2 DEF Begin, Typed, Scope, Busy, ResetQueues, ArmSort, TakeId, Enter, TakeAck,
       TakeInputs, Timeout, LeaveExchange, Proceed, At, NextIs
<1>3. CASE ResetQueues(t)
  BY <1>1, <1>3 DEF ResetQueues, NextIs, At, Typed, Scope, Begin, ArmSort, TakeId, Enter, TakeAck,
       TakeInputs, Timeout, LeaveExchange, Proceed, Framed
<1>4. CASE ArmSort(t)
  BY <1>1, <1>4 DEF ArmSort, Goto, NextIs, At, Typed, Scope, Begin, ResetQueues, TakeId, Enter,
       TakeAck, TakeInputs, Timeout, LeaveExchange, Proceed, Framed
<1>5. CASE TakeId(t)
  BY <1>1, <1>5 DEF TakeId, Goto, NextIs, At, Typed, Scope, Begin, ResetQueues, ArmSort, Enter,
       TakeAck, TakeInputs, Timeout, LeaveExchange, Proceed, Framed
<1>6. CASE Enter(t)
  BY <1>1, <1>6 DEF Enter, Goto, NextIs, At, Typed, Begin, ResetQueues, ArmSort, TakeId,
       TakeAck, TakeInputs, Timeout, LeaveExchange, Proceed, Framed
<1>7. CASE TakeAck(t) \/ TakeInputs(t) \/ Timeout(t)
  <2>1. \/ \E o \in {"acked", "rejected", "timeout"}, k \in Nat : Leave(t, o, k)
        \/ Goto(t, "send") /\ UNCHANGED << verdict, got, late >> /\ Timeout(t)
    <3>1. CASE TakeAck(t)
      <4>1. PICK i \in DOMAIN acks : Leave(t, Outcome(Step(t), acks[i]), acks[i].id)
        BY <3>1 DEF TakeAck
      <4>2. acks[i] \in Acks
        BY SMTT(30), <1>1 DEF Typed
      <4>3. acks[i].id \in Nat /\ Outcome(Step(t), acks[i]) \in {"acked", "rejected", "timeout"}
        BY <4>2 DEF Acks, Outcome
      <4> QED
        BY <4>1, <4>3
    <3>2. CASE TakeInputs(t)
      <4>1. buffer.refused \in Nat /\ buffer.frames \in Seq(Nat)
        BY <1>1 DEF Typed, Buffers
      <4>2. buffer.frames # << >> => Head(buffer.frames) \in Nat
        BY <4>1
      <4>3. \/ Leave(t, "rejected", buffer.refused)
            \/ buffer.frames # << >> /\ Leave(t, "acked", Head(buffer.frames))
        BY <3>2 DEF TakeInputs
      <4> QED
        BY <4>1, <4>2, <4>3
    <3>3. CASE Timeout(t)
      BY <3>3 DEF Timeout
    <3> QED
      BY <1>7, <3>1, <3>2, <3>3
  <2>2. UNCHANGED << todo, mine, holder >> /\ pc[t] = "wait"
    BY <1>7 DEF TakeAck, TakeInputs, Timeout, At
  <2>3. CASE \E o \in {"acked", "rejected", "timeout"}, k \in Nat : Leave(t, o, k)
    <3>1. PICK o \in {"acked", "rejected", "timeout"}, k \in Nat : Leave(t, o, k)
      BY <2>3
    <3>2. late \in Nat /\ (late' = late \/ late' = late + 1)
      BY <1>1, <3>1, AckBounds DEF Leave, Typed
    <3>3. late' \in Nat /\ (late' = 0 => late = 0)
      BY <3>2
    <3>4. pc'[t] = "leave"
      BY <1>1, <3>1 DEF Leave, Goto, Typed
    <3>5. \A u \in Threads \ {t} : pc'[u] = pc[u] /\ verdict'[u] = verdict[u] /\ got'[u] = got[u]
      BY <1>1, <3>1 DEF Leave, Goto, Typed
    <3> HIDE <1>7
    <3> QED
      BY <2>2, <3>3, <3>4, <3>5 DEF Begin, ResetQueues, ArmSort, TakeId, Enter, LeaveExchange,
           Proceed, NextIs, At
  <2>4. CASE Goto(t, "send") /\ UNCHANGED << verdict, got, late >> /\ Timeout(t)
    <3>1. pc'[t] = "send" /\ late \in Nat
      BY <1>1, <2>4, AckBounds DEF Goto, Typed
    <3>2. \A u \in Threads \ {t} : pc'[u] = pc[u]
      BY <1>1, <2>4 DEF Goto, Typed
    <3>3. ~(TakeAck(t) \/ TakeInputs(t))
      BY <1>1, <3>1 DEF TakeAck, TakeInputs, Leave, Goto, Typed
    <3> HIDE <1>7
    <3> QED
      BY <2>2, <2>4, <3>1, <3>2, <3>3 DEF Begin, ResetQueues, ArmSort, TakeId, Enter, LeaveExchange,
           Proceed, NextIs, At
  <2> QED
    BY <2>1, <2>3, <2>4
<1>8. CASE LeaveExchange(t)
  BY <1>1, <1>8 DEF LeaveExchange, Goto, At, Typed, NextIs, ghosts, Begin, ResetQueues, ArmSort,
       TakeId, Enter, TakeAck, TakeInputs, Timeout, Proceed
<1>9. CASE Proceed(t)
  BY <1>1, <1>9 DEF Proceed, Goto, At, Typed, NextIs, ghosts, Begin, ResetQueues, ArmSort,
       TakeId, Enter, TakeAck, TakeInputs, Timeout, LeaveExchange
<1> QED
  BY <1>2, <1>3, <1>4, <1>5, <1>6, <1>7, <1>8, <1>9 DEF Quiet

LEMMA ArmingStep ==
  ASSUME Ground, Ground', Arming, Next
  PROVE  Arming'
<1>1. ASSUME NEW t \in Threads, Quiet(t) PROVE Arming'
  <2> SUFFICES ASSUME buffer'.armed
               PROVE  /\ holder' \in Threads /\ Step(holder)' = "inputs"
                      /\ pc'[holder'] \in {"send", "wait", "leave"}
    BY DEF Arming
  <2>1. \/ buffer.armed /\ ~(LeaveExchange(t) /\ Step(t) = "inputs")
        \/ Enter(t) /\ Step(t) = "inputs"
    BY <1>1, QuietStep
  <2>2. CASE Enter(t) /\ Step(t) = "inputs"
    <3>1. holder' = t /\ pc'[t] = "send" /\ UNCHANGED todo
      BY <1>1, <2>2, QuietMoves DEF Enter
    <3> QED
      BY <2>2, <3>1 DEF Step
  <2>3. CASE buffer.armed /\ ~(LeaveExchange(t) /\ Step(t) = "inputs")
    <3>1. /\ holder \in Threads /\ Step(holder) = "inputs"
          /\ pc[holder] \in {"send", "wait", "leave"}
      BY <2>3 DEF Arming
    <3>2. holder # Free
      BY <3>1, AckBounds
    <3>3. CASE holder # t
      <4>1. holder' = holder
        BY <1>1, <3>2, <3>3, QuietMoves, OneInside, <3>1 DEF Quiet
      <4>2. pc'[holder] = pc[holder] /\ todo'[holder] = todo[holder]
        BY <1>1, <3>1, <3>3, QuietMoves
      <4> QED
        BY <3>1, <4>1, <4>2 DEF Step
    <3>4. CASE holder = t
      <4>1. TakeAck(t) \/ TakeInputs(t) \/ Timeout(t)
        BY <1>1, <2>3, <3>1, <3>4, QuietMoves DEF Quiet
      <4>2. holder' = t /\ pc'[t] \in {"send", "leave"}
        BY <1>1, <3>4, <4>1, QuietMoves
      <4>3. UNCHANGED todo
        BY <4>1 DEF TakeAck, TakeInputs, Timeout
      <4> QED
        BY <3>1, <3>4, <4>2, <4>3 DEF Step
    <3> QED
      BY <3>3, <3>4
  <2> QED
    BY <2>1, <2>2, <2>3
<1>2. ASSUME NEW t \in Threads, Send(t) PROVE Arming'
  <2>1. /\ UNCHANGED << buffer, holder, todo >> /\ pc[t] = "send"
        /\ pc' = [pc EXCEPT ![t] = "wait"] /\ pc \in [Threads -> {"next", "enter", "send", "wait", "leave", "left"}]
    BY <1>2 DEF Send, At, Goto, Ground, Typed
  <2> QED
    BY <2>1 DEF Arming, Step
<1>3. CASE HubServe
  BY <1>3 DEF HubServe, step, places, Arming, Step
<1>4. CASE Deliver
  <2>1. UNCHANGED << step, holder >>
    BY <1>4 DEF Deliver
  <2>2. \/ UNCHANGED buffer
        \/ Is(buffer', buffer.armed, Head(line).id, buffer.frames)
        \/ Is(buffer', buffer.armed, buffer.refused, Append(buffer.frames, Head(line).id))
    BY <1>4, DeliverIs DEF Ground
  <2>3. buffer'.armed = buffer.armed
    BY <2>2 DEF Is
  <2> QED
    BY <2>1, <2>3 DEF step, Arming, Step
<1> QED
  BY <1>1, <1>2, <1>3, <1>4 DEF Next, Quiet

LEMMA FlightStep ==
  ASSUME Ground, Ground', Flight, [Next]_vars
  PROVE  Flight'
<1>1. ASSUME NEW t \in Threads, Quiet(t) PROVE Flight'
  BY <1>1, QuietFlight, ArmingStep DEF Flight, Next, Quiet
<1>2. ASSUME NEW t \in Threads, Send(t) PROVE Flight'
  BY <1>2, SendFlight, ArmingStep DEF Flight, Next
<1>3. CASE HubServe
  BY <1>3, HubServeFlight, ArmingStep DEF Flight, Next
<1>4. CASE Deliver
  BY <1>4, DeliverFlight, ArmingStep DEF Flight, Next
<1>5. CASE UNCHANGED vars
  BY <1>5 DEF Flight, TicketsDiffer, TicketsIssued, Come, Arming, Step,
              vars, step, conn, places, ghosts
<1> QED
  BY <1>1, <1>2, <1>3, <1>4, <1>5 DEF Next, Quiet

-----------------------------------------------------------------------------
(* What is under way, and what has come, belongs to the thread that waits. *)

\* Between two exchanges nothing is under way and no refusal is kept.
LEMMA NothingUnderWay ==
  ASSUME Ground, Owned, late = 0,
         \A u \in Threads : holder = u => pc[u] \notin {"send", "wait"}
  PROVE  Range(inbox) = {} /\ Range(line) = {} /\ buffer.refused = 0
  BY DEF Owned, OwnUnderWay

\* What is left of the clauses when nothing is under way.
LEMMA OwnedBetween ==
  ASSUME Range(inbox') = {}, Range(line') = {}, buffer'.refused = 0,
         \A u \in Threads : pc'[u] # "wait" \/ late' # 0,
         \A u \in Threads : pc'[u] = "send" /\ Step(u)' \in Inputs => Range(buffer'.frames) = {},
         AckIsOwn'
  PROVE  Owned'
  BY DEF Owned, At

\* A wait ends and the step with it: if nothing outlasts the wait, nothing is left.
LEMMA LeaveOwned ==
  ASSUME Ground, Ground', Flight, Owned, NEW t \in Threads, NEW o \in {"acked", "rejected", "timeout"},
         NEW k \in Nat, pc[t] = "wait", Leave(t, o, k), UNCHANGED << conn, mine, holder, todo >>,
         late' = 0, buffer'.refused = 0, k \in Come \cup {0}, o # "timeout" => k \in mine[t]
  PROVE  Owned'
<1>1. /\ verdict' = [verdict EXCEPT ![t] = o] /\ got' = [got EXCEPT ![t] = k]
      /\ pc' = [pc EXCEPT ![t] = "leave"] /\ Typed /\ holder = t
  BY OneInside DEF Leave, Goto, Ground
<1>2. late = 0 /\ ~Owed(t, k)
  <2>1. late \in Nat
    BY <1>1, AckBounds DEF Typed
  <2> QED
    BY <2>1 DEF Leave
<1>3. ASSUME NEW f \in Range(inbox) PROVE FALSE
  <2>1. f.id \in mine[t]
    BY <1>1, <1>2 DEF Owned, OwnUnderWay
  <2>2. PICK i \in DOMAIN inbox : inbox[i] = f
    BY DEF Range
  <2>3. f.id = k
    BY <1>2, <2>1, <2>2 DEF Owed
  <2>4. f.id \notin Come /\ f.id # 0
    BY DEF Flight, TicketsDiffer, TicketsIssued
  <2> QED
    BY <2>3, <2>4
<1>4. ASSUME NEW a \in Range(line) PROVE FALSE
  <2>1. a.id \in mine[t]
    BY <1>1, <1>2 DEF Owned, OwnUnderWay
  <2>2. PICK i \in DOMAIN line : line[i] = a
    BY DEF Range
  <2>3. a.id = k
    BY <1>2, <2>1, <2>2 DEF Owed
  <2>4. a.id \notin Come /\ a.id # 0
    BY DEF Flight, TicketsDiffer, TicketsIssued
  <2> QED
    BY <2>3, <2>4
<1>5. AckIsOwn'
  <2>1. pc'[t] = "leave" /\ verdict'[t] = o /\ got'[t] = k
    BY <1>1 DEF Typed
  <2>2. \A u \in Threads \ {t} : pc'[u] = pc[u] /\ pc[u] \notin {"send", "wait", "leave"}
    BY <1>1, OneInside DEF Typed
  <2> QED
    BY <2>1, <2>2 DEF AckIsOwn, At
<1>6. \A u \in Threads : pc'[u] \notin {"send", "wait"}
  BY <1>1, OneInside DEF Typed
<1>7. Range(inbox') = {} /\ Range(line') = {}
  BY <1>3, <1>4 DEF conn
<1> QED
  BY <1>5, <1>6, <1>7, OwnedBetween

\* The steps of a thread outside of its exchange leave the clauses alone.
LEMMA OutsideOwned ==
  ASSUME Ground, Ground', Owned, NEW t \in Threads,
         Begin(t) \/ ResetQueues(t) \/ ArmSort(t) \/ TakeId(t) \/ Proceed(t)
  PROVE  Owned'
<1>1. Quiet(t)
  BY DEF Quiet
<1>2. /\ \A u \in Threads \ {t} : /\ pc'[u] = pc[u] /\ todo'[u] = todo[u] /\ mine'[u] = mine[u]
                                  /\ verdict'[u] = verdict[u] /\ got'[u] = got[u]
      /\ late' = 0 => late = 0
      /\ pc[t] \in {"next", "left"} /\ pc'[t] \in {"next", "enter", "left"} /\ holder' = holder
  BY <1>1, QuietMoves
<1>3. /\ UNCHANGED << inbox, line >> /\ Range(acks') \subseteq Range(acks)
      /\ Range(buffer'.frames) \subseteq Range(buffer.frames)
      /\ buffer'.refused \in {0, buffer.refused}
  BY <1>1, QuietStep
<1> SUFFICES ASSUME late' = 0
             PROVE  Owned'
  BY DEF Owned
<1>4. late = 0
  BY <1>2
<1>5. ASSUME NEW x, OwnUnderWay(x) PROVE OwnUnderWay(x)'
  <2>1. holder # t
    BY <1>2, <1>5 DEF OwnUnderWay
  <2> QED
    BY <1>2, <1>5, <2>1 DEF OwnUnderWay
<1>6. (\A f \in Range(inbox) : OwnUnderWay(f)) /\ (\A a \in Range(line) : OwnUnderWay(a))
  BY <1>4 DEF Owned
<1>7. (\A f \in Range(inbox') : OwnUnderWay(f)') /\ (\A a \in Range(line') : OwnUnderWay(a)')
  BY <1>3, <1>5, <1>6
<1>8. \A u \in Threads : pc'[u] = "wait" => \A a \in Range(acks') : a.id \in mine'[u]
  BY <1>2, <1>3, <1>4 DEF Owned, At
<1>9. \A u \in Threads : pc'[u] \in {"send", "wait"} /\ Step(u)' \in Inputs =>
                           Range(buffer'.frames) \subseteq mine'[u]
  BY <1>2, <1>3, <1>4 DEF Owned, Step
<1>10. buffer'.refused # 0 =>
         /\ holder' \in Threads /\ pc'[holder'] \in {"send", "wait"}
         /\ Step(holder)' \in Inputs /\ buffer'.refused \in mine'[holder']
  <2> SUFFICES ASSUME buffer'.refused # 0
               PROVE  /\ holder \in Threads /\ pc'[holder] \in {"send", "wait"}
                      /\ Head(todo'[holder]) \in Inputs /\ buffer'.refused \in mine'[holder]
    BY <1>2 DEF Step
  <2>1. /\ holder \in Threads /\ pc[holder] \in {"send", "wait"}
        /\ Step(holder) \in Inputs /\ buffer.refused \in mine[holder]
        /\ buffer'.refused = buffer.refused
    BY <1>3, <1>4 DEF Owned
  <2>2. holder # t
    BY <1>2, <2>1
  <2> QED
    BY <1>2, <2>1, <2>2 DEF Step
<1>11. AckIsOwn'
  BY <1>2, <1>4 DEF Owned, AckIsOwn, At
<1> QED
  BY <1>7, <1>8, <1>9, <1>10, <1>11 DEF Owned, At

LEMMA EnterOwned ==
  ASSUME Ground, Ground', Owned, NEW t \in Threads, Enter(t)
  PROVE  Owned'
<1> SUFFICES ASSUME late' = 0
             PROVE  Owned'
  BY DEF Owned
<1>0. Quiet(t) /\ buffer \in Buffers
  BY DEF Quiet, Ground, Typed
<1>1. /\ pc[t] \in {"next", "enter"} /\ pc'[t] = "send" /\ holder \in {Free, t} /\ holder' = t
      /\ late = 0 /\ \A u \in Threads \ {t} : pc'[u] = pc[u]
      /\ UNCHANGED << inbox, line >> /\ buffer'.refused \in {0, buffer.refused}
  BY <1>0, QuietMoves, QuietStep
<1>2. \A u \in Threads : holder = u => pc[u] \notin {"send", "wait"}
  BY <1>1, AckBounds
<1>3. Range(inbox) = {} /\ Range(line) = {} /\ buffer.refused = 0
  BY <1>1, <1>2, NothingUnderWay
<1>4. \A u \in Threads \ {t} : pc'[u] \notin {"send", "wait", "leave"}
  BY <1>1, OneInside, AckBounds
<1>5. AckIsOwn'
  BY <1>1, <1>4 DEF AckIsOwn, At
<1>6. Step(t)' \in Inputs => Range(buffer'.frames) = {}
  <2>1. Step(t)' = Step(t)
    BY DEF Enter, Step
  <2>2. CASE Step(t) = "inputs"
    <3>1. buffer' = [Empty EXCEPT !.armed = TRUE]
      BY <2>2 DEF Enter
    <3>2. Is(buffer', TRUE, 0, << >>)
      BY <1>0, <3>1, BufferType
    <3> QED
      BY <3>2 DEF Is, Range
  <2>3. CASE Step(t) = "ask"
    <3>1. buffer' = [buffer EXCEPT !.frames = << >>]
      BY <2>3 DEF Enter
    <3>2. Is(buffer', buffer.armed, buffer.refused, << >>)
      BY <1>0, <3>1, BufferType
    <3> QED
      BY <3>2 DEF Is, Range
  <2> QED
    BY <2>1, <2>2, <2>3 DEF Inputs
<1> QED
  BY <1>1, <1>3, <1>4, <1>5, <1>6, OwnedBetween

LEMMA SendOwned ==
  ASSUME Ground, Ground', Owned, NEW t \in Threads, Send(t)
  PROVE  Owned'
<1> DEFINE new == [id |-> ticket + 1, by |-> t, kind |-> Step(t)]
<1>1. /\ ticket' = ticket + 1 /\ inbox' = Append(inbox, new) /\ acks' = << >>
      /\ mine' = [mine EXCEPT ![t] = @ \cup {ticket'}] /\ pc' = [pc EXCEPT ![t] = "wait"]
      /\ UNCHANGED << todo, holder, line, buffer, late, got, verdict >> /\ pc[t] = "send"
  BY DEF Send, At, Goto
<1>2. Typed /\ holder = t /\ Step(t) \in Framed
  BY <1>1, OneInside DEF Ground
<1> SUFFICES ASSUME late = 0
             PROVE  Owned'
  BY <1>1 DEF Owned
<1>3. new \in Frames /\ new.id = ticket + 1 /\ new.by = t
  BY <1>2 DEF Frames, Typed
<1> HIDE DEF new
<1>4. inbox \in Seq(Frames)
  BY <1>2 DEF Typed
<1>5. Range(inbox') = Range(inbox) \cup {new}
  BY <1>1, <1>3, <1>4, AppendRange
<1>6. /\ pc'[t] = "wait" /\ ticket + 1 \in mine'[t]
      /\ \A u \in Threads : mine[u] \subseteq mine'[u]
  BY <1>1, <1>2 DEF Typed
<1>7. \A u \in Threads \ {t} : pc'[u] = pc[u] /\ pc[u] \notin {"send", "wait", "leave"}
  BY <1>1, <1>2, OneInside DEF Typed
<1>8. \A x : OwnUnderWay(x) => OwnUnderWay(x)'
  BY <1>1, <1>2, <1>6 DEF OwnUnderWay
<1>9. \A x : x.id = ticket + 1 /\ x.by = t => OwnUnderWay(x)'
  BY <1>1, <1>2, <1>6 DEF OwnUnderWay
<1>10. (\A f \in Range(inbox') : OwnUnderWay(f)') /\ (\A a \in Range(line') : OwnUnderWay(a)')
  BY <1>1, <1>3, <1>5, <1>8, <1>9 DEF Owned
<1>11. Range(acks') = {}
  BY <1>1 DEF Range
<1>12. \A u \in Threads : pc'[u] \in {"send", "wait"} /\ Step(u)' \in Inputs =>
                            Range(buffer'.frames) \subseteq mine'[u]
  BY <1>1, <1>6, <1>7 DEF Owned, Step
<1>13. buffer'.refused # 0 =>
         /\ holder' \in Threads /\ pc'[holder'] \in {"send", "wait"}
         /\ Step(holder)' \in Inputs /\ buffer'.refused \in mine'[holder']
  BY <1>1, <1>2, <1>6 DEF Owned, Step
<1>14. AckIsOwn'
  BY <1>6, <1>7 DEF AckIsOwn, At
<1> QED
  BY <1>10, <1>11, <1>12, <1>13, <1>14 DEF Owned, At

LEMMA TakeAckOwned ==
  ASSUME Ground, Ground', Flight, Owned, NEW t \in Threads, TakeAck(t)
  PROVE  Owned'
<1> SUFFICES ASSUME late' = 0
             PROVE  Owned'
  BY DEF Owned
<1>0. Quiet(t) /\ Typed
  BY DEF Quiet, Ground
<1>1. PICK i \in DOMAIN acks : Leave(t, Outcome(Step(t), acks[i]), acks[i].id)
  BY DEF TakeAck
<1>2. /\ pc[t] = "wait" /\ Step(t) \notin Inputs
      /\ UNCHANGED << conn, mine, holder, todo, buffer >>
  BY DEF TakeAck, At
<1>3. late = 0
  BY <1>0, QuietMoves
<1>4. acks[i] \in Range(acks) /\ acks[i] \in Acks
  BY <1>0 DEF Range, Typed
<1>5. acks[i].id \in mine[t] /\ acks[i].id \in Come /\ acks[i].id \in Nat
  BY <1>2, <1>3, <1>4 DEF Owned, At, Come, Acks
<1>6. buffer'.refused = 0
  <2>1. holder = t
    BY <1>2, OneInside
  <2> QED
    BY <1>2, <1>3, <2>1 DEF Owned
<1>7. Outcome(Step(t), acks[i]) \in {"acked", "rejected", "timeout"}
  BY DEF Outcome
<1> QED
  BY <1>1, <1>2, <1>5, <1>6, <1>7, LeaveOwned

LEMMA TakeInputsOwned ==
  ASSUME Ground, Ground', Flight, Owned, NEW t \in Threads, TakeInputs(t)
  PROVE  Owned'
<1> SUFFICES ASSUME late' = 0
             PROVE  Owned'
  BY DEF Owned
<1>0. Quiet(t) /\ buffer \in Buffers
  BY DEF Quiet, Ground, Typed
<1>1. /\ pc[t] = "wait" /\ Step(t) \in Inputs
      /\ UNCHANGED << conn, mine, holder, todo >>
  BY DEF TakeInputs, At
<1>2. late = 0 /\ holder = t
  BY <1>0, <1>1, QuietMoves, OneInside
<1>3. CASE buffer.refused # 0
  <2>1. /\ Leave(t, "rejected", buffer.refused)
        /\ buffer' = [buffer EXCEPT !.refused = 0, !.frames = << >>]
    BY <1>3 DEF TakeInputs
  <2>2. buffer'.refused = 0
    BY <1>0, <2>1, BufferType DEF Is
  <2>3. buffer.refused \in mine[t] /\ buffer.refused \in Come /\ buffer.refused \in Nat
    BY <1>0, <1>2, <1>3 DEF Owned, Come, Buffers
  <2>4. "rejected" \in {"acked", "rejected", "timeout"}
    OBVIOUS
  <2> QED
    BY <1>1, <2>1, <2>2, <2>3, <2>4, LeaveOwned
<1>4. CASE buffer.refused = 0
  <2>1. /\ buffer.frames # << >> /\ Leave(t, "acked", Head(buffer.frames))
        /\ buffer' = [buffer EXCEPT !.frames = << >>]
    BY <1>4 DEF TakeInputs
  <2>2. buffer'.refused = 0
    BY <1>0, <1>4, <2>1, BufferType DEF Is
  <2>3. buffer.frames \in Seq(Nat)
    BY <1>0 DEF Buffers
  <2>4. Head(buffer.frames) \in Range(buffer.frames) /\ Head(buffer.frames) \in Nat
    BY <2>1, <2>3, TailRange
  <2>5. Head(buffer.frames) \in mine[t] /\ Head(buffer.frames) \in Come
    BY <1>1, <1>2, <2>4 DEF Owned, Come
  <2>6. "acked" \in {"acked", "rejected", "timeout"}
    OBVIOUS
  <2> QED
    BY <1>1, <2>1, <2>2, <2>4, <2>5, <2>6, LeaveOwned
<1> QED
  BY <1>3, <1>4

LEMMA TimeoutOwned ==
  ASSUME Ground, Ground', Flight, Owned, NEW t \in Threads, Timeout(t)
  PROVE  Owned'
<1> SUFFICES ASSUME late' = 0
             PROVE  Owned'
  BY DEF Owned
<1>0. Quiet(t) /\ Typed
  BY DEF Quiet, Ground
<1>1. /\ pc[t] = "wait" /\ Nothing(t)
      /\ UNCHANGED << todo, tries, holder, conn, acks, buffer, mine >>
  BY DEF Timeout, At, places
<1>2. late = 0 /\ holder = t
  BY <1>0, <1>1, QuietMoves, OneInside
<1>3. CASE tries[t] < Attempts(Step(t))
  <2>1. pc' = [pc EXCEPT ![t] = "send"] /\ UNCHANGED << verdict, got, late >>
    BY <1>3 DEF Timeout, Goto
  <2>2. pc'[t] = "send" /\ \A u \in Threads \ {t} : pc'[u] = pc[u] /\ pc[u] \notin {"send", "wait", "leave"}
    BY <1>0, <1>1, <2>1, OneInside DEF Typed
  <2>3. \A x : OwnUnderWay(x) => OwnUnderWay(x)'
    BY <1>1, <1>2, <2>2 DEF OwnUnderWay
  <2>4. (\A f \in Range(inbox') : OwnUnderWay(f)') /\ (\A a \in Range(line') : OwnUnderWay(a)')
    BY <1>1, <1>2, <2>3 DEF Owned, conn
  <2>5. \A u \in Threads : pc'[u] \in {"send", "wait"} /\ Step(u)' \in Inputs =>
                             Range(buffer'.frames) \subseteq mine'[u]
    BY <1>1, <1>2, <2>2 DEF Owned, Step
  <2>6. buffer'.refused # 0 =>
          /\ holder' \in Threads /\ pc'[holder'] \in {"send", "wait"}
          /\ Step(holder)' \in Inputs /\ buffer'.refused \in mine'[holder']
    BY <1>1, <1>2, <2>2 DEF Owned, Step
  <2>7. AckIsOwn' /\ \A u \in Threads : pc'[u] # "wait"
    BY <2>2 DEF AckIsOwn, At
  <2> QED
    BY <2>4, <2>5, <2>6, <2>7 DEF Owned, At
<1>4. CASE ~(tries[t] < Attempts(Step(t)))
  <2>1. Leave(t, "timeout", 0)
    BY <1>4 DEF Timeout
  <2>2. buffer'.refused = 0
    BY <1>1, <1>2 DEF Owned, Nothing
  <2>3. "timeout" \in {"acked", "rejected", "timeout"} /\ 0 \in Nat /\ 0 \in Come \cup {0}
    OBVIOUS
  <2> QED
    BY <1>1, <2>1, <2>2, <2>3, LeaveOwned
<1> QED
  BY <1>3, <1>4

LEMMA LeaveExchangeOwned ==
  ASSUME Ground, Ground', Owned, NEW t \in Threads, LeaveExchange(t)
  PROVE  Owned'
<1> SUFFICES ASSUME late' = 0
             PROVE  Owned'
  BY DEF Owned
<1>0. Quiet(t) /\ Typed
  BY DEF Quiet, Ground
<1>1. /\ pc[t] = "leave" /\ pc'[t] = "left" /\ late = 0
      /\ \A u \in Threads \ {t} : pc'[u] = pc[u]
      /\ UNCHANGED << inbox, line >> /\ buffer'.refused \in {0, buffer.refused}
  BY <1>0, QuietMoves, QuietStep
<1>2. /\ holder = t /\ \A u \in Threads \ {t} : pc[u] \notin {"send", "wait", "leave"}
  BY <1>1, OneInside
<1>3. Range(inbox) = {} /\ Range(line) = {} /\ buffer.refused = 0
  BY <1>1, <1>2, NothingUnderWay
<1>4. AckIsOwn' /\ \A u \in Threads : pc'[u] \notin {"send", "wait"}
  BY <1>1, <1>2 DEF AckIsOwn, At
<1> QED
  BY <1>1, <1>3, <1>4, OwnedBetween

LEMMA HubServeOwned ==
  ASSUME Ground, Ground', Owned, HubServe
  PROVE  Owned'
<1> DEFINE f == Head(inbox)
<1>1. /\ inbox # << >> /\ inbox' = Tail(inbox) /\ UNCHANGED << step, holder, places, ghosts >>
      /\ \/ UNCHANGED line
         \/ \E w \in Answers(f.kind) : line' = Append(line, [id |-> f.id, by |-> f.by, what |-> w])
  BY DEF HubServe
<1>2. inbox \in Seq(Frames) /\ line \in Seq(Acks)
  BY DEF Ground, Typed
<1>3. f \in Frames /\ Range(inbox) = {f} \cup Range(inbox')
  BY <1>1, <1>2, TailRange
<1> SUFFICES ASSUME late = 0
             PROVE  Owned'
  BY <1>1 DEF Owned, ghosts
<1>4. \A x : OwnUnderWay(x) => OwnUnderWay(x)'
  BY <1>1 DEF OwnUnderWay, step, ghosts
<1>5. OwnUnderWay(f)
  BY <1>3 DEF Owned
<1> HIDE DEF f
<1>6. \A a \in Range(line') : a \in Range(line) \/ (a.id = f.id /\ a.by = f.by)
  <2>1. CASE UNCHANGED line
    BY <2>1
  <2>2. CASE \E w \in Answers(f.kind) : line' = Append(line, [id |-> f.id, by |-> f.by, what |-> w])
    <3>1. PICK w \in Answers(f.kind) : line' = Append(line, [id |-> f.id, by |-> f.by, what |-> w])
      BY <2>2
    <3> DEFINE new == [id |-> f.id, by |-> f.by, what |-> w]
    <3>2. w \in Whats
      BY DEF Answers, Whats, Status
    <3>3. new \in Acks /\ new.id = f.id /\ new.by = f.by
      BY <1>3, <3>2 DEF Frames, Acks
    <3>4. line' = Append(line, new)
      BY <3>1
    <3> HIDE DEF new
    <3>5. Range(line') = Range(line) \cup {new}
      BY <1>2, <3>3, <3>4, AppendRange
    <3> QED
      BY <3>3, <3>5
  <2> QED
    BY <1>1, <2>1, <2>2
<1>7. \A x : x.id = f.id /\ x.by = f.by => OwnUnderWay(x)
  BY <1>5 DEF OwnUnderWay
<1>8. (\A g \in Range(inbox') : OwnUnderWay(g)') /\ (\A a \in Range(line') : OwnUnderWay(a)')
  BY <1>3, <1>4, <1>6, <1>7 DEF Owned
<1> QED
  BY <1>1, <1>8 DEF Owned, At, AckIsOwn, Step, step, places, ghosts

LEMMA DeliverOwned ==
  ASSUME Ground, Ground', Flight, Owned, Deliver
  PROVE  Owned'
<1> DEFINE a == Head(line)
<1>1. Typed /\ line \in Seq(Acks) /\ buffer \in Buffers
  BY DEF Ground, Typed
<1>2. /\ line # << >> /\ line' = Tail(line) /\ a \in Acks
      /\ UNCHANGED << step, holder, inbox, ticket, mine, got, late, ops >>
  BY <1>1, DeliverIs
<1>3. Range(line) = {a} \cup Range(line')
  BY <1>1, <1>2, TailRange
<1> SUFFICES ASSUME late = 0
             PROVE  Owned'
  BY <1>2 DEF Owned
<1>4. \A x : OwnUnderWay(x) <=> OwnUnderWay(x)'
  BY <1>2 DEF OwnUnderWay, step
<1>5. OwnUnderWay(a)
  BY <1>3 DEF Owned
<1>6. (\A f \in Range(inbox') : OwnUnderWay(f)') /\ (\A x \in Range(line') : OwnUnderWay(x)')
  BY <1>2, <1>3, <1>4 DEF Owned
<1>7. (\E b \in Acks : Queued(a, b)) \/ UNCHANGED << acks, seen >>
  BY <1>1, DeliverIs
<1>8. \/ UNCHANGED buffer
      \/ buffer.armed /\ Is(buffer', buffer.armed, a.id, buffer.frames)
      \/ Is(buffer', buffer.armed, buffer.refused, Append(buffer.frames, a.id))
  BY <1>1, DeliverIs
<1> HIDE DEF a
<1>9. \A x \in Range(acks') : x \in Range(acks) \/ x.id = a.id
  <2>1. CASE UNCHANGED << acks, seen >>
    BY <2>1
  <2>2. CASE \E b \in Acks : Queued(a, b)
    BY <1>1, <2>2, QueuedIs DEF Queued
  <2> QED
    BY <1>7, <2>1, <2>2
<1>10. \A u \in Threads : pc[u] \in {"send", "wait"} => a.id \in mine[u]
  BY <1>5, OneInside DEF OwnUnderWay
<1>11. \A u \in Threads : pc'[u] = "wait" => \A x \in Range(acks') : x.id \in mine'[u]
  BY <1>2, <1>9, <1>10 DEF Owned, At, step
<1>12. /\ Range(buffer'.frames) \subseteq Range(buffer.frames) \cup {a.id}
       /\ buffer'.refused = buffer.refused \/ (buffer.armed /\ buffer'.refused = a.id)
  <2>1. buffer.frames \in Seq(Nat) /\ a.id \in Nat
    BY <1>1, <1>2 DEF Buffers, Acks
  <2>2. Range(Append(buffer.frames, a.id)) = Range(buffer.frames) \cup {a.id}
    BY <2>1, AppendRange
  <2> QED
    BY <1>8, <2>2 DEF Is
<1>13. \A u \in Threads : pc'[u] \in {"send", "wait"} /\ Step(u)' \in Inputs =>
                            Range(buffer'.frames) \subseteq mine'[u]
  BY <1>2, <1>10, <1>12 DEF Owned, Step, step
<1>14. buffer'.refused # 0 =>
         /\ holder' \in Threads /\ pc'[holder'] \in {"send", "wait"}
         /\ Step(holder)' \in Inputs /\ buffer'.refused \in mine'[holder']
  <2>1. CASE buffer'.refused = buffer.refused
    BY <1>2, <2>1 DEF Owned, Step, step
  <2>2. CASE buffer.armed /\ buffer'.refused = a.id
    <3>1. Step(holder) \in Inputs
      BY <2>2 DEF Flight, Arming, Inputs
    <3> QED
      BY <1>2, <1>5, <2>2, <3>1 DEF OwnUnderWay, Step, step
  <2> QED
    BY <1>12, <2>1, <2>2
<1>15. AckIsOwn'
  BY <1>2 DEF Owned, AckIsOwn, At, step
<1> QED
  BY <1>6, <1>11, <1>13, <1>14, <1>15 DEF Owned, At

LEMMA OwnedStep ==
  ASSUME Ground, Ground', Flight, Owned, [Next]_vars
  PROVE  Owned'
<1>1. ASSUME NEW t \in Threads,
             Begin(t) \/ ResetQueues(t) \/ ArmSort(t) \/ TakeId(t) \/ Proceed(t)
      PROVE  Owned'
  BY <1>1, OutsideOwned
<1>2. ASSUME NEW t \in Threads,
             Enter(t) \/ Send(t) \/ TakeAck(t) \/ TakeInputs(t) \/ Timeout(t) \/ LeaveExchange(t)
      PROVE  Owned'
  BY <1>2, EnterOwned, SendOwned, TakeAckOwned, TakeInputsOwned, TimeoutOwned, LeaveExchangeOwned
<1>3. CASE HubServe
  BY <1>3, HubServeOwned
<1>4. CASE Deliver
  BY <1>4, DeliverOwned
<1>5. CASE UNCHANGED vars
  BY <1>5 DEF Owned, OwnUnderWay, AckIsOwn, At, Step, vars, step, conn, places, ghosts
<1> QED
  BY <1>1, <1>2, <1>3, <1>4, <1>5 DEF Next

-----------------------------------------------------------------------------
(* What has come for a step is still there when its wait ends.             *)

LEMMA HeardStep ==
  ASSUME Ground, Ground', Flight, Heard, [Next]_vars
  PROVE  Heard'
<1>0. Typed /\ Typed'
  BY DEF Ground
<1>1. ASSUME NEW t \in Threads,
             Begin(t) \/ ArmSort(t) \/ TakeId(t) \/ LeaveExchange(t) \/ Proceed(t)
      PROVE  Heard'
  <2>1. /\ \A u \in Threads \ {t} : /\ pc'[u] = pc[u] /\ todo'[u] = todo[u] /\ mine'[u] = mine[u]
                                   /\ verdict'[u] = verdict[u]
        /\ pc'[t] \in {"next", "enter", "left"}
    BY <1>1, QuietMoves DEF Quiet
  <2>2. UNCHANGED << acks, seen >> /\ meddled \ {t} \subseteq meddled'
    BY <1>1 DEF Begin, ArmSort, TakeId, LeaveExchange, Proceed, places, ghosts
  <2> QED
    BY <2>1, <2>2 DEF Heard, Silent, Listens, Step
<1>2. ASSUME NEW t \in Threads, ResetQueues(t) PROVE Heard'
  <2>1. /\ \A u \in Threads \ {t} : pc'[u] = pc[u] /\ verdict'[u] = verdict[u]
        /\ pc'[t] = "next"
    BY <1>2, QuietMoves DEF Quiet
  <2>2. UNCHANGED << mine, seen >> /\ meddled' = meddled \cup Losers(t)
    BY <1>2 DEF ResetQueues
  <2>3. \A u \in Threads \ {t} : pc[u] = "wait" => u \in meddled'
    BY <2>2 DEF Losers, At
  <2> QED
    BY <2>1, <2>2, <2>3 DEF Heard, Silent
<1>3. ASSUME NEW t \in Threads, Enter(t) PROVE Heard'
  <2>1. seen' = {}
    BY <1>3 DEF Enter
  <2> QED
    BY <2>1 DEF Heard, Silent
<1>4. ASSUME NEW t \in Threads, Send(t) PROVE Heard'
  <2>1. /\ pc[t] = "send" /\ pc' = [pc EXCEPT ![t] = "wait"] /\ ticket' = ticket + 1
        /\ mine' = [mine EXCEPT ![t] = @ \cup {ticket'}] /\ UNCHANGED << seen, meddled >>
    BY <1>4 DEF Send, At, Goto
  <2>2. ticket' \notin seen
    BY <1>0, <2>1 DEF Flight, TicketsIssued, Typed
  <2>3. pc'[t] = "wait" /\ mine'[t] = mine[t] \cup {ticket'}
    BY <1>0, <2>1 DEF Typed
  <2>4. \A u \in Threads \ {t} : pc'[u] \notin {"send", "wait", "leave"}
    BY <1>0, <2>1, OneInside DEF Typed
  <2>5. t \notin meddled => seen' \cap mine'[t] = {}
    BY <2>1, <2>2, <2>3 DEF Heard, Silent
  <2> QED
    BY <2>1, <2>3, <2>4, <2>5 DEF Heard
<1>5. ASSUME NEW t \in Threads, TakeAck(t) \/ TakeInputs(t) PROVE Heard'
  <2>1. /\ pc[t] = "wait" /\ pc'[t] = "leave"
        /\ \A u \in Threads \ {t} : pc'[u] = pc[u]
    BY <1>5, QuietMoves DEF Quiet
  <2>2. \A u \in Threads \ {t} : pc'[u] \notin {"send", "wait", "leave"}
    BY <2>1, OneInside
  <2>3. verdict' = [verdict EXCEPT ![t] = verdict'[t]] /\ verdict'[t] # "timeout"
    <3>1. \E o \in {"acked", "rejected"} : verdict' = [verdict EXCEPT ![t] = o]
      BY <1>5 DEF TakeAck, TakeInputs, Leave, Outcome
    <3> QED
      BY <1>0, <3>1 DEF Typed
  <2> QED
    BY <2>1, <2>2, <2>3 DEF Heard
<1>6. ASSUME NEW t \in Threads, Timeout(t) PROVE Heard'
  <2>1. /\ pc[t] = "wait" /\ pc'[t] \in {"send", "leave"}
        /\ \A u \in Threads \ {t} : pc'[u] = pc[u]
    BY <1>6, QuietMoves DEF Quiet
  <2>2. \A u \in Threads \ {t} : pc'[u] \notin {"send", "wait", "leave"}
    BY <2>1, OneInside
  <2>3. Nothing(t) /\ UNCHANGED << mine, seen, meddled, acks >>
    BY <1>6 DEF Timeout, places
  <2>4. ASSUME t \notin meddled PROVE Silent(t)
    <3>1. \A k \in seen \cap mine[t] : \E a \in Range(acks) : a.id = k /\ Listens(t, Step(t), a)
      BY <2>1, <2>4 DEF Heard
    <3>2. \A a \in Range(acks) : ~Listens(t, Step(t), a)
      <4>1. CASE Step(t) \in Inputs
        BY <4>1 DEF Listens, Inputs
      <4>2. CASE Step(t) \notin Inputs
        BY <2>3, <4>2 DEF Nothing, Range
      <4> QED
        BY <4>1, <4>2
    <3> QED
      BY <3>1, <3>2 DEF Silent
  <2> QED
    BY <2>1, <2>2, <2>3, <2>4 DEF Heard, Silent
<1>7. CASE HubServe
  BY <1>7 DEF HubServe, Heard, Silent, Step, Listens, step, places, ghosts
<1>8. CASE Deliver
  <2> DEFINE a == Head(line)
  <2>1. /\ UNCHANGED << step, mine >> /\ meddled \subseteq meddled'
        /\ (\E b \in Acks : Queued(a, b)) \/ UNCHANGED << acks, seen >>
    BY <1>0, <1>8, DeliverIs
  <2> HIDE DEF a
  <2>2. CASE UNCHANGED << acks, seen >>
    BY <2>1, <2>2 DEF Heard, Silent, Step, Listens, step
  <2>3. CASE \E b \in Acks : Queued(a, b)
    <3>1. PICK b \in Acks : Queued(a, b)
      BY <2>3
    <3>2. Range(acks') = Range(acks) \cup {b}
      BY <1>0, <3>1, QueuedIs
    <3>3. \/ seen' = seen
          \/ \E t \in Threads : /\ pc[t] = "wait" /\ Listens(t, Step(t), b)
                                /\ seen' = seen \cup {b.id}
      BY <3>1 DEF Queued, Queue, At
    <3>4. ASSUME NEW u \in Threads, pc[u] \in {"send", "leave"} PROVE seen' = seen
      BY <3>3, <3>4, OneInside
    <3>5. ASSUME NEW u \in Threads, pc[u] = "wait", u \notin meddled, NEW k \in seen' \cap mine[u]
          PROVE  \E x \in Range(acks') : x.id = k /\ Listens(u, Step(u), x)
      <4>1. CASE k \in seen
        BY <3>2, <3>5, <4>1 DEF Heard
      <4>2. CASE k \notin seen
        <5>1. PICK t \in Threads : pc[t] = "wait" /\ Listens(t, Step(t), b) /\ k = b.id
          BY <3>3, <3>5, <4>2
        <5>2. t = u
          BY <3>5, <5>1, OneInside
        <5> QED
          BY <3>2, <5>1, <5>2
      <4> QED
        BY <4>1, <4>2
    <3> HIDE <3>1, <3>3
    <3> QED
      BY <2>1, <3>4, <3>5 DEF Heard, Silent, Step, step, Listens
  <2> QED
    BY <2>1, <2>2, <2>3
<1>9. CASE UNCHANGED vars
  BY <1>9 DEF Heard, Silent, Step, Listens, vars, step, conn, places, ghosts
<1> QED
  BY <1>1, <1>2, <1>3, <1>4, <1>5, <1>6, <1>7, <1>8, <1>9 DEF Next

-----------------------------------------------------------------------------
(* The id that is there is that of the device the thread has created.      *)

\* The clause of one thread.
OwnId(t) ==
  /\ pc[t] = "wait" /\ Step(t) = "create" /\ (\E a \in Range(acks) : a.what = "created")
       => assigned \in mine[t]
  /\ pc[t] \in {"leave", "left"} /\ Step(t) = "create" /\ verdict[t] = "acked"
       => assigned \in mine[t]
  /\ NextIs(t, {"takeid"}) => assigned \in mine[t]
  /\ pc[t] = "left" /\ Step(t) = "takeid" => verdict[t] = "acked" /\ got[t] \in mine[t]

\* A thread that a step leaves alone keeps its id.
LEMMA OthersKeepId ==
  ASSUME NEW u, OwnId(u), UNCHANGED assigned,
         \A a \in Range(acks') : a.what = "created" => a \in Range(acks),
         /\ pc'[u] = pc[u] /\ todo'[u] = todo[u] /\ mine'[u] = mine[u]
         /\ verdict'[u] = verdict[u] /\ got'[u] = got[u]
  PROVE  OwnId(u)'
  BY DEF OwnId, Step, NextIs, Busy, At

\* A wiped queue: whoever had not read its id yet is among the losers.
LEMMA WipedKeepsId ==
  ASSUME Ground, Ground', NEW t \in Threads, NEW u \in Threads \ {t}, OwnId(u), u \notin Losers(t),
         Range(acks') = {},
         /\ pc'[u] = pc[u] /\ todo'[u] = todo[u] /\ mine'[u] = mine[u]
         /\ verdict'[u] = verdict[u] /\ got'[u] = got[u]
  PROVE  OwnId(u)'
<1>1. pc[u] # "wait" /\ ~IdUnread(u)
  BY DEF Losers, At
<1>2. Scope(u)
  BY DEF Ground, Scoped
<1> QED
  BY <1>1, <1>2 DEF OwnId, IdUnread, Scope, Step, NextIs, Busy, At

LEMMA IdIsOwnStep ==
  ASSUME Ground, Ground', Flight, Owned, IdIsOwn, [Next]_vars
  PROVE  IdIsOwn'
<1> SUFFICES ASSUME late' = 0
             PROVE  \A u \in Threads \ meddled' : OwnId(u)'
  BY DEF IdIsOwn, OwnId
<1>0. Typed /\ Typed'
  BY DEF Ground
<1>late. late = 0
  <2>1. ASSUME NEW t \in Threads, Quiet(t) PROVE late = 0
    BY <2>1, QuietMoves
  <2>2. ASSUME NEW t \in Threads, Send(t) PROVE late = 0
    BY <2>2 DEF Send
  <2> QED
    BY <2>1, <2>2 DEF Next, Quiet, HubServe, Deliver, vars, ghosts
<1>own. \A u \in Threads \ meddled : OwnId(u)
  BY <1>late DEF IdIsOwn, OwnId
<1>1. ASSUME NEW t \in Threads, Begin(t) PROVE \A u \in Threads \ meddled' : OwnId(u)'
  <2>1. /\ pc'[t] = "next" /\ UNCHANGED << acks, assigned >> /\ meddled' = meddled \ {t}
        /\ \A u \in Threads \ {t} : /\ pc'[u] = pc[u] /\ todo'[u] = todo[u] /\ mine'[u] = mine[u]
                                   /\ verdict'[u] = verdict[u] /\ got'[u] = got[u]
    BY <1>1, QuietMoves DEF Quiet, Begin, places
  <2>2. Step(t)' # "takeid"
    <3>1. PICK p \in Programs : todo' = [todo EXCEPT ![t] = p]
      BY <1>1 DEF Begin
    <3> QED
      BY <1>0, <3>1, ProgramsAreOperations DEF Typed, Step
  <2>3. OwnId(t)'
    BY <2>1, <2>2 DEF OwnId, NextIs, At
  <2> QED
    BY <1>own, <2>1, <2>3, OthersKeepId
<1>2. ASSUME NEW t \in Threads, ResetQueues(t) PROVE \A u \in Threads \ meddled' : OwnId(u)'
  <2>1. /\ pc'[t] = "next" /\ meddled' = meddled \cup Losers(t) /\ Wiped
        /\ Busy(t) /\ Step(t) = "reset" /\ todo' = [todo EXCEPT ![t] = Tail(todo[t])]
        /\ \A u \in Threads \ {t} : /\ pc'[u] = pc[u] /\ todo'[u] = todo[u] /\ mine'[u] = mine[u]
                                   /\ verdict'[u] = verdict[u] /\ got'[u] = got[u]
    BY <1>2, QuietMoves DEF Quiet, ResetQueues, NextIs
  <2>2. Range(acks') = {}
    BY <2>1 DEF Wiped, Range
  <2>3. Busy(t)' => Step(t)' # "takeid"
    BY <1>0, <2>1, StepIs DEF Typed, Step, Busy
  <2>4. OwnId(t)'
    BY <2>1, <2>3 DEF OwnId, NextIs
  <2> QED
    BY <1>own, <2>1, <2>2, <2>4, WipedKeepsId
<1>3. ASSUME NEW t \in Threads, ArmSort(t) PROVE \A u \in Threads \ meddled' : OwnId(u)'
  <2>1. /\ pc'[t] = "enter" /\ UNCHANGED << acks, assigned >> /\ meddled \subseteq meddled'
        /\ \A u \in Threads \ {t} : /\ pc'[u] = pc[u] /\ todo'[u] = todo[u] /\ mine'[u] = mine[u]
                                   /\ verdict'[u] = verdict[u] /\ got'[u] = got[u]
    BY <1>3, QuietMoves DEF Quiet, ArmSort
  <2>2. OwnId(t)'
    BY <2>1 DEF OwnId, NextIs, At
  <2> QED
    BY <1>own, <2>1, <2>2, OthersKeepId
<1>4. ASSUME NEW t \in Threads, TakeId(t) PROVE \A u \in Threads \ meddled' : OwnId(u)'
  <2>1. /\ pc'[t] = "left" /\ UNCHANGED << acks, assigned, meddled, todo, mine >>
        /\ \A u \in Threads \ {t} : /\ pc'[u] = pc[u] /\ todo'[u] = todo[u] /\ mine'[u] = mine[u]
                                   /\ verdict'[u] = verdict[u] /\ got'[u] = got[u]
        /\ NextIs(t, {"takeid"})
    BY <1>4, QuietMoves DEF Quiet, TakeId, places
  <2>2. got'[t] = assigned /\ verdict'[t] = IF assigned = 0 THEN "timeout" ELSE "acked"
    BY <1>0, <1>4 DEF TakeId, Typed
  <2>3. Step(t)' = "takeid"
    BY <2>1 DEF NextIs, Step
  <2>4. ASSUME t \notin meddled PROVE OwnId(t)'
    <3>1. assigned \in mine[t] /\ mine[t] \subseteq 1 .. ticket
      BY <1>own, <2>1, <2>4 DEF OwnId, Flight, TicketsIssued
    <3>2. assigned # 0
      BY <3>1
    <3> QED
      BY <2>1, <2>2, <2>3, <3>1, <3>2 DEF OwnId, NextIs, At
  <2> QED
    BY <1>own, <2>1, <2>4, OthersKeepId
<1>5. ASSUME NEW t \in Threads, Enter(t) PROVE \A u \in Threads \ meddled' : OwnId(u)'
  <2>1. /\ pc'[t] = "send"
        /\ \A u \in Threads \ {t} : /\ pc'[u] = pc[u] /\ todo'[u] = todo[u] /\ mine'[u] = mine[u]
                                   /\ verdict'[u] = verdict[u] /\ got'[u] = got[u]
    BY <1>5, QuietMoves DEF Quiet
  <2>2. OwnId(t)'
    BY <2>1 DEF OwnId, NextIs, At
  <2>3. CASE Step(t) = "order"
    <3>1. Wiped /\ meddled' = meddled \cup Losers(t)
      BY <1>5, <2>3 DEF Enter
    <3>2. Range(acks') = {}
      BY <3>1 DEF Wiped, Range
    <3> QED
      BY <1>own, <2>1, <2>2, <3>1, <3>2, WipedKeepsId
  <2>4. CASE Step(t) # "order"
    <3>1. UNCHANGED << acks, assigned, meddled >>
      BY <1>5, <2>4 DEF Enter, places
    <3> QED
      BY <1>own, <2>1, <2>2, <3>1, OthersKeepId
  <2> QED
    BY <2>3, <2>4
<1>6. ASSUME NEW t \in Threads, Send(t) PROVE \A u \in Threads \ meddled' : OwnId(u)'
  <2>1. /\ pc' = [pc EXCEPT ![t] = "wait"] /\ acks' = << >>
        /\ mine' = [mine EXCEPT ![t] = @ \cup {ticket'}]
        /\ UNCHANGED << todo, verdict, got, assigned, meddled >>
    BY <1>6 DEF Send, Goto
  <2>2. /\ pc'[t] = "wait" /\ Range(acks') = {}
        /\ \A u \in Threads \ {t} : pc'[u] = pc[u] /\ mine'[u] = mine[u]
    BY <1>0, <2>1 DEF Typed, Range
  <2>3. OwnId(t)'
    BY <2>2 DEF OwnId, NextIs, At
  <2> QED
    BY <1>own, <2>1, <2>2, <2>3, OthersKeepId
<1>7. ASSUME NEW t \in Threads, TakeAck(t) PROVE \A u \in Threads \ meddled' : OwnId(u)'
  <2>1. /\ pc[t] = "wait" /\ pc'[t] = "leave" /\ UNCHANGED << assigned, meddled, todo, mine >>
        /\ \A u \in Threads \ {t} : /\ pc'[u] = pc[u] /\ todo'[u] = todo[u] /\ mine'[u] = mine[u]
                                   /\ verdict'[u] = verdict[u] /\ got'[u] = got[u]
    BY <1>7, QuietMoves DEF Quiet, TakeAck
  <2>2. Range(acks') \subseteq Range(acks)
    BY <1>7, QuietStep DEF Quiet
  <2>3. PICK i \in DOMAIN acks : Listens(t, Step(t), acks[i])
    BY <1>7 DEF TakeAck
  <2>4. acks[i] \in Range(acks) /\ (Step(t) = "create" => acks[i].what = "created")
    BY <2>3 DEF Range, Listens
  <2>5. Step(t)' = Step(t)
    BY <2>1 DEF Step
  <2>6. ASSUME t \notin meddled PROVE OwnId(t)'
    BY <1>own, <2>1, <2>4, <2>5, <2>6 DEF OwnId, NextIs, At
  <2> QED
    BY <1>own, <2>1, <2>2, <2>6, OthersKeepId
<1>8. ASSUME NEW t \in Threads, TakeInputs(t) PROVE \A u \in Threads \ meddled' : OwnId(u)'
  <2>1. /\ pc[t] = "wait" /\ pc'[t] = "leave" /\ UNCHANGED << acks, assigned, meddled, todo >>
        /\ Step(t) \in Inputs
        /\ \A u \in Threads \ {t} : /\ pc'[u] = pc[u] /\ todo'[u] = todo[u] /\ mine'[u] = mine[u]
                                   /\ verdict'[u] = verdict[u] /\ got'[u] = got[u]
    BY <1>8, QuietMoves DEF Quiet, TakeInputs
  <2>2. Step(t)' \in Inputs
    BY <2>1 DEF Step
  <2>3. OwnId(t)'
    BY <2>1, <2>2 DEF OwnId, NextIs, At, Inputs
  <2> QED
    BY <1>own, <2>1, <2>3, OthersKeepId
<1>9. ASSUME NEW t \in Threads, Timeout(t) PROVE \A u \in Threads \ meddled' : OwnId(u)'
  <2>1. /\ pc[t] = "wait" /\ pc'[t] \in {"send", "leave"} /\ UNCHANGED << acks, assigned, meddled >>
        /\ \A u \in Threads \ {t} : /\ pc'[u] = pc[u] /\ todo'[u] = todo[u] /\ mine'[u] = mine[u]
                                   /\ verdict'[u] = verdict[u] /\ got'[u] = got[u]
    BY <1>9, QuietMoves DEF Quiet, Timeout, places
  <2>2. pc'[t] = "leave" => verdict'[t] = "timeout"
    BY <1>0, <1>9 DEF Timeout, Goto, Leave, Typed
  <2>3. OwnId(t)'
    BY <2>1, <2>2 DEF OwnId, NextIs, At
  <2> QED
    BY <1>own, <2>1, <2>3, OthersKeepId
<1>10. ASSUME NEW t \in Threads, LeaveExchange(t) PROVE \A u \in Threads \ meddled' : OwnId(u)'
  <2>1. /\ pc[t] = "leave" /\ pc'[t] = "left"
        /\ UNCHANGED << acks, assigned, meddled, todo, mine, verdict, got >>
        /\ \A u \in Threads \ {t} : pc'[u] = pc[u]
    BY <1>10, QuietMoves DEF Quiet, LeaveExchange, ghosts
  <2>2. Step(t)' = Step(t) /\ Step(t) # "takeid"
    BY <2>1, OneInside DEF Step, Framed
  <2>3. ASSUME t \notin meddled PROVE OwnId(t)'
    BY <1>own, <2>1, <2>2, <2>3 DEF OwnId, NextIs, At
  <2> QED
    BY <1>own, <2>1, <2>3, OthersKeepId
<1>11. ASSUME NEW t \in Threads, Proceed(t) PROVE \A u \in Threads \ meddled' : OwnId(u)'
  <2>1. /\ pc[t] = "left" /\ pc'[t] = "next"
        /\ UNCHANGED << acks, assigned, mine, verdict, got >> /\ meddled \subseteq meddled'
        /\ \A u \in Threads \ {t} : pc'[u] = pc[u] /\ todo'[u] = todo[u]
        /\ todo' = [todo EXCEPT ![t] = IF verdict[t] = "acked" THEN Tail(todo[t]) ELSE << >>]
    BY <1>11, QuietMoves DEF Quiet, Proceed
  <2>2. Busy(t)
    BY <2>1 DEF Ground, Scoped, Scope
  <2>3. Busy(t)' /\ Step(t)' = "takeid" => verdict[t] = "acked" /\ Step(t) = "create"
    BY <1>0, <2>1, <2>2, StepIs DEF Typed, Step, Busy
  <2>4. ASSUME t \notin meddled PROVE OwnId(t)'
    BY <1>own, <2>1, <2>3, <2>4 DEF OwnId, NextIs, At
  <2> QED
    BY <1>own, <2>1, <2>4, OthersKeepId
<1>12. CASE HubServe
  <2>1. UNCHANGED << todo, pc, verdict, mine, got, acks, assigned, meddled >>
    BY <1>12 DEF HubServe, step, places, ghosts
  <2> QED
    BY <1>own, <2>1, OthersKeepId
<1>13. CASE Deliver
  <2> DEFINE a == Head(line)
  <2>1. /\ UNCHANGED << todo, pc, verdict, mine, got >> /\ meddled \subseteq meddled'
        /\ line # << >> /\ a \in Acks
        /\ (\E b \in Acks : Queued(a, b)) \/ (UNCHANGED << acks, seen >> /\ a.what # "created")
        /\ IF a.what = "created"
           THEN /\ assigned' = a.id
                /\ meddled' = meddled \cup {u \in Threads \ {a.by} : IdUnread(u)}
           ELSE assigned' = assigned
    BY <1>0, <1>13, DeliverIs DEF step
  <2>2. OwnUnderWay(a)
    <3>1. a \in Range(line)
      BY <1>0, <2>1, TailRange DEF Typed
    <3> QED
      BY <1>late, <3>1 DEF Owned
  <2> HIDE DEF a
  <2>3. \A x \in Range(acks') : x \in Range(acks) \/ (x.what = "created" <=> a.what = "created")
    <3>1. CASE \E b \in Acks : Queued(a, b)
      BY <1>0, <3>1, QueuedIs DEF Queued
    <3> QED
      BY <2>1, <3>1
  <2>4. CASE a.what # "created"
    <3>1. UNCHANGED assigned /\ \A x \in Range(acks') : x.what = "created" => x \in Range(acks)
      BY <2>1, <2>3, <2>4
    <3> QED
      BY <1>own, <2>1, <3>1, OthersKeepId
  <2>5. CASE a.what = "created"
    <3> SUFFICES ASSUME NEW u \in Threads, u \notin meddled' PROVE OwnId(u)'
      OBVIOUS
    <3>1. /\ assigned' = a.id /\ a.by = holder /\ a.id \in mine[a.by]
          /\ pc[a.by] \in {"send", "wait"}
      BY <2>1, <2>2, <2>5 DEF OwnUnderWay
    <3>2. OwnId(u) /\ Scope(u)
      BY <1>own, <2>1 DEF Ground, Scoped
    <3>3. CASE u = a.by
      BY <2>1, <3>1, <3>3 DEF OwnId, NextIs, At
    <3>4. CASE u # a.by
      <4>1. ~IdUnread(u) /\ pc[u] # "wait"
        BY <2>1, <2>5, <3>1, <3>2, <3>4 DEF Scope
      <4> QED
        BY <2>1, <3>2, <4>1 DEF OwnId, IdUnread, Scope, NextIs, Busy, At, Step
    <3> QED
      BY <3>3, <3>4
  <2> QED
    BY <2>4, <2>5
<1>14. CASE UNCHANGED vars
  <2>1. UNCHANGED << todo, pc, verdict, mine, got, acks, assigned, meddled >>
    BY <1>14 DEF vars, step, places, ghosts
  <2> QED
    BY <1>own, <2>1, OthersKeepId
<1> QED
  BY <1>1, <1>2, <1>3, <1>4, <1>5, <1>6, <1>7, <1>8, <1>9, <1>10, <1>11, <1>12, <1>13, <1>14 DEF Next

-----------------------------------------------------------------------------
(* The theorems.                                                           *)

\* What the answers of the hub, the queues and the threads' steps keep to.
THEOREM AckInvariant == Spec => []IInv
<1>1. ASSUME IInv, [Next]_vars PROVE IInv'
  <2>1. Ground'
    BY <1>1, GroundStep DEF IInv
  <2>2. Flight' /\ Owned' /\ Heard' /\ IdIsOwn'
    BY <1>1, <2>1, FlightStep, OwnedStep, HeardStep, IdIsOwnStep DEF IInv
  <2> QED
    BY <2>1, <2>2 DEF IInv
<1> QED
  BY <1>1, InitInv, PTL DEF Spec

\* Every place holds what the code may put there (TypeOK of AckSteps).
THEOREM AckTypeCorrect == Spec => []TypeOK
<1>1. ASSUME IInv PROVE TypeOK
  <2>1. Typed /\ Scoped /\ buffer \in Buffers /\ ticket \in Nat
    BY <1>1 DEF IInv, Ground, Typed
  <2>2. assigned \in Tickets /\ buffer.refused \in Tickets /\ buffer.armed \in BOOLEAN
    <3>1. assigned <= ticket /\ Come \subseteq 0 .. ticket
      BY <1>1 DEF IInv, Flight, TicketsIssued
    <3>2. assigned \in Nat /\ buffer.armed \in BOOLEAN
      BY <2>1 DEF Typed, Buffers
    <3> QED
      BY <2>1, <3>1, <3>2 DEF Come, Tickets
  <2>3. \A t \in Threads : At(t, "send") \/ At(t, "wait") \/ At(t, "leave") => holder = t
    BY <2>1 DEF Scoped, Scope, At
  <2>4. \A t \in Threads : holder = t => Busy(t)
    <3> SUFFICES ASSUME NEW t \in Threads, holder = t PROVE Busy(t)
      OBVIOUS
    <3>1. Scope(t) /\ pc[t] \in {"next", "enter", "send", "wait", "leave", "left"}
      BY <2>1 DEF Scoped, Typed
    <3> QED
      BY <3>1 DEF Scope
  <2> QED
    BY <2>1, <2>2, <2>3, <2>4 DEF TypeOK, Typed
<1> QED
  BY <1>1, AckInvariant, PTL

\* A step is decided by an answer to a frame of its own while none has outlasted its
\* wait (AckIsOwn): with any number of threads and whatever operations they run.
THEOREM AnswersAreOwn == Spec => []AckIsOwn
<1>1. ASSUME IInv PROVE AckIsOwn
  BY <1>1 DEF IInv, Owned, AckIsOwn
<1> QED
  BY <1>1, AckInvariant, PTL

\* A wait that times out has missed nothing (TimeoutMeansSilence).
THEOREM TimeoutsAreSilent == Spec => []TimeoutMeansSilence
<1>1. ASSUME IInv PROVE TimeoutMeansSilence
  BY <1>1 DEF IInv, Heard, Silent, TimeoutMeansSilence, At
<1> QED
  BY <1>1, AckInvariant, PTL

\* A created device's id is its creator's (CreatedIsOwn).
THEOREM IdsAreOwn == Spec => []CreatedIsOwn
<1>1. ASSUME IInv PROVE CreatedIsOwn
  BY <1>1 DEF IInv, IdIsOwn, CreatedIsOwn, At
<1> QED
  BY <1>1, AckInvariant, PTL
=============================================================================
