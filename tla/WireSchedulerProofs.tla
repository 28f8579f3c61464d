------------------------ MODULE WireSchedulerProofs ------------------------
(***************************************************************************)
(* Proofs about WireScheduler, for any number of threads, tables and       *)
(* requests.  The first two theorems hold for Spec, that is for every      *)
(* interleaving of the unlocked methods; the others for SerialSpec.        *)
(*                                                                         *)
(* The last part is about HubLink.tla, the sessions that carry the bytes,  *)
(* for any number of hubs, sockets, pauses and bounces.                    *)
(***************************************************************************)
EXTENDS WireScheduler, MCHubLink, SequenceTheorems, TLAPS

-----------------------------------------------------------------------------
(* Sequences.                                                               *)

\* What Append does to the elements of a sequence.
LEMMA AppendRange ==
  ASSUME NEW S, NEW s \in Seq(S), NEW e \in S
  PROVE  /\ Range(Append(s, e)) = Range(s) \cup {e}
         /\ IsInjective(s) /\ e \notin Range(s) => IsInjective(Append(s, e))
<1> DEFINE a == Append(s, e)
<1>1. /\ Len(s) \in Nat /\ DOMAIN s = 1 .. Len(s) /\ DOMAIN a = 1 .. Len(s) + 1
      /\ a[Len(s) + 1] = e /\ \A i \in 1 .. Len(s) : a[i] = s[i]
  BY AppendProperties
<1> HIDE DEF a
<1>2. \A i \in DOMAIN a : i = Len(s) + 1 \/ i \in DOMAIN s
  BY <1>1
<1>3. Range(a) = Range(s) \cup {e}
  BY <1>1, <1>2 DEF Range
<1>4. IsInjective(s) /\ e \notin Range(s) => IsInjective(a)
  BY <1>1, <1>2 DEF Range, IsInjective
<1> QED
  BY <1>3, <1>4 DEF a

\* What taking the head off a sequence does to its elements.
LEMMA TailRange ==
  ASSUME NEW S, NEW s \in Seq(S), s # << >>
  PROVE  /\ Range(s) = {Head(s)} \cup Range(Tail(s))
         /\ IsInjective(s) => IsInjective(Tail(s)) /\ Head(s) \notin Range(Tail(s))
<1>1. /\ DOMAIN s = 1 .. Len(s) /\ Len(s) \in Nat \ {0}
      /\ Head(s) = s[1] /\ Tail(s) \in Seq(S) /\ Len(Tail(s)) = Len(s) - 1
      /\ DOMAIN Tail(s) = 1 .. Len(s) - 1
      /\ \A i \in 1 .. Len(s) - 1 : Tail(s)[i] = s[i + 1]
  OBVIOUS
<1>2. \A i \in 1 .. Len(s) : i = 1 \/ (i - 1 \in 1 .. Len(s) - 1 /\ i - 1 + 1 = i)
  BY <1>1
<1>3. Range(s) \subseteq {Head(s)} \cup Range(Tail(s))
  <2> SUFFICES ASSUME NEW i \in 1 .. Len(s), s[i] # Head(s)
               PROVE  s[i] \in Range(Tail(s))
    BY <1>1 DEF Range
  <2>1. i - 1 \in 1 .. Len(s) - 1 /\ Tail(s)[i - 1] = s[i]
    BY <1>1, <1>2
  <2> QED
    BY <1>1, <2>1 DEF Range
<1>4. \A i \in 1 .. Len(s) - 1 : i + 1 \in 1 .. Len(s) /\ i + 1 # 1
  BY <1>1
<1>5. {Head(s)} \cup Range(Tail(s)) \subseteq Range(s)
  BY <1>1, <1>4 DEF Range
<1>6. ASSUME IsInjective(s) PROVE IsInjective(Tail(s)) /\ Head(s) \notin Range(Tail(s))
  <2>1. Head(s) \notin Range(Tail(s))
    BY <1>1, <1>4, <1>6 DEF Range, IsInjective
  <2>2. ASSUME NEW i \in 1 .. Len(s) - 1, NEW j \in 1 .. Len(s) - 1,
               Tail(s)[i] = Tail(s)[j]
        PROVE  i = j
    <3>1. i + 1 = j + 1
      BY <1>1, <1>4, <1>6, <2>2 DEF IsInjective
    <3> QED
      BY <3>1
  <2> QED
    BY <1>1, <2>1, <2>2 DEF IsInjective
<1> QED
  BY <1>3, <1>5, <1>6

-----------------------------------------------------------------------------
(* The inductive invariants.                                               *)

\* A thread carries a request exactly between two steps that hand it over, and
\* only requests that were made are carried or deferred.
CarryOK ==
  /\ \A t \in Threads : pc[t] \in Carrying <=> hand[t] # NoTicket
  /\ \A t \in Threads : hand[t] <= Len(requested)
  /\ \A i \in 1 .. Len(queue) : queue[i] <= Len(requested)
  /\ \A t \in Threads : pc[t] = "begin" => requested[hand[t]] \in Reads

TypeInv == TypeOK /\ CarryOK

\* The lock protects the scope of an exchange and the drain at its end, and the
\* kind is set exactly while the scheduler is active.
InScope == {"quiesce", "mark", "body", "await"} \cup Draining

KindSet   == active <=> kind # NoKind
ScopeHeld == \A t \in Writers : pc[t] \in InScope => holder = t
NoScope   ==
  /\ \A t \in Callers : pc[t] \notin InScope
  /\ pc[Frame] \notin {"quiesce", "mark", "body", "await"}
LockInv   == KindSet /\ ScopeHeld /\ NoScope /\ MarkHasHolder

-----------------------------------------------------------------------------
(* Type correctness.                                                       *)

\* Where a thread can be, one fact per place: the sets stay unexpanded below.
LEMMA Places ==
  /\ \A p \in Carrying \cup {"out", "end", "notify", "loop", "pop", "mark", "quiesce",
                           "body", "await", "dead"} : p \in Locations
  /\ \A p \in {"ask", "append", "begin", "send", "item", "dsend"} : p \in Carrying
  /\ \A p \in {"out", "end", "notify", "loop", "pop", "mark", "quiesce", "body",
              "await", "dead"} : p \notin Carrying
BY DEF Locations, InMethod, Enqueueing, Draining, Carrying

LEMMA InitType == Init => TypeInv
<1> SUFFICES ASSUME Init PROVE TypeInv
  OBVIOUS
<1>1. FieldType /\ GuardType /\ WireType
  <2>1. FieldType
    BY DEF Init, FieldType
  <2>0. 0 \in 0 .. MaxDepth /\ 0 \in 0 .. MaxTries /\ 0 \in 0 .. MaxFlaps
    BY BoundsNat
  <2>2. GuardType
    BY <2>0 DEF Init, GuardType
  <2>3. WireType
    BY <2>0 DEF Init, WireType
  <2> QED
    BY <2>1, <2>2, <2>3
<1>2. LocalType
  BY Places DEF Init, LocalType
<1>3. HistoryType
  <2>1. << >> \in Seq(Tickets) /\ << >> \in Seq(Kinds) /\ Len(<< >>) = 0
    OBVIOUS
  <2> QED
    BY <2>1, BoundsNat DEF Init, HistoryType
<1>4. CarryOK
  BY Places DEF Init, CarryOK, NoTicket
<1> QED
  BY <1>1, <1>2, <1>3, <1>4 DEF TypeInv, TypeOK

\* Where queue_or_send goes after its first look at the scheduler.
LEMMA AskGoes ==
  ASSUME TypeInv, NEW t \in Threads, Ask(t)
  PROVE  \/ /\ pc' = [pc EXCEPT ![t] = "out"]
            /\ hand' = [hand EXCEPT ![t] = NoTicket]
         \/ /\ \/ pc' = [pc EXCEPT ![t] = "append"] /\ active
               \/ /\ pc' = [pc EXCEPT ![t] = "begin"] /\ ~active
                  /\ requested[hand[t]] \in Reads
               \/ /\ pc' = [pc EXCEPT ![t] = "send"] /\ ~active
                  /\ requested[hand[t]] = Plain
            /\ hand' = hand
<1>1. hand[t] \in 1 .. Len(requested)
  BY Places
     DEF TypeInv, TypeOK, LocalType, HistoryType, CarryOK, Ask, Tickets, NoTicket
<1>2. requested[hand[t]] \in Kinds
  BY <1>1 DEF TypeInv, TypeOK, HistoryType
<1> QED
  BY <1>2 DEF Ask, Goto, Kinds, TypeInv, TypeOK, FieldType

LEMMA TypeStep == TypeInv /\ [Next]_vars => TypeInv'
<1> SUFFICES ASSUME TypeInv, [Next]_vars PROVE TypeInv'
  OBVIOUS
<1> USE BoundsNat, Places
    DEF TypeInv, TypeOK, FieldType, GuardType, LocalType, HistoryType, WireType,
        CarryOK, Reads, Kinds, Tickets, NoTicket, Goto,
        scheduler, catalog, guard, local, history, wire
<1>1. ASSUME NEW t \in Threads, NEW k \in Kinds, Request(t, k) PROVE TypeInv'
  <2>1. TypeOK'
    BY <1>1 DEF Request
  <2>2. /\ hand' = [hand EXCEPT ![t] = Len(requested) + 1]
        /\ pc' = [pc EXCEPT ![t] = "ask"]
        /\ queue' = queue /\ requested' = Append(requested, k)
    BY <1>1 DEF Request
  <2>3. /\ Len(requested') = Len(requested) + 1
        /\ \A i \in 1 .. Len(requested) : requested'[i] = requested[i]
    BY <2>2
  <2>4. Len(requested) + 1 # 0 /\ Len(requested) \in Nat
    OBVIOUS
  <2>5. \A u \in Threads : pc'[u] \in Carrying <=> hand'[u] # NoTicket
    BY <2>2, <2>4
  <2>6. \A u \in Threads : hand'[u] <= Len(requested')
    BY <2>2, <2>3, <2>4
  <2>7. \A i \in 1 .. Len(queue') : queue'[i] <= Len(requested')
    BY <2>2, <2>3, <2>4
  <2>8. ASSUME NEW u \in Threads, pc'[u] = "begin" PROVE requested'[hand'[u]] \in Reads
    <3>1. u # t /\ pc[u] = "begin" /\ hand'[u] = hand[u]
      BY <2>2, <2>8
    <3>2. hand[u] \in 1 .. Len(requested)
      BY <3>1
    <3> QED
      BY <3>1, <3>2, <2>3
  <2> QED
    BY <2>1, <2>5, <2>6, <2>7, <2>8
<1>2. ASSUME NEW t \in Threads, Ask(t) PROVE TypeInv'
  <2>1. FieldType'
    BY <1>2 DEF Ask, CanIssue
  <2>2. GuardType'
    BY <1>2 DEF Ask, CanIssue
  <2>0. \/ /\ pc' = [pc EXCEPT ![t] = "out"]
           /\ hand' = [hand EXCEPT ![t] = NoTicket]
        \/ /\ \/ pc' = [pc EXCEPT ![t] = "append"]
              \/ pc' = [pc EXCEPT ![t] = "begin"] /\ requested[hand[t]] \in Reads
              \/ pc' = [pc EXCEPT ![t] = "send"]
           /\ hand' = hand
    BY <1>2, AskGoes
  <2>3. LocalType'
    BY <2>0, <1>2 DEF Ask
  <2>4. HistoryType'
    BY <1>2 DEF Ask, CanIssue
  <2>5. WireType'
    BY <1>2 DEF Ask, CanIssue
  <2>6. CarryOK'
    <3>1. pc[t] = "ask" /\ queue' = queue /\ requested' = requested
      BY <1>2 DEF Ask
    <3>2. CASE /\ pc' = [pc EXCEPT ![t] = "out"]
               /\ hand' = [hand EXCEPT ![t] = NoTicket]
      BY <3>1, <3>2
    <3>3. CASE pc' = [pc EXCEPT ![t] = "append"] /\ hand' = hand
      BY <3>1, <3>3
    <3>4. CASE /\ pc' = [pc EXCEPT ![t] = "begin"] /\ requested[hand[t]] \in Reads
               /\ hand' = hand
      BY <3>1, <3>4
    <3>5. CASE pc' = [pc EXCEPT ![t] = "send"] /\ hand' = hand
      BY <3>1, <3>5
    <3> QED
      BY <2>0, <3>2, <3>3, <3>4, <3>5
  <2> QED
    BY <2>1, <2>2, <2>3, <2>4, <2>5, <2>6
<1>3. ASSUME NEW t \in Threads, AppendRequest(t) PROVE TypeInv'
  <2>1. TypeOK'
    BY <1>3 DEF AppendRequest
  <2>2. CarryOK'
    BY <1>3 DEF AppendRequest
  <2> QED
    BY <2>1, <2>2
<1>4. ASSUME NEW t \in Threads, BeginBurst(t) PROVE TypeInv'
  <2>1. TypeOK'
    BY ZenonT(60), <1>4 DEF BeginBurst, StartBurst
  <2>2. CarryOK'
    BY <1>4 DEF BeginBurst, StartBurst
  <2> QED
    BY <2>1, <2>2
<1>5. ASSUME NEW t \in Threads, SendNow(t) PROVE TypeInv'
  <2>1. FieldType'
    BY <1>5 DEF SendNow, SendRequest, Transmit, ArmCatalog, SetCatalog
  <2>2. GuardType'
    BY <1>5 DEF SendNow, SendRequest, Transmit, ArmCatalog, SetCatalog
  <2>3. LocalType'
    BY <1>5 DEF SendNow, SendRequest, Transmit, ArmCatalog, SetCatalog
  <2>4. HistoryType'
    BY <1>5 DEF SendNow, SendRequest, Transmit, ArmCatalog, SetCatalog
  <2>5. WireType'
    BY <1>5 DEF SendNow, SendRequest, Transmit, ArmCatalog, SetCatalog
  <2>6. CarryOK'
    BY <1>5 DEF SendNow, SendRequest, Transmit, ArmCatalog, SetCatalog
  <2> QED
    BY <2>1, <2>2, <2>3, <2>4, <2>5, <2>6
<1>6. ASSUME NEW t \in Threads, EndBurst(t) PROVE TypeInv'
  <2>1. TypeOK'
    BY ZenonT(60), <1>6 DEF EndBurst
  <2>2. CarryOK'
    BY <1>6 DEF EndBurst
  <2> QED
    BY <2>1, <2>2
<1>7. ASSUME NEW t \in Threads, NotifyBurstEnd(t) PROVE TypeInv'
  <2>1. TypeOK'
    BY <1>7 DEF NotifyBurstEnd, SetCatalog
  <2>2. CarryOK'
    BY <1>7 DEF NotifyBurstEnd, SetCatalog
  <2> QED
    BY <2>1, <2>2
<1>8. ASSUME NEW t \in Threads, Loop(t) PROVE TypeInv'
  <2>1. FieldType'
    BY <1>8 DEF Loop, Return
  <2>2. GuardType'
    BY <1>8 DEF Loop, Return
  <2>3. LocalType'
    BY <1>8 DEF Loop, Return
  <2>4. HistoryType'
    BY <1>8 DEF Loop, Return
  <2>5. WireType'
    BY <1>8 DEF Loop, Return
  <2>6. CarryOK'
    BY ZenonT(60), <1>8 DEF Loop, Return
  <2> QED
    BY <2>1, <2>2, <2>3, <2>4, <2>5, <2>6
<1>9. ASSUME NEW t \in Threads, Pop(t) PROVE TypeInv'
  <2>1. TypeOK'
    BY <1>9 DEF Pop
  <2>2. CarryOK'
    BY <1>9 DEF Pop
  <2> QED
    BY <2>1, <2>2
<1>10. ASSUME NEW t \in Threads, PopEmpty(t) PROVE TypeInv'
  <2>1. FieldType'
    BY <1>10 DEF PopEmpty, Return
  <2>2. GuardType'
    BY <1>10 DEF PopEmpty, Return
  <2>3. LocalType'
    BY <1>10 DEF PopEmpty, Return
  <2>4. HistoryType'
    BY <1>10 DEF PopEmpty, Return
  <2>5. WireType'
    BY <1>10 DEF PopEmpty, Return
  <2>6. CarryOK'
    BY <1>10 DEF PopEmpty, Return
  <2> QED
    BY <2>1, <2>2, <2>3, <2>4, <2>5, <2>6
<1>11. ASSUME NEW t \in Threads, Item(t) PROVE TypeInv'
  <2>1. FieldType'
    BY <1>11 DEF Item, StartBurst, CanIssue
  <2>2. GuardType'
    BY <1>11 DEF Item, StartBurst, CanIssue
  <2>3. LocalType'
    BY <1>11 DEF Item, StartBurst, CanIssue
  <2>4. HistoryType'
    BY <1>11 DEF Item, StartBurst, CanIssue
  <2>5. WireType'
    BY <1>11 DEF Item, StartBurst, CanIssue
  <2>6. CarryOK'
    <3>1. pc[t] = "item" /\ queue' = queue /\ requested' = requested
      BY <1>11 DEF Item
    <3>2. CASE /\ pc' = [pc EXCEPT ![t] = "loop"]
               /\ hand' = [hand EXCEPT ![t] = NoTicket]
      BY <3>1, <3>2
    <3>3. CASE pc' = [pc EXCEPT ![t] = "dsend"] /\ hand' = hand
      BY <3>1, <3>3
    <3> QED
      BY <1>11, <3>2, <3>3 DEF Item
  <2> QED
    BY <2>1, <2>2, <2>3, <2>4, <2>5, <2>6
<1>12. ASSUME NEW t \in Threads, DrainSend(t) PROVE TypeInv'
  <2>1. FieldType'
    BY <1>12 DEF DrainSend, SendRequest, Transmit, ArmCatalog, SetCatalog, Return
  <2>2. GuardType'
    BY <1>12 DEF DrainSend, SendRequest, Transmit, ArmCatalog, SetCatalog, Return
  <2>3. LocalType'
    BY <1>12 DEF DrainSend, SendRequest, Transmit, ArmCatalog, SetCatalog, Return
  <2>4. HistoryType'
    BY <1>12 DEF DrainSend, SendRequest, Transmit, ArmCatalog, SetCatalog, Return
  <2>5. WireType'
    BY <1>12 DEF DrainSend, SendRequest, Transmit, ArmCatalog, SetCatalog, Return
  <2>6. CarryOK'
    BY <1>12 DEF DrainSend, SendRequest, Transmit, ArmCatalog, SetCatalog, Return
  <2> QED
    BY <2>1, <2>2, <2>3, <2>4, <2>5, <2>6
<1>13. ASSUME NEW t \in Threads, QuiesceDone(t) PROVE TypeInv'
  <2>1. TypeOK'
    BY <1>13 DEF QuiesceDone
  <2>2. CarryOK'
    BY <1>13 DEF QuiesceDone
  <2> QED
    BY <2>1, <2>2
<1>14. ASSUME NEW t \in Threads, QuiesceTimeout(t) PROVE TypeInv'
  <2>1. TypeOK'
    BY <1>14 DEF QuiesceTimeout, Disturb
  <2>2. CarryOK'
    BY <1>14 DEF QuiesceTimeout, Disturb
  <2> QED
    BY <2>1, <2>2
<1>15. ASSUME NEW t \in Threads, MarkWire(t) PROVE TypeInv'
  <2>1. TypeOK'
    BY ZenonT(60), <1>15 DEF MarkWire, StartBurst
  <2>2. CarryOK'
    BY <1>15 DEF MarkWire, StartBurst
  <2> QED
    BY <2>1, <2>2
<1>16. ASSUME NEW t \in Threads, NestExchange(t) PROVE TypeInv'
  <2>1. TypeOK'
    BY <1>16 DEF NestExchange
  <2>2. CarryOK'
    BY <1>16 DEF NestExchange
  <2> QED
    BY <2>1, <2>2
<1>17. ASSUME NEW t \in Threads, UnnestExchange(t) PROVE TypeInv'
  <2>1. TypeOK'
    BY <1>17 DEF UnnestExchange
  <2>2. CarryOK'
    BY <1>17 DEF UnnestExchange
  <2> QED
    BY <2>1, <2>2
<1>18. ASSUME NEW t \in Threads, StepAnswered(t) PROVE TypeInv'
  <2>1. FieldType'
    BY <1>18 DEF StepAnswered
  <2>2. GuardType'
    BY <1>18 DEF StepAnswered
  <2>3. LocalType'
    BY <1>18 DEF StepAnswered
  <2>4. HistoryType'
    BY <1>18 DEF StepAnswered
  <2>5. WireType'
    BY <1>18 DEF StepAnswered
  <2>6. CarryOK'
    BY <1>18 DEF StepAnswered
  <2> QED
    BY <2>1, <2>2, <2>3, <2>4, <2>5, <2>6
<1>19. ASSUME NEW t \in Threads, StepTimeout(t) PROVE TypeInv'
  <2>1. FieldType'
    BY <1>19 DEF StepTimeout, Disturb
  <2>2. GuardType'
    BY <1>19 DEF StepTimeout, Disturb
  <2>3. LocalType'
    BY <1>19 DEF StepTimeout, Disturb
  <2>4. HistoryType'
    BY <1>19 DEF StepTimeout, Disturb
  <2>5. WireType'
    BY <1>19 DEF StepTimeout, Disturb
  <2>6. CarryOK'
    BY <1>19 DEF StepTimeout, Disturb
  <2> QED
    BY <2>1, <2>2, <2>3, <2>4, <2>5, <2>6
<1>20. ASSUME NEW t \in Threads, LeaveExchange(t) PROVE TypeInv'
  <2>1. FieldType'
    BY <1>20 DEF LeaveExchange, Return
  <2>2. GuardType'
    BY <1>20 DEF LeaveExchange, Return
  <2>3. LocalType'
    BY <1>20 DEF LeaveExchange, Return
  <2>4. HistoryType'
    BY <1>20 DEF LeaveExchange, Return
  <2>5. WireType'
    BY <1>20 DEF LeaveExchange, Return
  <2>6. CarryOK'
    BY ZenonT(60), <1>20 DEF LeaveExchange, Return
  <2> QED
    BY <2>1, <2>2, <2>3, <2>4, <2>5, <2>6
<1>21. ASSUME NEW t \in Writers, EnterExchange(t) PROVE TypeInv'
  <2>1. FieldType'
    BY <1>21 DEF EnterExchange
  <2>2. GuardType'
    BY <1>21 DEF EnterExchange
  <2>3. LocalType'
    BY <1>21 DEF EnterExchange
  <2>4. HistoryType'
    BY <1>21 DEF EnterExchange
  <2>5. WireType'
    BY <1>21 DEF EnterExchange
  <2>6. CarryOK'
    BY <1>21 DEF EnterExchange
  <2> QED
    BY <2>1, <2>2, <2>3, <2>4, <2>5, <2>6
<1>22. ASSUME NEW t \in Writers, NEW k \in {Plain} \cup RowTables, SendStep(t, k) PROVE TypeInv'
  <2>1. FieldType'
    BY <1>22 DEF SendStep, Transmit
  <2>2. GuardType'
    <3>1. /\ holder' = holder /\ depth' = depth /\ answered' = FALSE /\ want' = k
          /\ tries < MaxTries /\ tries' = tries + 1
      BY <1>22 DEF SendStep
    <3>2. tries + 1 \in 0 .. MaxTries
      BY <3>1
    <3> QED
      BY <3>1, <3>2
  <2>3. LocalType'
    BY <1>22 DEF SendStep, Transmit
  <2>4. HistoryType'
    BY <1>22 DEF SendStep, Transmit
  <2>5. WireType'
    BY <1>22 DEF SendStep, Transmit
  <2>6. CarryOK'
    BY <1>22 DEF SendStep, Transmit
  <2> QED
    BY <2>1, <2>2, <2>3, <2>4, <2>5, <2>6
<1>23. ASSUME Tick \/ EmptyFrame \/ (\E empty \in BOOLEAN : AckFrame(empty)) PROVE TypeInv'
  <2>1. FieldType'
    BY <1>23 DEF Tick, EmptyFrame, AckFrame, NoteEmpty, FrameFree, Threads
  <2>2. GuardType'
    BY <1>23 DEF Tick, EmptyFrame, AckFrame, NoteEmpty, FrameFree, Threads
  <2>3. LocalType'
    BY <1>23 DEF Tick, EmptyFrame, AckFrame, NoteEmpty, FrameFree, Threads
  <2>4. HistoryType'
    BY <1>23 DEF Tick, EmptyFrame, AckFrame, NoteEmpty, FrameFree, Threads
  <2>5. WireType'
    BY <1>23 DEF Tick, EmptyFrame, AckFrame, NoteEmpty, FrameFree, Threads
  <2>6. CarryOK'
    BY <1>23 DEF Tick, EmptyFrame, AckFrame, NoteEmpty, FrameFree, Threads
  <2> QED
    BY <2>1, <2>2, <2>3, <2>4, <2>5, <2>6
<1>24. ASSUME RowFrame \/ LastRowFrame PROVE TypeInv'
  <2>1. TypeOK'
    BY ZenonT(60), <1>24 DEF RowFrame, LastRowFrame, StartBurst, SetCatalog, Disturb, FrameFree
  <2>2. CarryOK'
    BY ZenonT(60), <1>24 DEF RowFrame, LastRowFrame, StartBurst, SetCatalog, Disturb, FrameFree
  <2> QED
    BY <2>1, <2>2
<1>25. ASSUME Environment PROVE TypeInv'
  <2>1. FieldType'
    BY ZenonT(60), <1>25 DEF Environment, WindowOver, AppAttach, AppDetach, AppRead, HubDrop,
         HubBack, ArmCatalog, SetCatalog, Disturb
  <2>2. GuardType'
    BY <1>25 DEF Environment, WindowOver, AppAttach, AppDetach, AppRead, HubDrop,
         HubBack, ArmCatalog, SetCatalog, Disturb
  <2>3. LocalType'
    BY <1>25 DEF Environment, WindowOver, AppAttach, AppDetach, AppRead, HubDrop,
         HubBack, ArmCatalog, SetCatalog, Disturb
  <2>4. HistoryType'
    BY <1>25 DEF Environment, WindowOver, AppAttach, AppDetach, AppRead, HubDrop,
         HubBack, ArmCatalog, SetCatalog, Disturb
  <2>5. WireType'
    <3>1. CASE WindowOver
      BY <3>1 DEF WindowOver, Disturb
    <3>2. CASE AppAttach
      BY <3>2 DEF AppAttach
    <3>3. CASE AppDetach
      BY <3>3 DEF AppDetach
    <3>4. CASE HubDrop
      <4>1. flaps + 1 \in 0 .. MaxFlaps
        BY <3>4 DEF HubDrop
      <4> QED
        BY <4>1, <3>4 DEF HubDrop
    <3>5. CASE HubBack
      BY <3>5 DEF HubBack
    <3>6. ASSUME NEW r \in Reads, AppRead(r) PROVE WireType'
      BY <3>6 DEF AppRead, Disturb
    <3> QED
      BY <1>25, <3>1, <3>2, <3>3, <3>4, <3>5, <3>6 DEF Environment
  <2>6. CarryOK'
    BY <1>25 DEF Environment, WindowOver, AppAttach, AppDetach, AppRead, HubDrop,
         HubBack, ArmCatalog, SetCatalog, Disturb
  <2> QED
    BY <2>1, <2>2, <2>3, <2>4, <2>5, <2>6
<1>26. ASSUME UNCHANGED vars PROVE TypeInv'
  <2>1. TypeOK'
    BY <1>26 DEF vars
  <2>2. CarryOK'
    BY <1>26 DEF vars
  <2> QED
    BY <2>1, <2>2
<1> QED
  BY <1>1, <1>2, <1>3, <1>4, <1>5, <1>6, <1>7, <1>8, <1>9, <1>10, <1>11, <1>12, <1>13, <1>14, <1>15, <1>16, <1>17, <1>18, <1>19, <1>20, <1>21, <1>22, <1>23, <1>24, <1>25, <1>26
     DEF Next, ThreadStep, CallerStep, DrainStep, ExchangeStep, HandleFrame

\* Every field keeps its type, under any interleaving of the threads.
THEOREM TypeCorrect == Spec => []TypeOK
<1>1. Spec => []TypeInv
  BY InitType, TypeStep, PTL DEF Spec
<1> QED
  BY <1>1, PTL DEF TypeInv

-----------------------------------------------------------------------------
(* The pseudo-burst and the exchange lock.                                 *)

LEMMA InitLock == Init => LockInv
BY ThreadsDistinct, KindsDistinct
   DEF Init, LockInv, KindSet, ScopeHeld, NoScope, MarkHasHolder, InScope, Draining,
       Threads

LEMMA LockStep == TypeInv /\ LockInv /\ [Next]_vars => LockInv'
<1> SUFFICES ASSUME TypeInv, LockInv, [Next]_vars PROVE LockInv'
  OBVIOUS
<1> USE ThreadsDistinct, KindsDistinct
    DEF LockInv, KindSet, ScopeHeld, NoScope, MarkHasHolder, InScope, Draining,
        Goto, scheduler, catalog, guard, local, history, wire
<1>0. /\ pc \in [Threads -> Locations] /\ holder \in Writers \cup {NoThread}
      /\ hub \in Reads \cup {NoKind}
      /\ \A t \in Threads : pc[t] = "begin" => requested[hand[t]] \in Reads
      /\ Callers \subseteq Threads /\ Writers \subseteq Threads /\ Frame \in Threads
      /\ Xchg \notin Reads /\ NoKind \notin Reads /\ NoKind # Xchg
  BY DEF TypeInv, TypeOK, FieldType, GuardType, LocalType, WireType, CarryOK, Threads,
         Reads, Kinds
<1>1. ASSUME NEW t \in Threads \ Writers, NEW k \in Kinds, Request(t, k) PROVE LockInv'
  <2>1. KindSet'
    BY <1>0, <1>1 DEF Request
  <2>2. ScopeHeld'
    BY <1>0, <1>1 DEF Request
  <2>3. NoScope'
    BY <1>0, <1>1 DEF Request
  <2>4. MarkHasHolder'
    BY <1>0, <1>1 DEF Request
  <2> QED
    BY <2>1, <2>2, <2>3, <2>4
<1>2. ASSUME NEW t \in Threads \ Writers, Ask(t) PROVE LockInv'
  <2>1. KindSet'
    BY <1>0, <1>2 DEF Ask
  <2>2. ScopeHeld'
    BY <1>0, <1>2 DEF Ask
  <2>3. NoScope'
    <3>1. \/ pc' = [pc EXCEPT ![t] = "out"] \/ pc' = [pc EXCEPT ![t] = "append"]
          \/ pc' = [pc EXCEPT ![t] = "begin"] \/ pc' = [pc EXCEPT ![t] = "send"]
      BY <1>2, AskGoes
    <3> QED
      BY <1>0, <3>1
  <2>4. MarkHasHolder'
    BY <1>0, <1>2 DEF Ask
  <2> QED
    BY <2>1, <2>2, <2>3, <2>4
<1>3. ASSUME NEW t \in Threads \ Writers, AppendRequest(t) PROVE LockInv'
  <2>1. KindSet'
    BY <1>0, <1>3 DEF AppendRequest
  <2>2. ScopeHeld'
    BY <1>0, <1>3 DEF AppendRequest
  <2>3. NoScope'
    BY <1>0, <1>3 DEF AppendRequest
  <2>4. MarkHasHolder'
    BY <1>0, <1>3 DEF AppendRequest
  <2> QED
    BY <2>1, <2>2, <2>3, <2>4
<1>4. ASSUME NEW t \in Threads \ Writers, BeginBurst(t) PROVE LockInv'
  <2>1. KindSet'
    BY <1>0, <1>4 DEF BeginBurst, StartBurst
  <2>2. ScopeHeld'
    BY <1>0, <1>4 DEF BeginBurst, StartBurst
  <2>3. NoScope'
    BY <1>0, <1>4 DEF BeginBurst, StartBurst
  <2>4. MarkHasHolder'
    BY <1>0, <1>4 DEF BeginBurst, StartBurst
  <2> QED
    BY <2>1, <2>2, <2>3, <2>4
<1>5. ASSUME NEW t \in Threads \ Writers, SendNow(t) PROVE LockInv'
  <2>1. KindSet'
    BY <1>0, <1>5 DEF SendNow
  <2>2. ScopeHeld'
    BY <1>0, <1>5 DEF SendNow
  <2>3. NoScope'
    BY <1>0, <1>5 DEF SendNow
  <2>4. MarkHasHolder'
    BY <1>0, <1>5 DEF SendNow
  <2> QED
    BY <2>1, <2>2, <2>3, <2>4
<1>6. ASSUME NEW t \in Threads \ Callers, EndBurst(t) PROVE LockInv'
  <2>1. KindSet'
    BY <1>0, <1>6 DEF EndBurst
  <2>2. ScopeHeld'
    BY <1>0, <1>6 DEF EndBurst
  <2>3. NoScope'
    BY <1>0, <1>6 DEF EndBurst
  <2>4. MarkHasHolder'
    BY <1>0, <1>6 DEF EndBurst
  <2> QED
    BY <2>1, <2>2, <2>3, <2>4
<1>7. ASSUME NEW t \in Threads \ Callers, NotifyBurstEnd(t) PROVE LockInv'
  <2>1. KindSet'
    BY <1>0, <1>7 DEF NotifyBurstEnd
  <2>2. ScopeHeld'
    BY <1>0, <1>7 DEF NotifyBurstEnd
  <2>3. NoScope'
    BY <1>0, <1>7 DEF NotifyBurstEnd
  <2>4. MarkHasHolder'
    BY <1>0, <1>7 DEF NotifyBurstEnd
  <2> QED
    BY <2>1, <2>2, <2>3, <2>4
<1>8. ASSUME NEW t \in Threads \ Callers, Loop(t) PROVE LockInv'
  <2>1. KindSet'
    BY <1>0, <1>8 DEF Loop, Return
  <2>2. ScopeHeld'
    BY <1>0, <1>8 DEF Loop, Return
  <2>3. NoScope'
    BY <1>0, <1>8 DEF Loop, Return
  <2>4. MarkHasHolder'
    BY <1>0, <1>8 DEF Loop, Return
  <2> QED
    BY <2>1, <2>2, <2>3, <2>4
<1>9. ASSUME NEW t \in Threads \ Callers, Pop(t) PROVE LockInv'
  <2>1. KindSet'
    BY <1>0, <1>9 DEF Pop
  <2>2. ScopeHeld'
    BY <1>0, <1>9 DEF Pop
  <2>3. NoScope'
    BY <1>0, <1>9 DEF Pop
  <2>4. MarkHasHolder'
    BY <1>0, <1>9 DEF Pop
  <2> QED
    BY <2>1, <2>2, <2>3, <2>4
<1>10. ASSUME NEW t \in Threads \ Callers, PopEmpty(t) PROVE LockInv'
  <2>1. KindSet'
    BY <1>0, <1>10 DEF PopEmpty, Return
  <2>2. ScopeHeld'
    BY <1>0, <1>10 DEF PopEmpty, Return
  <2>3. NoScope'
    BY <1>0, <1>10 DEF PopEmpty, Return
  <2>4. MarkHasHolder'
    BY <1>0, <1>10 DEF PopEmpty, Return
  <2> QED
    BY <2>1, <2>2, <2>3, <2>4
<1>11. ASSUME NEW t \in Threads \ Callers, Item(t) PROVE LockInv'
  <2>1. KindSet'
    BY <1>0, <1>11 DEF Item, StartBurst
  <2>2. ScopeHeld'
    BY <1>0, <1>11 DEF Item, StartBurst
  <2>3. NoScope'
    BY <1>0, <1>11 DEF Item, StartBurst
  <2>4. MarkHasHolder'
    BY <1>0, <1>11 DEF Item, StartBurst
  <2> QED
    BY <2>1, <2>2, <2>3, <2>4
<1>12. ASSUME NEW t \in Threads \ Callers, DrainSend(t) PROVE LockInv'
  <2>1. KindSet'
    BY <1>0, <1>12 DEF DrainSend, Return
  <2>2. ScopeHeld'
    BY <1>0, <1>12 DEF DrainSend, Return
  <2>3. NoScope'
    BY <1>0, <1>12 DEF DrainSend, Return
  <2>4. MarkHasHolder'
    BY <1>0, <1>12 DEF DrainSend, Return
  <2> QED
    BY <2>1, <2>2, <2>3, <2>4
<1>13. ASSUME NEW t \in Writers, EnterExchange(t) PROVE LockInv'
  <2>1. KindSet'
    BY <1>0, <1>13 DEF EnterExchange
  <2>2. ScopeHeld'
    BY <1>0, <1>13 DEF EnterExchange
  <2>3. NoScope'
    BY <1>0, <1>13 DEF EnterExchange
  <2>4. MarkHasHolder'
    BY <1>0, <1>13 DEF EnterExchange
  <2> QED
    BY <2>1, <2>2, <2>3, <2>4
<1>14. ASSUME NEW t \in Writers, QuiesceDone(t) PROVE LockInv'
  <2>1. KindSet'
    BY <1>0, <1>14 DEF QuiesceDone
  <2>2. ScopeHeld'
    BY <1>0, <1>14 DEF QuiesceDone
  <2>3. NoScope'
    BY <1>0, <1>14 DEF QuiesceDone
  <2>4. MarkHasHolder'
    BY <1>0, <1>14 DEF QuiesceDone
  <2> QED
    BY <2>1, <2>2, <2>3, <2>4
<1>15. ASSUME NEW t \in Writers, QuiesceTimeout(t) PROVE LockInv'
  <2>1. KindSet'
    BY <1>0, <1>15 DEF QuiesceTimeout
  <2>2. ScopeHeld'
    BY <1>0, <1>15 DEF QuiesceTimeout
  <2>3. NoScope'
    BY <1>0, <1>15 DEF QuiesceTimeout
  <2>4. MarkHasHolder'
    BY <1>0, <1>15 DEF QuiesceTimeout
  <2> QED
    BY <2>1, <2>2, <2>3, <2>4
<1>16. ASSUME NEW t \in Writers, MarkWire(t) PROVE LockInv'
  <2>1. KindSet'
    BY <1>0, <1>16 DEF MarkWire, StartBurst
  <2>2. ScopeHeld'
    BY <1>0, <1>16 DEF MarkWire, StartBurst
  <2>3. NoScope'
    BY <1>0, <1>16 DEF MarkWire, StartBurst
  <2>4. MarkHasHolder'
    BY <1>0, <1>16 DEF MarkWire, StartBurst
  <2> QED
    BY <2>1, <2>2, <2>3, <2>4
<1>17. ASSUME NEW t \in Writers, NestExchange(t) \/ UnnestExchange(t) PROVE LockInv'
  <2>1. KindSet'
    BY <1>0, <1>17 DEF NestExchange, UnnestExchange
  <2>2. ScopeHeld'
    BY <1>0, <1>17 DEF NestExchange, UnnestExchange
  <2>3. NoScope'
    BY <1>0, <1>17 DEF NestExchange, UnnestExchange
  <2>4. MarkHasHolder'
    BY <1>0, <1>17 DEF NestExchange, UnnestExchange
  <2> QED
    BY <2>1, <2>2, <2>3, <2>4
<1>18. ASSUME NEW t \in Writers, NEW k \in {Plain} \cup RowTables, SendStep(t, k) PROVE LockInv'
  <2>1. KindSet'
    BY <1>0, <1>18 DEF SendStep
  <2>2. ScopeHeld'
    BY <1>0, <1>18 DEF SendStep
  <2>3. NoScope'
    BY <1>0, <1>18 DEF SendStep
  <2>4. MarkHasHolder'
    BY <1>0, <1>18 DEF SendStep
  <2> QED
    BY <2>1, <2>2, <2>3, <2>4
<1>19. ASSUME NEW t \in Writers, StepAnswered(t) \/ StepTimeout(t) PROVE LockInv'
  <2>1. KindSet'
    BY <1>0, <1>19 DEF StepAnswered, StepTimeout
  <2>2. ScopeHeld'
    BY <1>0, <1>19 DEF StepAnswered, StepTimeout
  <2>3. NoScope'
    BY <1>0, <1>19 DEF StepAnswered, StepTimeout
  <2>4. MarkHasHolder'
    BY <1>0, <1>19 DEF StepAnswered, StepTimeout
  <2> QED
    BY <2>1, <2>2, <2>3, <2>4
<1>20. ASSUME NEW t \in Writers, LeaveExchange(t) PROVE LockInv'
  <2>1. KindSet'
    BY <1>0, <1>20 DEF LeaveExchange, Return
  <2>2. ScopeHeld'
    BY <1>0, <1>20 DEF LeaveExchange, Return
  <2>3. NoScope'
    BY <1>0, <1>20 DEF LeaveExchange, Return
  <2>4. MarkHasHolder'
    BY <1>0, <1>20 DEF LeaveExchange, Return
  <2> QED
    BY <2>1, <2>2, <2>3, <2>4
<1>21. ASSUME Tick \/ EmptyFrame \/ (\E empty \in BOOLEAN : AckFrame(empty)) PROVE LockInv'
  <2>1. KindSet'
    BY <1>0, <1>21 DEF Tick, EmptyFrame, AckFrame, NoteEmpty, FrameFree, Threads
  <2>2. ScopeHeld'
    BY <1>0, <1>21 DEF Tick, EmptyFrame, AckFrame, NoteEmpty, FrameFree, Threads
  <2>3. NoScope'
    BY <1>0, <1>21 DEF Tick, EmptyFrame, AckFrame, NoteEmpty, FrameFree, Threads
  <2>4. MarkHasHolder'
    BY <1>0, <1>21 DEF Tick, EmptyFrame, AckFrame, NoteEmpty, FrameFree, Threads
  <2> QED
    BY <2>1, <2>2, <2>3, <2>4
<1>22. ASSUME RowFrame \/ LastRowFrame PROVE LockInv'
  <2>1. KindSet'
    BY <1>0, <1>22 DEF RowFrame, LastRowFrame, StartBurst, FrameFree, Threads
  <2>2. ScopeHeld'
    BY <1>0, <1>22 DEF RowFrame, LastRowFrame, StartBurst, FrameFree, Threads
  <2>3. NoScope'
    BY <1>0, <1>22 DEF RowFrame, LastRowFrame, StartBurst, FrameFree, Threads
  <2>4. MarkHasHolder'
    BY <1>0, <1>22 DEF RowFrame, LastRowFrame, StartBurst, FrameFree, Threads
  <2> QED
    BY <2>1, <2>2, <2>3, <2>4
<1>23. ASSUME Environment PROVE LockInv'
  <2>1. KindSet'
    <3>1. active' = active /\ kind' = kind
      BY <1>23 DEF Environment, WindowOver, AppAttach, AppDetach, AppRead, HubDrop,
           HubBack
    <3> QED
      BY <3>1
  <2>2. ScopeHeld'
    BY <1>0, <1>23 DEF Environment, WindowOver, AppAttach, AppDetach, AppRead,
         HubDrop, HubBack
  <2>3. NoScope'
    BY <1>0, <1>23 DEF Environment, WindowOver, AppAttach, AppDetach, AppRead,
         HubDrop, HubBack
  <2>4. MarkHasHolder'
    BY <1>0, <1>23 DEF Environment, WindowOver, AppAttach, AppDetach, AppRead,
         HubDrop, HubBack
  <2> QED
    BY <2>1, <2>2, <2>3, <2>4
<1>24. ASSUME UNCHANGED vars PROVE LockInv'
  <2>1. KindSet'
    BY <1>0, <1>24 DEF vars
  <2>2. ScopeHeld'
    BY <1>0, <1>24 DEF vars
  <2>3. NoScope'
    BY <1>0, <1>24 DEF vars
  <2>4. MarkHasHolder'
    BY <1>0, <1>24 DEF vars
  <2> QED
    BY <2>1, <2>2, <2>3, <2>4
<1> QED
  BY <1>1, <1>2, <1>3, <1>4, <1>5, <1>6, <1>7, <1>8, <1>9, <1>10, <1>11, <1>12, <1>13, <1>14, <1>15, <1>16, <1>17, <1>18, <1>19, <1>20, <1>21, <1>22, <1>23, <1>24
     DEF Next, ThreadStep, CallerStep, DrainStep, ExchangeStep, HandleFrame

\* No pseudo-burst outlives the exchange that set it, under any interleaving: the
\* idle tick, which skips it, never leaves the queue stuck behind a stale one.
THEOREM MarkHeld == Spec => []MarkHasHolder
<1>1. Spec => [](TypeInv /\ LockInv)
  BY InitType, InitLock, TypeStep, LockStep, PTL DEF Spec
<1> QED
  BY <1>1, PTL DEF LockInv

-----------------------------------------------------------------------------
(* Requests are neither lost nor sent twice.                               *)

\* No two threads carry the same request.
OwnHands == \A t, u \in Threads : hand[t] = hand[u] /\ hand[t] # NoTicket => t = u

\* A thread takes up a request, or hands its request on.
LEMMA TakeUp ==
  ASSUME hand \in [Threads -> Tickets \cup {NoTicket}], OwnHands,
         NEW t \in Threads, hand[t] = NoTicket, NEW n \in Tickets, n \notin InHand,
         hand' = [hand EXCEPT ![t] = n]
  PROVE  InHand' = InHand \cup {n} /\ OwnHands'
<1>1. n # NoTicket
  BY DEF Tickets, NoTicket
<1>2. \A u \in Threads \ {t} : hand'[u] = hand[u]
  OBVIOUS
<1>3. hand'[t] = n
  OBVIOUS
<1>4. \A u \in Threads : hand[u] # n
  BY <1>1 DEF InHand
<1>5. InHand' = InHand \cup {n}
  BY <1>1, <1>2, <1>3 DEF InHand
<1>6. OwnHands'
  BY <1>2, <1>3, <1>4 DEF OwnHands
<1> QED
  BY <1>5, <1>6

LEMMA HandOn ==
  ASSUME hand \in [Threads -> Tickets \cup {NoTicket}], OwnHands,
         NEW t \in Threads, hand[t] # NoTicket,
         hand' = [hand EXCEPT ![t] = NoTicket]
  PROVE  InHand' = InHand \ {hand[t]} /\ hand[t] \in InHand /\ OwnHands'
<1>1. \A u \in Threads \ {t} : hand'[u] = hand[u] /\ (hand[u] # hand[t])
  BY DEF OwnHands
<1>2. hand'[t] = NoTicket
  OBVIOUS
<1>3. InHand' = InHand \ {hand[t]}
  BY <1>1, <1>2 DEF InHand
<1> QED
  BY <1>1, <1>2, <1>3 DEF InHand, OwnHands

LEMMA InitPlace == Init => EachRequestInOnePlace
BY DEF Init, EachRequestInOnePlace, IsInjective, Range, InHand, Made, NoTicket

LEMMA PlaceStep ==
  TypeInv /\ EachRequestInOnePlace /\ [Next]_vars => EachRequestInOnePlace'
<1> SUFFICES ASSUME TypeInv, EachRequestInOnePlace, [Next]_vars
             PROVE  EachRequestInOnePlace'
  OBVIOUS
<1> DEFINE Queued == Range(queue)
           Wired  == Range(sent)
<1>0. /\ hand \in [Threads -> Tickets \cup {NoTicket}]
      /\ queue \in Seq(Tickets) /\ sent \in Seq(Tickets) /\ requested \in Seq(Kinds)
      /\ \A t \in Threads : pc[t] \in Carrying <=> hand[t] # NoTicket
      /\ OwnHands
  BY DEF TypeInv, TypeOK, LocalType, HistoryType, CarryOK, EachRequestInOnePlace, OwnHands
<1> USE DEF EachRequestInOnePlace
<1>1. ASSUME NEW t \in Threads, NEW k \in Kinds, Request(t, k)
      PROVE  EachRequestInOnePlace'
  <2> DEFINE n == Len(requested) + 1
  <2>1. /\ hand' = [hand EXCEPT ![t] = n] /\ n \in Tickets
        /\ queue' = queue /\ sent' = sent /\ dropped' = dropped
        /\ requested' = Append(requested, k) /\ pc[t] = "out"
    BY <1>1 DEF Request, scheduler
  <2>2. Made' = Made \cup {n} /\ n \notin Made
    <3>1. Made = 1 .. Len(requested) /\ Made' = 1 .. Len(requested) + 1
      <4>1. Len(requested') = Len(requested) + 1 /\ requested' \in Seq(Kinds)
        BY <1>0, <2>1
      <4>2. DOMAIN requested = 1 .. Len(requested)
        BY <1>0
      <4>3. DOMAIN requested' = 1 .. Len(requested')
        BY <4>1
      <4> QED
        BY <4>1, <4>2, <4>3 DEF Made
    <3> QED
      BY <1>0, <3>1
  <2>3. hand[t] = NoTicket
    BY <1>0, <2>1, Places
  <2>4. n \notin Queued /\ n \notin InHand /\ n \notin Wired /\ n \notin dropped
    BY <2>2
  <2>5. InHand' = InHand \cup {n} /\ OwnHands'
    BY <1>0, <2>1, <2>3, <2>4, TakeUp
  <2> QED
    BY <2>1, <2>2, <2>4, <2>5 DEF OwnHands
<1>2. ASSUME NEW t \in Threads, hand[t] # NoTicket,
             hand' = [hand EXCEPT ![t] = NoTicket],
             dropped' = dropped \cup {hand[t]},
             UNCHANGED << queue, sent, requested >>
      PROVE  EachRequestInOnePlace'
  <2>1. InHand' = InHand \ {hand[t]} /\ hand[t] \in InHand /\ OwnHands'
    BY <1>0, <1>2, HandOn
  <2> QED
    BY <1>2, <2>1 DEF OwnHands, Made
<1>3. ASSUME UNCHANGED << hand, queue, sent, dropped, requested >>
      PROVE  EachRequestInOnePlace'
  BY <1>3 DEF InHand, Made
<1>4. ASSUME NEW t \in Threads, Ask(t) PROVE EachRequestInOnePlace'
  <2>1. hand[t] # NoTicket /\ UNCHANGED << queue, sent, requested >>
    BY <1>0, <1>4, Places DEF Ask, scheduler
  <2> QED
    BY <1>2, <1>3, <1>4, <2>1 DEF Ask
<1>5. ASSUME NEW t \in Threads, Item(t) PROVE EachRequestInOnePlace'
  <2>1. hand[t] # NoTicket /\ UNCHANGED << queue, sent, requested >>
    BY <1>0, <1>5, Places DEF Item
  <2> QED
    BY <1>2, <1>3, <1>5, <2>1 DEF Item
<1>6. ASSUME NEW t \in Threads, AppendRequest(t) PROVE EachRequestInOnePlace'
  <2>1. /\ hand[t] # NoTicket /\ hand' = [hand EXCEPT ![t] = NoTicket]
        /\ queue' = Append(queue, hand[t])
        /\ UNCHANGED << sent, dropped, requested >>
    BY <1>0, <1>6, Places DEF AppendRequest, history
  <2>2. InHand' = InHand \ {hand[t]} /\ hand[t] \in InHand /\ OwnHands'
    BY <1>0, <2>1, HandOn
  <2>3. hand[t] \in Tickets
    BY <1>0, <2>1
  <2>4. Queued' = Queued \cup {hand[t]} /\ IsInjective(queue')
    BY <1>0, <2>1, <2>2, <2>3, AppendRange
  <2> QED
    BY <2>1, <2>2, <2>4 DEF OwnHands, Made
<1>7. ASSUME NEW t \in Threads, SendNow(t) \/ DrainSend(t)
      PROVE  EachRequestInOnePlace'
  <2>1. /\ hand[t] # NoTicket /\ hand' = [hand EXCEPT ![t] = NoTicket]
        /\ sent' = Append(sent, hand[t])
        /\ UNCHANGED << queue, dropped, requested >>
    BY <1>0, <1>7, Places DEF SendNow, DrainSend, SendRequest, scheduler
  <2>2. InHand' = InHand \ {hand[t]} /\ hand[t] \in InHand /\ OwnHands'
    BY <1>0, <2>1, HandOn
  <2>3. hand[t] \in Tickets
    BY <1>0, <2>1
  <2>4. Wired' = Wired \cup {hand[t]} /\ IsInjective(sent')
    BY <1>0, <2>1, <2>2, <2>3, AppendRange
  <2> QED
    BY <2>1, <2>2, <2>4 DEF OwnHands, Made
<1>8. ASSUME NEW t \in Threads, Pop(t) PROVE EachRequestInOnePlace'
  <2>1. /\ hand[t] = NoTicket /\ hand' = [hand EXCEPT ![t] = Head(queue)]
        /\ queue # << >> /\ queue' = Tail(queue)
        /\ UNCHANGED << sent, dropped, requested >>
    BY <1>0, <1>8, Places DEF Pop, history
  <2>2. /\ Queued = {Head(queue)} \cup Queued' /\ IsInjective(queue')
        /\ Head(queue) \notin Queued'
    BY <1>0, <2>1, TailRange
  <2>3. Head(queue) \in Tickets /\ Head(queue) \notin InHand
    BY <1>0, <2>1, <2>2
  <2>4. InHand' = InHand \cup {Head(queue)} /\ OwnHands'
    BY <1>0, <2>1, <2>3, TakeUp
  <2> QED
    BY <2>1, <2>2, <2>4 DEF OwnHands, Made
<1>9. ASSUME NEW t \in Threads,
             \/ BeginBurst(t) \/ EndBurst(t) \/ NotifyBurstEnd(t) \/ Loop(t)
             \/ PopEmpty(t) \/ ExchangeStep(t)
      PROVE  UNCHANGED << hand, queue, sent, dropped, requested >>
  BY <1>9 DEF BeginBurst, EndBurst, NotifyBurstEnd, Loop, PopEmpty, StartBurst,
       ExchangeStep, EnterExchange, QuiesceDone, QuiesceTimeout, MarkWire,
       NestExchange, UnnestExchange, SendStep, StepAnswered, StepTimeout,
       LeaveExchange, scheduler, local, history
<1>10. ASSUME Tick \/ HandleFrame \/ Environment \/ UNCHANGED vars
       PROVE  UNCHANGED << hand, queue, sent, dropped, requested >>
  <2>1. CASE Tick \/ HandleFrame
    BY <2>1 DEF Tick, HandleFrame, RowFrame, LastRowFrame, EmptyFrame, AckFrame,
         scheduler, local, history
  <2>2. CASE Environment
    BY <2>2 DEF Environment, WindowOver, AppAttach, AppDetach, AppRead, HubDrop,
         HubBack, scheduler, local, history
  <2> QED
    BY <1>10, <2>1, <2>2 DEF vars, scheduler, local, history
<1> QED
  BY <1>1, <1>3, <1>4, <1>5, <1>6, <1>7, <1>8, <1>9, <1>10
     DEF Next, ThreadStep, CallerStep, DrainStep

\* No interleaving of enqueues, ticks and exchange exits loses a request or puts it
\* on the wire twice, although nothing locks the queue.
THEOREM NoneLostNorDoubled == Spec => []EachRequestInOnePlace
<1>1. Spec => [](TypeInv /\ EachRequestInOnePlace)
  BY InitType, InitPlace, TypeStep, PlaceStep, PTL DEF Spec
<1> QED
  BY <1>1, PTL

-----------------------------------------------------------------------------
(* SerialSpec: what the scheduler and the exchange guard guarantee as long *)
(* as no thread enters a method of the scheduler while another is inside   *)
(* one.  Without that condition QuietWire fails.  The inductive invariants. *)

\* One thread at a time is inside a method.
OneInside == \A t, u \in Threads : pc[t] \in InMethod /\ pc[u] \in InMethod => t = u

\* Where a drain empties the queue of an idle scheduler.
Emptying == {"notify", "loop", "pop", "item", "dsend"}

\* Deferred requests have a burst in front of them or a drain at work.
Emptied == ~active /\ queue # << >> => \E t \in Threads : pc[t] \in Emptying

\* What a thread inside a method knows of the scheduler.
Knows(t) ==
  /\ pc[t] \in {"append", "end"} => active
  /\ pc[t] \in {"begin", "notify", "loop", "pop", "item"} => ~active
  /\ pc[t] \in {"begin", "send"} => queue = << >>
  /\ pc[t] = "end" => t = holder \/ kind # Xchg

SerialInv == OneInside /\ Emptied /\ (\A t \in Threads : Knows(t))

-----------------------------------------------------------------------------
(* A serial step is a step, and leaves the other threads where they are.   *)

LEMMA SerialIsNext == [SerialNext]_vars => [Next]_vars
BY DEF SerialNext, Next

LEMMA SerialHolds ==
  SerialSpec => [](TypeInv /\ LockInv /\ EachRequestInOnePlace)
<1>1. TypeInv /\ LockInv /\ EachRequestInOnePlace /\ [SerialNext]_vars
        => (TypeInv /\ LockInv /\ EachRequestInOnePlace)'
  BY SerialIsNext, TypeStep, LockStep, PlaceStep
<1> QED
  BY <1>1, InitType, InitLock, InitPlace, PTL DEF SerialSpec

\* The places outside the methods, one fact per place.
LEMMA Outside ==
  /\ \A p \in {"out", "quiesce", "body", "await", "dead"} : p \notin InMethod
  /\ \A p \in Enqueueing \cup Draining \cup {"mark"} : p \in InMethod
  /\ \A p \in Emptying : p \in InMethod
BY DEF InMethod, Enqueueing, Draining, Emptying

LEMMA OthersStay ==
  ASSUME TypeInv, NEW t \in Threads, ThreadStep(t)
  PROVE  \A u \in Threads \ {t} : pc'[u] = pc[u]
<1> USE DEF TypeInv, TypeOK, LocalType, Goto, local
<1>1. CASE CallerStep(t)
  BY <1>1 DEF CallerStep, Request, Ask, AppendRequest, BeginBurst, SendNow
<1>2. CASE DrainStep(t)
  BY <1>2 DEF DrainStep, EndBurst, NotifyBurstEnd, Loop, Pop, PopEmpty, Item,
       DrainSend, Return
<1>3. CASE ExchangeStep(t)
  BY <1>3 DEF ExchangeStep, EnterExchange, QuiesceDone, QuiesceTimeout, MarkWire,
       NestExchange, UnnestExchange, SendStep, StepAnswered, StepTimeout,
       LeaveExchange, Return
<1>4. CASE t = Frame /\ (Tick \/ HandleFrame)
  BY <1>4 DEF Tick, HandleFrame, RowFrame, LastRowFrame, EmptyFrame, AckFrame,
       NoteEmpty
<1> QED
  BY <1>1, <1>2, <1>3, <1>4 DEF ThreadStep

LEMMA EnvironmentStays ==
  ASSUME Environment
  PROVE  /\ UNCHANGED << pc, active, kind, queue, holder, hand, requested, sent >>
         /\ UNCHANGED << want, answered >>
BY DEF Environment, WindowOver, AppAttach, AppDetach, AppRead, HubDrop, HubBack,
   scheduler, guard, local, history

LEMMA OneInsideStep ==
  ASSUME TypeInv, OneInside, [SerialNext]_vars PROVE OneInside'
<1>1. CASE \E t \in Threads : Alone(t) /\ ThreadStep(t)
  <2> PICK t \in Threads : Alone(t) /\ ThreadStep(t)
    BY <1>1
  <2>1. \A u \in Threads \ {t} : pc'[u] = pc[u] /\ pc[u] \notin InMethod
    BY OthersStay DEF Alone
  <2> QED
    BY <2>1 DEF OneInside
<1>2. CASE Environment \/ UNCHANGED vars
  BY <1>2, EnvironmentStays DEF vars, local, OneInside
<1> QED
  BY <1>1, <1>2 DEF SerialNext

LEMMA InitSerial == Init => SerialInv
BY DEF Init, SerialInv, OneInside, Emptied, Knows, InMethod, Enqueueing, Draining

LEMMA SerialStep ==
  TypeInv /\ LockInv /\ SerialInv /\ [SerialNext]_vars => SerialInv'
<1> SUFFICES ASSUME TypeInv, LockInv, SerialInv, [SerialNext]_vars PROVE SerialInv'
  OBVIOUS
<1> DEFINE Good == Emptied' /\ \A u \in Threads : Knows(u)'
<1> USE DEF Goto, Knows
<1>0. /\ pc \in [Threads -> Locations] /\ queue \in Seq(Tickets)
      /\ holder \in Writers \cup {NoThread} /\ hub \in Reads \cup {NoKind}
      /\ active \in BOOLEAN
      /\ Frame \in Threads /\ Callers \subseteq Threads /\ Writers \subseteq Threads
      /\ Frame \notin Writers /\ NoThread \notin Writers
      /\ Xchg \notin Reads /\ NoKind \notin Reads /\ NoKind # Xchg
      /\ Tables \subseteq Reads /\ Activities \in Reads /\ Devices \in Reads
      /\ \A t \in Threads : pc[t] = "begin" => requested[hand[t]] \in Reads
  BY ThreadsDistinct, KindsDistinct
     DEF TypeInv, TypeOK, FieldType, GuardType, LocalType, HistoryType, WireType,
         CarryOK, Threads, Reads, Kinds, Catalogs
<1>a. /\ Emptied /\ \A u \in Threads : Knows(u)
      /\ active <=> kind # NoKind
      /\ \A u \in Writers : pc[u] \in InScope => holder = u
  BY DEF SerialInv, LockInv, KindSet, ScopeHeld
\* The other threads are outside, and what they know of the scheduler is nothing.
<1>b. ASSUME NEW t \in Threads, Alone(t), \A u \in Threads \ {t} : pc'[u] = pc[u],
             Knows(t)', Emptied'
      PROVE  Good
  <2> SUFFICES ASSUME NEW u \in Threads \ {t} PROVE Knows(u)'
    BY <1>b
  <2>1. pc'[u] \notin InMethod
    BY <1>b DEF Alone
  <2> QED
    BY <2>1 DEF InMethod, Enqueueing, Draining
<1>c. ASSUME NEW t \in Threads, Alone(t), pc[t] \notin Emptying
      PROVE  active \/ queue = << >>
  BY <1>a, <1>c, Outside DEF Emptied, Alone
<1>1. ASSUME NEW t \in Threads \ Writers, NEW k \in Kinds, Alone(t), Request(t, k)
      PROVE  Good
  <2>1. \A u \in Threads \ {t} : pc'[u] = pc[u]
    BY <1>0, <1>1 DEF Request, local
  <2>2. Knows(t)'
    BY <1>0, <1>a, <1>c, <1>1 DEF Request, Emptying, InScope, scheduler, catalog, guard, local
  <2>3. Emptied'
    BY <1>0, <1>a, <1>c, <1>1 DEF Request, Emptied, Emptying, scheduler, guard, local
  <2> QED
    BY <1>0, <1>b, <1>1, <2>1, <2>2, <2>3
<1>2. ASSUME NEW t \in Threads \ Writers, Alone(t), Ask(t)
      PROVE  Good
  <2>0. \/ pc' = [pc EXCEPT ![t] = "out"]
        \/ pc' = [pc EXCEPT ![t] = "append"] /\ active
        \/ pc' = [pc EXCEPT ![t] = "begin"] /\ ~active
        \/ pc' = [pc EXCEPT ![t] = "send"] /\ ~active
    BY <1>2, AskGoes
  <2>1. /\ UNCHANGED << active, queue, holder, kind >>
        /\ active \/ queue = << >>
    BY <1>c, <1>2 DEF Ask, scheduler, guard, Emptying
  <2>2. Knows(t)' /\ Emptied'
    BY <1>0, <2>0, <2>1 DEF Emptied
  <2>3. \A u \in Threads \ {t} : pc'[u] = pc[u]
    BY <1>0, <2>0
  <2> QED
    BY <1>b, <1>2, <2>2, <2>3
<1>3. ASSUME NEW t \in Threads \ Writers, Alone(t), AppendRequest(t)
      PROVE  Good
  <2>1. \A u \in Threads \ {t} : pc'[u] = pc[u]
    BY <1>0, <1>3 DEF AppendRequest, local
  <2>2. Knows(t)'
    BY <1>0, <1>a, <1>c, <1>3 DEF AppendRequest, Emptying, InScope, scheduler, catalog, guard, local
  <2>3. Emptied'
    BY <1>0, <1>a, <1>c, <1>3 DEF AppendRequest, Emptied, Emptying, scheduler, guard, local
  <2> QED
    BY <1>0, <1>b, <1>3, <2>1, <2>2, <2>3
<1>4. ASSUME NEW t \in Threads \ Writers, Alone(t), BeginBurst(t)
      PROVE  Good
  <2>1. \A u \in Threads \ {t} : pc'[u] = pc[u]
    BY <1>0, <1>4 DEF BeginBurst, StartBurst, local
  <2>2. Knows(t)'
    BY <1>0, <1>a, <1>c, <1>4 DEF BeginBurst, StartBurst, Emptying, InScope, scheduler, catalog, guard, local
  <2>3. Emptied'
    BY <1>0, <1>a, <1>c, <1>4 DEF BeginBurst, StartBurst, Emptied, Emptying, scheduler, guard, local
  <2> QED
    BY <1>0, <1>b, <1>4, <2>1, <2>2, <2>3
<1>5. ASSUME NEW t \in Threads \ Writers, Alone(t), SendNow(t)
      PROVE  Good
  <2>1. \A u \in Threads \ {t} : pc'[u] = pc[u]
    BY <1>0, <1>5 DEF SendNow, local
  <2>2. Knows(t)'
    BY <1>0, <1>a, <1>c, <1>5 DEF SendNow, Emptying, InScope, scheduler, catalog, guard, local
  <2>3. Emptied'
    BY <1>0, <1>a, <1>c, <1>5 DEF SendNow, Emptied, Emptying, scheduler, guard, local
  <2> QED
    BY <1>0, <1>b, <1>5, <2>1, <2>2, <2>3
<1>6. ASSUME NEW t \in Threads \ Callers, Alone(t), EndBurst(t)
      PROVE  Good
  <2>1. \A u \in Threads \ {t} : pc'[u] = pc[u]
    BY <1>0, <1>6 DEF EndBurst, local
  <2>2. Knows(t)'
    BY <1>0, <1>a, <1>c, <1>6 DEF EndBurst, Emptying, InScope, scheduler, catalog, guard, local
  <2>3. Emptied'
    BY <1>0, <1>a, <1>c, <1>6 DEF EndBurst, Emptied, Emptying, scheduler, guard, local
  <2> QED
    BY <1>0, <1>b, <1>6, <2>1, <2>2, <2>3
<1>7. ASSUME NEW t \in Threads \ Callers, Alone(t), NotifyBurstEnd(t)
      PROVE  Good
  <2>1. \A u \in Threads \ {t} : pc'[u] = pc[u]
    BY <1>0, <1>7 DEF NotifyBurstEnd, local
  <2>2. Knows(t)'
    BY <1>0, <1>a, <1>c, <1>7 DEF NotifyBurstEnd, Emptying, InScope, scheduler, catalog, guard, local
  <2>3. Emptied'
    BY <1>0, <1>a, <1>c, <1>7 DEF NotifyBurstEnd, Emptied, Emptying, scheduler, guard, local
  <2> QED
    BY <1>0, <1>b, <1>7, <2>1, <2>2, <2>3
<1>8. ASSUME NEW t \in Threads \ Callers, Alone(t), Loop(t)
      PROVE  Good
  <2>1. \A u \in Threads \ {t} : pc'[u] = pc[u]
    BY <1>0, <1>8 DEF Loop, Return, local
  <2>2. Knows(t)'
    BY <1>0, <1>a, <1>c, <1>8 DEF Loop, Return, Emptying, InScope, scheduler, catalog, guard, local
  <2>3. Emptied'
    BY <1>0, <1>a, <1>c, <1>8 DEF Loop, Return, Emptied, Emptying, scheduler, guard, local
  <2> QED
    BY <1>0, <1>b, <1>8, <2>1, <2>2, <2>3
<1>9. ASSUME NEW t \in Threads \ Callers, Alone(t), Pop(t)
      PROVE  Good
  <2>1. \A u \in Threads \ {t} : pc'[u] = pc[u]
    BY <1>0, <1>9 DEF Pop, local
  <2>2. Knows(t)'
    BY <1>0, <1>a, <1>c, <1>9 DEF Pop, Emptying, InScope, scheduler, catalog, guard, local
  <2>3. Emptied'
    BY <1>0, <1>a, <1>c, <1>9 DEF Pop, Emptied, Emptying, scheduler, guard, local
  <2> QED
    BY <1>0, <1>b, <1>9, <2>1, <2>2, <2>3
<1>10. ASSUME NEW t \in Threads \ Callers, Alone(t), PopEmpty(t)
      PROVE  Good
  <2>1. \A u \in Threads \ {t} : pc'[u] = pc[u]
    BY <1>0, <1>10 DEF PopEmpty, Return, local
  <2>2. Knows(t)'
    BY <1>0, <1>a, <1>c, <1>10 DEF PopEmpty, Return, Emptying, InScope, scheduler, catalog, guard, local
  <2>3. Emptied'
    BY <1>0, <1>a, <1>c, <1>10 DEF PopEmpty, Return, Emptied, Emptying, scheduler, guard, local
  <2> QED
    BY <1>0, <1>b, <1>10, <2>1, <2>2, <2>3
<1>11. ASSUME NEW t \in Threads \ Callers, Alone(t), Item(t)
      PROVE  Good
  <2>1. \A u \in Threads \ {t} : pc'[u] = pc[u]
    BY <1>0, <1>11 DEF Item, StartBurst, local
  <2>2. Knows(t)'
    BY <1>0, <1>a, <1>c, <1>11 DEF Item, StartBurst, Emptying, InScope, scheduler, catalog, guard, local
  <2>3. Emptied'
    BY <1>0, <1>a, <1>c, <1>11 DEF Item, StartBurst, Emptied, Emptying, scheduler, guard, local
  <2> QED
    BY <1>0, <1>b, <1>11, <2>1, <2>2, <2>3
<1>12. ASSUME NEW t \in Threads \ Callers, Alone(t), DrainSend(t)
      PROVE  Good
  <2>1. \A u \in Threads \ {t} : pc'[u] = pc[u]
    BY <1>0, <1>12 DEF DrainSend, Return, local
  <2>2. Knows(t)'
    BY <1>0, <1>a, <1>c, <1>12 DEF DrainSend, Return, Emptying, InScope, scheduler, catalog, guard, local
  <2>3. Emptied'
    BY <1>0, <1>a, <1>c, <1>12 DEF DrainSend, Return, Emptied, Emptying, scheduler, guard, local
  <2> QED
    BY <1>0, <1>b, <1>12, <2>1, <2>2, <2>3
<1>13. ASSUME NEW t \in Writers, Alone(t), EnterExchange(t)
      PROVE  Good
  <2>1. \A u \in Threads \ {t} : pc'[u] = pc[u]
    BY <1>0, <1>13 DEF EnterExchange, local
  <2>2. Knows(t)'
    BY <1>0, <1>a, <1>c, <1>13 DEF EnterExchange, Emptying, InScope, scheduler, catalog, guard, local
  <2>3. Emptied'
    BY <1>0, <1>a, <1>c, <1>13 DEF EnterExchange, Emptied, Emptying, scheduler, guard, local
  <2> QED
    BY <1>0, <1>b, <1>13, <2>1, <2>2, <2>3
<1>14. ASSUME NEW t \in Writers, Alone(t), QuiesceDone(t) \/ QuiesceTimeout(t)
      PROVE  Good
  <2>1. \A u \in Threads \ {t} : pc'[u] = pc[u]
    BY <1>0, <1>14 DEF QuiesceDone, QuiesceTimeout, local
  <2>2. Knows(t)'
    BY <1>0, <1>a, <1>c, <1>14 DEF QuiesceDone, QuiesceTimeout, Emptying, InScope, scheduler, catalog, guard, local
  <2>3. Emptied'
    BY <1>0, <1>a, <1>c, <1>14 DEF QuiesceDone, QuiesceTimeout, Emptied, Emptying, scheduler, guard, local
  <2> QED
    BY <1>0, <1>b, <1>14, <2>1, <2>2, <2>3
<1>15. ASSUME NEW t \in Writers, Alone(t), MarkWire(t)
      PROVE  Good
  <2>1. \A u \in Threads \ {t} : pc'[u] = pc[u]
    BY <1>0, <1>15 DEF MarkWire, StartBurst, local
  <2>2. Knows(t)'
    BY <1>0, <1>a, <1>c, <1>15 DEF MarkWire, StartBurst, Emptying, InScope, scheduler, catalog, guard, local
  <2>3. Emptied'
    BY <1>0, <1>a, <1>c, <1>15 DEF MarkWire, StartBurst, Emptied, Emptying, scheduler, guard, local
  <2> QED
    BY <1>0, <1>b, <1>15, <2>1, <2>2, <2>3
<1>16. ASSUME NEW t \in Writers, Alone(t), NestExchange(t) \/ UnnestExchange(t)
      PROVE  Good
  <2>1. \A u \in Threads \ {t} : pc'[u] = pc[u]
    BY <1>0, <1>16 DEF NestExchange, UnnestExchange, local
  <2>2. Knows(t)'
    BY <1>0, <1>a, <1>c, <1>16 DEF NestExchange, UnnestExchange, Emptying, InScope, scheduler, catalog, guard, local
  <2>3. Emptied'
    BY <1>0, <1>a, <1>c, <1>16 DEF NestExchange, UnnestExchange, Emptied, Emptying, scheduler, guard, local
  <2> QED
    BY <1>0, <1>b, <1>16, <2>1, <2>2, <2>3
<1>17. ASSUME NEW t \in Writers, Alone(t), NEW k \in {Plain} \cup RowTables,
             SendStep(t, k)
      PROVE  Good
  <2>1. \A u \in Threads \ {t} : pc'[u] = pc[u]
    BY <1>0, <1>17 DEF SendStep, local
  <2>2. Knows(t)'
    BY <1>0, <1>a, <1>c, <1>17 DEF SendStep, Emptying, InScope, scheduler, catalog, guard, local
  <2>3. Emptied'
    BY <1>0, <1>a, <1>c, <1>17 DEF SendStep, Emptied, Emptying, scheduler, guard, local
  <2> QED
    BY <1>0, <1>b, <1>17, <2>1, <2>2, <2>3
<1>18. ASSUME NEW t \in Writers, Alone(t), StepAnswered(t) \/ StepTimeout(t)
      PROVE  Good
  <2>1. \A u \in Threads \ {t} : pc'[u] = pc[u]
    BY <1>0, <1>18 DEF StepAnswered, StepTimeout, local
  <2>2. Knows(t)'
    BY <1>0, <1>a, <1>c, <1>18 DEF StepAnswered, StepTimeout, Emptying, InScope, scheduler, catalog, guard, local
  <2>3. Emptied'
    BY <1>0, <1>a, <1>c, <1>18 DEF StepAnswered, StepTimeout, Emptied, Emptying, scheduler, guard, local
  <2> QED
    BY <1>0, <1>b, <1>18, <2>1, <2>2, <2>3
<1>19. ASSUME NEW t \in Writers, Alone(t), LeaveExchange(t)
      PROVE  Good
  <2>1. \A u \in Threads \ {t} : pc'[u] = pc[u]
    BY <1>0, <1>19 DEF LeaveExchange, Return, local
  <2>2. Knows(t)'
    BY <1>0, <1>a, <1>c, <1>19 DEF LeaveExchange, Return, Emptying, InScope, scheduler, catalog, guard, local
  <2>3. Emptied'
    BY <1>0, <1>a, <1>c, <1>19 DEF LeaveExchange, Return, Emptied, Emptying, scheduler, guard, local
  <2> QED
    BY <1>0, <1>b, <1>19, <2>1, <2>2, <2>3
<1>20. ASSUME Alone(Frame),
             Tick \/ EmptyFrame \/ (\E empty \in BOOLEAN : AckFrame(empty))
      PROVE  Good
  <2>1. \A u \in Threads \ {Frame} : pc'[u] = pc[u]
    BY <1>0, <1>20 DEF Tick, EmptyFrame, AckFrame, NoteEmpty, EmptyFinishes, FrameFree, local
  <2>2. Knows(Frame)'
    BY <1>0, <1>a, <1>c, <1>20 DEF Tick, EmptyFrame, AckFrame, NoteEmpty, EmptyFinishes, FrameFree, Emptying, InScope, scheduler, catalog, guard, local
  <2>3. Emptied'
    BY <1>0, <1>a, <1>c, <1>20 DEF Tick, EmptyFrame, AckFrame, NoteEmpty, EmptyFinishes, FrameFree, Emptied, Emptying, scheduler, guard, local
  <2> QED
    BY <1>0, <1>b, <1>20, <2>1, <2>2, <2>3
<1>21. ASSUME Alone(Frame), RowFrame \/ LastRowFrame
      PROVE  Good
  <2>1. \A u \in Threads \ {Frame} : pc'[u] = pc[u]
    BY <1>0, <1>21 DEF RowFrame, LastRowFrame, StartBurst, FrameFree, local
  <2>2. Knows(Frame)'
    BY <1>0, <1>a, <1>c, <1>21 DEF RowFrame, LastRowFrame, StartBurst, FrameFree, Emptying, InScope, scheduler, catalog, guard, local
  <2>3. Emptied'
    BY <1>0, <1>a, <1>c, <1>21 DEF RowFrame, LastRowFrame, StartBurst, FrameFree, Emptied, Emptying, scheduler, guard, local
  <2> QED
    BY <1>0, <1>b, <1>21, <2>1, <2>2, <2>3
<1>22. ASSUME Environment \/ UNCHANGED vars
      PROVE  Good
  <2>1. UNCHANGED << pc, active, kind, queue, holder >>
    BY <1>22, EnvironmentStays DEF vars, scheduler, guard, local
  <2> QED
    BY <1>a, <2>1 DEF Emptied
<1> QED
  <2>1. Good
    BY <1>1, <1>2, <1>3, <1>4, <1>5, <1>6, <1>7, <1>8, <1>9, <1>10, <1>11, <1>12, <1>13, <1>14, <1>15, <1>16, <1>17, <1>18, <1>19, <1>20, <1>21, <1>22
       DEF SerialNext, ThreadStep, CallerStep, DrainStep, ExchangeStep, HandleFrame
  <2> QED
    BY <2>1, OneInsideStep DEF SerialInv

\* Deferred requests are never stranded behind an idle scheduler.
THEOREM IdleIsDrained == SerialSpec => []IdleMeansDrained
<1>1. SerialSpec => []SerialInv
  BY SerialHolds, InitSerial, SerialStep, PTL DEF SerialSpec
<1>2. SerialInv => IdleMeansDrained
  BY Outside DEF SerialInv, Emptied, IdleMeansDrained
<1> QED
  BY <1>1, <1>2, PTL

-----------------------------------------------------------------------------
(* The exchange keeps the wire.                                            *)

\* Neither the idle tick, nor a 0x07, nor a deferred request ends a pseudo-burst.
LEMMA KeepStep ==
  TypeInv /\ LockInv /\ SerialInv /\ [SerialNext]_vars
    => (~disturbed' => OnlyItsOwnerEnds)
<1> SUFFICES ASSUME TypeInv, LockInv, SerialInv, [SerialNext]_vars, ~disturbed',
                    kind = Xchg, kind' # Xchg
             PROVE  pc[holder] = "end"
  BY DEF OnlyItsOwnerEnds
<1>0. /\ \A t \in Threads : Knows(t)
      /\ active /\ NoKind # Xchg
      /\ Frame \in Threads /\ Callers \subseteq Threads /\ Writers \subseteq Threads
  BY KindsDistinct DEF SerialInv, LockInv, KindSet, Threads
<1>1. ASSUME NEW t \in Threads, CallerStep(t) PROVE pc[holder] = "end"
  BY <1>0, <1>1 DEF CallerStep, Request, Ask, AppendRequest, BeginBurst, SendNow, Knows,
       scheduler
<1>2. ASSUME NEW t \in Threads, DrainStep(t) PROVE pc[holder] = "end"
  BY <1>0, <1>2 DEF DrainStep, EndBurst, NotifyBurstEnd, Loop, Pop, PopEmpty, Item,
       DrainSend, Knows, scheduler
<1>3. ASSUME NEW t \in Threads, ExchangeStep(t) PROVE pc[holder] = "end"
  BY <1>0, <1>3 DEF ExchangeStep, EnterExchange, QuiesceDone, QuiesceTimeout, MarkWire,
       NestExchange, UnnestExchange, SendStep, StepAnswered, StepTimeout,
       LeaveExchange, StartBurst, scheduler
<1>4. ASSUME Tick \/ HandleFrame PROVE pc[holder] = "end"
  BY <1>0, <1>4 DEF Tick, HandleFrame, RowFrame, LastRowFrame, EmptyFrame, AckFrame,
       Disturb, scheduler
<1>5. ASSUME Environment \/ UNCHANGED vars PROVE pc[holder] = "end"
  BY <1>5, EnvironmentStays DEF vars, scheduler
<1> QED
  BY <1>1, <1>2, <1>3, <1>4, <1>5 DEF SerialNext, ThreadStep

\* On a wire that is undisturbed a pseudo-burst ends only when its exchange leaves.
THEOREM WireIsKept == SerialSpec => ExchangeKeepsWire
<1>1. SerialSpec => [](TypeInv /\ LockInv /\ SerialInv)
  BY SerialHolds, InitSerial, SerialStep, PTL DEF SerialSpec
<1>2. TypeInv /\ LockInv /\ SerialInv /\ [SerialNext]_vars
        => [~disturbed' => OnlyItsOwnerEnds]_vars
  BY KeepStep
<1> QED
  BY <1>1, <1>2, PTL DEF SerialSpec, ExchangeKeepsWire

-----------------------------------------------------------------------------
(* First come, first sent.                                                 *)

Increasing(s) == \A i, j \in DOMAIN s : i < j => s[i] < s[j]
Below(A, B)   == \A a \in A, b \in B : a < b

\* sent < the request a drain carries < queue < the request being enqueued.
CarriedInOrder(t) ==
  hand[t] # NoTicket =>
    /\ Below(Range(sent), {hand[t]})
    /\ pc[t] \in Enqueueing => Below(Range(queue), {hand[t]})
    /\ pc[t] \in {"item", "dsend"} => Below({hand[t]}, Range(queue))
OrderInv ==
  /\ Increasing(queue) /\ Increasing(sent)
  /\ Below(Range(sent), Range(queue))
  /\ \A t \in Threads : CarriedInOrder(t)

LEMMA AppendIncreasing ==
  ASSUME NEW s \in Seq(Tickets), NEW e \in Tickets, Increasing(s),
         Below(Range(s), {e})
  PROVE  Increasing(Append(s, e))
<1>1. /\ DOMAIN s = 1 .. Len(s) /\ Len(s) \in Nat
      /\ DOMAIN Append(s, e) = 1 .. Len(s) + 1
      /\ Append(s, e)[Len(s) + 1] = e
      /\ \A i \in 1 .. Len(s) : Append(s, e)[i] = s[i]
  OBVIOUS
<1> SUFFICES ASSUME NEW i \in 1 .. Len(s) + 1, NEW j \in 1 .. Len(s) + 1, i < j
             PROVE  Append(s, e)[i] < Append(s, e)[j]
  BY <1>1 DEF Increasing
<1>2. i \in 1 .. Len(s) /\ (j \in 1 .. Len(s) \/ j = Len(s) + 1)
  BY <1>1
<1>3. CASE j \in 1 .. Len(s)
  BY <1>1, <1>2, <1>3 DEF Increasing
<1>4. CASE j = Len(s) + 1
  <2>1. s[i] \in Range(s)
    BY <1>1, <1>2 DEF Range
  <2> QED
    BY <1>1, <1>2, <1>4, <2>1 DEF Below
<1> QED
  BY <1>2, <1>3, <1>4

LEMMA TailIncreasing ==
  ASSUME NEW s \in Seq(Tickets), s # << >>, Increasing(s)
  PROVE  Increasing(Tail(s)) /\ Below({Head(s)}, Range(Tail(s)))
<1>1. /\ DOMAIN s = 1 .. Len(s) /\ Len(s) \in Nat \ {0}
      /\ Head(s) = s[1] /\ DOMAIN Tail(s) = 1 .. Len(s) - 1
      /\ \A i \in 1 .. Len(s) - 1 : Tail(s)[i] = s[i + 1]
  OBVIOUS
<1>2. \A i \in 1 .. Len(s) - 1 : i + 1 \in 1 .. Len(s) /\ 1 < i + 1
  BY <1>1
<1>3. \A i, j \in 1 .. Len(s) - 1 : i < j => i + 1 < j + 1
  BY <1>1
<1>4. Increasing(Tail(s))
  BY <1>1, <1>2, <1>3 DEF Increasing
<1>5. 1 \in 1 .. Len(s)
  BY <1>1
<1>6. Below({Head(s)}, Range(Tail(s)))
  BY <1>1, <1>2, <1>5 DEF Below, Range, Increasing
<1> QED
  BY <1>4, <1>6

LEMMA InitOrder == Init => OrderInv
BY DEF Init, OrderInv, Increasing, Below, CarriedInOrder, Range

LEMMA OrderStep ==
  TypeInv /\ EachRequestInOnePlace /\ SerialInv /\ OrderInv /\ [SerialNext]_vars
    => OrderInv'
<1> SUFFICES ASSUME TypeInv, EachRequestInOnePlace, SerialInv, OrderInv,
                    [SerialNext]_vars
             PROVE  OrderInv'
  OBVIOUS
<1>0. /\ hand \in [Threads -> Tickets \cup {NoTicket}] /\ pc \in [Threads -> Locations]
      /\ queue \in Seq(Tickets) /\ sent \in Seq(Tickets) /\ requested \in Seq(Kinds)
      /\ \A t \in Threads : pc[t] \in Carrying <=> hand[t] # NoTicket
      /\ \A p \in Carrying : p \in InMethod
      /\ Increasing(queue) /\ Increasing(sent)
      /\ Below(Range(sent), Range(queue))
      /\ \A t \in Threads : CarriedInOrder(t)
      /\ Frame \in Threads /\ Callers \subseteq Threads /\ Writers \subseteq Threads
  BY Outside
     DEF TypeInv, TypeOK, LocalType, HistoryType, CarryOK, OrderInv, Threads, Carrying,
         Draining, Enqueueing
\* Nobody else carries a request.
<1>1. ASSUME NEW t \in Threads, Alone(t), NEW where, NEW n,
             pc' = [pc EXCEPT ![t] = where], hand' = [hand EXCEPT ![t] = n],
             CarriedInOrder(t)'
      PROVE  \A u \in Threads : CarriedInOrder(u)'
  BY <1>0, <1>1 DEF CarriedInOrder, Alone
<1>2. ASSUME NEW t \in Threads, NEW k \in Kinds, Alone(t), Request(t, k)
      PROVE  OrderInv'
  <2>1. /\ pc' = [pc EXCEPT ![t] = "ask"]
        /\ hand' = [hand EXCEPT ![t] = Len(requested) + 1]
        /\ queue' = queue /\ sent' = sent
    BY <1>2 DEF Request, Goto, scheduler
  <2>2. Range(sent) \subseteq Made /\ Range(queue) \subseteq Made
    BY DEF EachRequestInOnePlace
  <2>3. \A n \in Made : n < Len(requested) + 1
    BY <1>0 DEF Made
  <2>4. CarriedInOrder(t)'
    BY <1>0, <2>1, <2>2, <2>3 DEF CarriedInOrder, Below
  <2>5. \A u \in Threads : CarriedInOrder(u)'
    BY <1>1, <1>2, <2>1, <2>4
  <2> QED
    BY <1>0, <2>1, <2>5 DEF OrderInv
<1>3. ASSUME NEW t \in Threads, Alone(t), NEW where, where \notin Carrying,
             UNCHANGED << queue, sent >>,
             pc' = [pc EXCEPT ![t] = where], hand' = [hand EXCEPT ![t] = NoTicket]
      PROVE  OrderInv'
  <2>1. CarriedInOrder(t)'
    BY <1>0, <1>3 DEF CarriedInOrder
  <2>2. \A u \in Threads : CarriedInOrder(u)'
    BY <1>1, <1>3, <2>1
  <2> QED
    BY <1>0, <1>3, <2>2 DEF OrderInv
<1>4. ASSUME NEW t \in Threads, Alone(t), NEW where,
             \/ pc[t] \in Enqueueing /\ where \in Enqueueing
             \/ pc[t] = "item" /\ where = "dsend",
             UNCHANGED << queue, sent, hand >>, pc' = [pc EXCEPT ![t] = where]
      PROVE  OrderInv'
  <2>1. hand' = [hand EXCEPT ![t] = hand[t]]
    BY <1>0, <1>4
  <2>2. CarriedInOrder(t)'
    BY <1>0, <1>4 DEF CarriedInOrder, Enqueueing
  <2>3. \A u \in Threads : CarriedInOrder(u)'
    BY <1>1, <1>4, <2>1, <2>2
  <2> QED
    BY <1>0, <1>4, <2>3 DEF OrderInv
<1>5. ASSUME NEW t \in Threads, Alone(t), Ask(t) PROVE OrderInv'
  <2>1. UNCHANGED << queue, sent >> /\ pc[t] \in Enqueueing
    BY <1>5 DEF Ask, scheduler, Enqueueing
  <2>2. \A p \in {"append", "begin", "send"} : p \in Enqueueing
    BY DEF Enqueueing
  <2> QED
    BY <1>3, <1>4, <1>5, <2>1, <2>2, AskGoes, Places
<1>6. ASSUME NEW t \in Threads, Alone(t), Item(t) PROVE OrderInv'
  <2>1. UNCHANGED << queue, sent >> /\ pc[t] = "item"
    BY <1>6 DEF Item
  <2>2. \/ pc' = [pc EXCEPT ![t] = "loop"] /\ hand' = [hand EXCEPT ![t] = NoTicket]
        \/ pc' = [pc EXCEPT ![t] = "dsend"] /\ hand' = hand
    BY <1>6 DEF Item, Goto
  <2> QED
    BY <1>3, <1>4, <1>6, <2>1, <2>2, Places
<1>7. ASSUME NEW t \in Threads, Alone(t), BeginBurst(t) PROVE OrderInv'
  <2>1. /\ UNCHANGED << queue, sent, hand >> /\ pc[t] \in Enqueueing
        /\ pc' = [pc EXCEPT ![t] = "send"] /\ "send" \in Enqueueing
    BY <1>7 DEF BeginBurst, Goto, history, Enqueueing
  <2> QED
    BY <1>4, <1>7, <2>1
<1>8. ASSUME NEW t \in Threads, Alone(t), AppendRequest(t) PROVE OrderInv'
  <2>1. /\ pc[t] = "append" /\ pc' = [pc EXCEPT ![t] = "out"]
        /\ hand' = [hand EXCEPT ![t] = NoTicket]
        /\ queue' = Append(queue, hand[t]) /\ sent' = sent
    BY <1>8 DEF AppendRequest, Goto, history
  <2>2. hand[t] \in Tickets /\ hand[t] # NoTicket
    BY <1>0, <2>1, Places
  <2>3. Below(Range(queue), {hand[t]}) /\ Below(Range(sent), {hand[t]})
    BY <1>0, <2>1, <2>2 DEF CarriedInOrder, Enqueueing
  <2>4. Increasing(queue') /\ Range(queue') = Range(queue) \cup {hand[t]}
    BY <1>0, <2>1, <2>2, <2>3, AppendIncreasing, AppendRange
  <2>5. Below(Range(sent), Range(queue'))
    BY <1>0, <2>3, <2>4 DEF Below
  <2>6. CarriedInOrder(t)'
    BY <1>0, <2>1 DEF CarriedInOrder
  <2>7. \A u \in Threads : CarriedInOrder(u)'
    BY <1>1, <1>8, <2>1, <2>6
  <2> QED
    BY <1>0, <2>1, <2>4, <2>5, <2>7 DEF OrderInv
<1>9. ASSUME NEW t \in Threads, Alone(t), SendNow(t) \/ DrainSend(t) PROVE OrderInv'
  <2>1. /\ pc[t] \in {"send", "dsend"} /\ hand' = [hand EXCEPT ![t] = NoTicket]
        /\ pc' = [pc EXCEPT ![t] = "out"] \/ pc' = [pc EXCEPT ![t] = "loop"]
        /\ sent' = Append(sent, hand[t]) /\ queue' = queue
    BY <1>9 DEF SendNow, DrainSend, SendRequest, Return, Goto, scheduler
  <2>2. hand[t] \in Tickets /\ hand[t] # NoTicket
    BY <1>0, <2>1, Places
  <2>3. Below(Range(sent), {hand[t]})
    BY <1>0, <2>2 DEF CarriedInOrder
  <2>4. Increasing(sent') /\ Range(sent') = Range(sent) \cup {hand[t]}
    BY <1>0, <2>1, <2>2, <2>3, AppendIncreasing, AppendRange
  <2>5. Below({hand[t]}, Range(queue))
    <3>1. CASE pc[t] = "send"
      BY <3>1 DEF SerialInv, Knows, Below, Range
    <3>2. CASE pc[t] = "dsend"
      BY <1>0, <2>2, <3>2 DEF CarriedInOrder
    <3> QED
      BY <2>1, <3>1, <3>2
  <2>6. Below(Range(sent'), Range(queue))
    BY <1>0, <2>4, <2>5 DEF Below
  <2>7. CarriedInOrder(t)'
    BY <1>0, <2>1 DEF CarriedInOrder
  <2>8. \A u \in Threads : CarriedInOrder(u)'
    BY <1>1, <1>9, <2>1, <2>7
  <2> QED
    BY <1>0, <2>1, <2>4, <2>6, <2>8 DEF OrderInv
<1>10. ASSUME NEW t \in Threads, Alone(t), Pop(t) PROVE OrderInv'
  <2>1. /\ pc' = [pc EXCEPT ![t] = "item"] /\ hand' = [hand EXCEPT ![t] = Head(queue)]
        /\ queue # << >> /\ queue' = Tail(queue) /\ sent' = sent
    BY <1>10 DEF Pop, Goto, history
  <2>2. Increasing(queue') /\ Below({Head(queue)}, Range(queue'))
    BY <1>0, <2>1, TailIncreasing
  <2>3. Range(queue) = {Head(queue)} \cup Range(queue')
    BY <1>0, <2>1, TailRange
  <2>4. /\ Below(Range(sent), {Head(queue)})
        /\ Below(Range(sent), Range(queue'))
    BY <1>0, <2>3 DEF Below
  <2>5. CarriedInOrder(t)'
    BY <1>0, <2>1, <2>2, <2>4 DEF CarriedInOrder, Enqueueing
  <2>6. \A u \in Threads : CarriedInOrder(u)'
    BY <1>1, <1>10, <2>1, <2>5
  <2> QED
    BY <1>0, <2>1, <2>2, <2>4, <2>6 DEF OrderInv
\* Every other step leaves the requests where they are.
<1>11. ASSUME NEW t \in Threads, Alone(t), ThreadStep(t),
              UNCHANGED << queue, sent, hand >>, hand[t] = NoTicket
       PROVE  OrderInv'
  <2>1. ASSUME NEW u \in Threads PROVE CarriedInOrder(u)'
    <3>1. CASE u = t
      BY <1>11, <3>1 DEF CarriedInOrder
    <3>2. CASE u # t
      BY <1>0, <1>11, <3>2, OthersStay DEF CarriedInOrder
    <3> QED
      BY <3>1, <3>2
  <2> QED
    BY <1>0, <1>11, <2>1 DEF OrderInv
<1>12. ASSUME NEW t \in Threads,
              \/ EndBurst(t) \/ NotifyBurstEnd(t) \/ Loop(t) \/ PopEmpty(t)
              \/ ExchangeStep(t)
       PROVE  UNCHANGED << queue, sent, hand >> /\ hand[t] = NoTicket
  <2>1. UNCHANGED << queue, sent, hand >>
    BY <1>12
       DEF EndBurst, NotifyBurstEnd, Loop, PopEmpty, StartBurst, ExchangeStep,
           EnterExchange, QuiesceDone, QuiesceTimeout, MarkWire, NestExchange,
           UnnestExchange, SendStep, StepAnswered, StepTimeout, LeaveExchange,
           scheduler, local, history
  <2>2. pc[t] \in {"out", "end", "notify", "loop", "pop", "mark", "quiesce", "body",
                  "await"}
    BY <1>12
       DEF EndBurst, NotifyBurstEnd, Loop, PopEmpty, ExchangeStep, EnterExchange,
           QuiesceDone, QuiesceTimeout, MarkWire, NestExchange, UnnestExchange,
           SendStep, StepAnswered, StepTimeout, LeaveExchange
  <2> QED
    BY <1>0, <2>1, <2>2, Places
<1>13. ASSUME Tick \/ HandleFrame
       PROVE  UNCHANGED << queue, sent, hand >> /\ hand[Frame] = NoTicket
  <2>1. UNCHANGED << queue, sent, hand >> /\ pc[Frame] = "out"
    BY <1>13 DEF Tick, HandleFrame, RowFrame, LastRowFrame, EmptyFrame, AckFrame,
         FrameFree, scheduler, local, history
  <2> QED
    BY <1>0, <2>1, Places
<1>14. ASSUME Environment \/ UNCHANGED vars PROVE OrderInv'
  <2>1. UNCHANGED << pc, queue, sent, hand >>
    BY <1>14, EnvironmentStays DEF vars, scheduler, local, history
  <2> QED
    BY <1>0, <2>1 DEF OrderInv, CarriedInOrder
<1>15. ASSUME NEW t \in Threads, Alone(t), ThreadStep(t) PROVE OrderInv'
  <2>1. CASE CallerStep(t)
    BY <1>2, <1>5, <1>7, <1>8, <1>9, <1>15, <2>1 DEF CallerStep
  <2>2. CASE DrainStep(t)
    BY <1>6, <1>9, <1>10, <1>11, <1>12, <1>15, <2>2 DEF DrainStep
  <2>3. CASE ExchangeStep(t)
    BY <1>11, <1>12, <1>15, <2>3
  <2>4. CASE t = Frame /\ (Tick \/ HandleFrame)
    BY <1>11, <1>13, <1>15, <2>4
  <2> QED
    BY <1>15, <2>1, <2>2, <2>3, <2>4 DEF ThreadStep
<1> QED
  BY <1>14, <1>15 DEF SerialNext

\* Requests reach the wire in the order they were made.
THEOREM InOrder == SerialSpec => []SentInOrder
<1>1. SerialSpec => [](TypeInv /\ EachRequestInOnePlace /\ SerialInv /\ OrderInv)
  BY SerialHolds, InitSerial, SerialStep, InitOrder, OrderStep, PTL DEF SerialSpec
<1>2. OrderInv => SentInOrder
  BY DEF OrderInv, Increasing, SentInOrder
<1> QED
  BY <1>1, <1>2, PTL

-----------------------------------------------------------------------------
(* A quiet wire.                                                           *)

\* The hub owes nothing; it streams the table of the burst, in its window; or it
\* owes the holder of the wire the answer of the step it awaits.
Silent    == hub = NoKind /\ ~owes
Streaming == hub # NoKind /\ ~owes /\ active /\ kind = hub /\ ~lull
Serving   ==
  /\ kind = Xchg /\ pc[holder] = "await" /\ ~answered
  /\ \/ owes /\ hub = NoKind /\ want = Plain
     \/ ~owes /\ hub # NoKind /\ want = hub

WireOK == Silent \/ Streaming \/ Serving

\* A method that is past its first look at the scheduler knows the wire is silent;
\* one about to send a read has opened its burst.
Quiet(t) ==
  /\ pc[t] \in InMethod \ {"ask", "append"} => Silent
  /\ pc[t] \in {"send", "dsend"} /\ requested[hand[t]] \in Reads
       => active /\ kind = requested[hand[t]] /\ ~lull

Marked == \A t \in Writers : pc[t] \in {"body", "await"} => kind = Xchg

QuietInv == ~disturbed => ~lost /\ WireOK /\ Marked /\ \A t \in Threads : Quiet(t)

LEMMA InitQuiet == Init => QuietInv
BY DEF Init, QuietInv, WireOK, Silent, Quiet, Marked, InMethod, Enqueueing, Draining,
   Threads

\* The disturbance is never taken back.
LEMMA DisturbedStays == [SerialNext]_vars => (disturbed => disturbed')
<1> SUFFICES ASSUME [SerialNext]_vars, disturbed PROVE disturbed'
  OBVIOUS
<1>1. ASSUME NEW t \in Threads, CallerStep(t) PROVE disturbed'
  BY <1>1 DEF CallerStep, Request, Ask, AppendRequest, BeginBurst, SendNow, wire
<1>2. ASSUME NEW t \in Threads, DrainStep(t) PROVE disturbed'
  BY <1>2 DEF DrainStep, EndBurst, NotifyBurstEnd, Loop, Pop, PopEmpty, Item,
       DrainSend, wire
<1>3. ASSUME NEW t \in Threads, ExchangeStep(t) PROVE disturbed'
  BY <1>3 DEF ExchangeStep, EnterExchange, QuiesceDone, QuiesceTimeout, MarkWire,
       NestExchange, UnnestExchange, SendStep, StepAnswered, StepTimeout,
       LeaveExchange, Disturb, wire
<1>4. ASSUME Tick \/ HandleFrame PROVE disturbed'
  BY <1>4 DEF Tick, HandleFrame, RowFrame, LastRowFrame, EmptyFrame, AckFrame, Disturb,
       wire
<1>5. ASSUME Environment \/ UNCHANGED vars PROVE disturbed'
  BY <1>5 DEF Environment, WindowOver, AppAttach, AppDetach, AppRead, HubDrop, HubBack,
       Disturb, vars, wire
<1> QED
  BY <1>1, <1>2, <1>3, <1>4, <1>5 DEF SerialNext, ThreadStep

LEMMA QuietStep ==
  TypeInv /\ LockInv /\ SerialInv /\ QuietInv /\ [SerialNext]_vars => QuietInv'
<1> SUFFICES ASSUME TypeInv, LockInv, SerialInv, QuietInv, [SerialNext]_vars,
                    ~disturbed'
             PROVE  ~lost' /\ WireOK' /\ Marked' /\ \A t \in Threads : Quiet(t)'
  BY DEF QuietInv
<1> DEFINE Good == ~lost' /\ WireOK' /\ Marked' /\ \A t \in Threads : Quiet(t)'
<1> USE DEF Goto
<1>0. /\ pc \in [Threads -> Locations]
      /\ hand \in [Threads -> Tickets \cup {NoTicket}]
      /\ holder \in Writers \cup {NoThread} /\ hub \in Reads \cup {NoKind}
      /\ kind \in Reads \cup {Xchg, NoKind} /\ active \in BOOLEAN
      /\ owes \in BOOLEAN /\ lull \in BOOLEAN /\ answered \in BOOLEAN
      /\ Frame \in Threads /\ Callers \subseteq Threads /\ Writers \subseteq Threads
      /\ Frame \notin Writers /\ NoThread \notin Writers
      /\ Xchg \notin Reads /\ NoKind \notin Reads /\ NoKind # Xchg
      /\ Plain \notin Reads /\ RowTables \subseteq Reads
      /\ Tables \subseteq Reads /\ Activities \in Reads /\ Devices \in Reads
      /\ \A t \in Threads : pc[t] = "begin" => requested[hand[t]] \in Reads
  BY ThreadsDistinct, KindsDistinct
     DEF TypeInv, TypeOK, FieldType, GuardType, LocalType, HistoryType, WireType,
         CarryOK, Threads, Reads, Kinds, Catalogs
<1>a. /\ ~lost /\ WireOK /\ Marked /\ \A t \in Threads : Quiet(t)
      /\ active <=> kind # NoKind
      /\ \A t \in Threads : Knows(t)
      /\ \A t \in Writers : pc[t] \in {"quiesce", "mark", "body", "await"} => holder = t
      /\ kind = Xchg => holder \in Writers /\ pc[holder] \in {"body", "await", "end"}
      /\ kind = Xchg /\ kind' # Xchg => pc[holder] = "end"
  <2>1. ~disturbed
    BY DisturbedStays
  <2>2. kind = Xchg => holder \in Writers
    BY <1>0 DEF LockInv, MarkHasHolder
  <2> QED
    BY <2>1, <2>2, KeepStep
       DEF QuietInv, SerialInv, LockInv, KindSet, ScopeHeld, MarkHasHolder, InScope,
           OnlyItsOwnerEnds
\* The other threads are outside the methods, and stay there.
<1>b. ASSUME NEW t \in Threads, Alone(t), \A u \in Threads \ {t} : pc'[u] = pc[u],
             ~lost', WireOK', Marked', Quiet(t)'
      PROVE  Good
  <2> SUFFICES ASSUME NEW u \in Threads \ {t} PROVE Quiet(u)'
    BY <1>b
  <2>1. pc'[u] \notin InMethod
    BY <1>b DEF Alone
  <2> QED
    BY <2>1 DEF Quiet, InMethod, Enqueueing, Draining
<1>1. ASSUME NEW t \in Threads \ Writers, Alone(t), NEW k \in Kinds, Request(t, k)
      PROVE  Good
  <2>1. \A u \in Threads \ {t} : pc'[u] = pc[u]
    BY <1>0, <1>a, <1>1 DEF Request, local
  <2>2. ~lost'
    BY <1>0, <1>a, <1>1, Outside DEF Request, Quiet, Silent, WireOK, Streaming, Serving, wire
  <2>3. WireOK'
    BY <1>0, <1>a, <1>1, Outside DEF Request, Quiet, Silent, WireOK, Streaming, Serving, Knows, Marked, scheduler, catalog, guard, local, history, wire
  <2>4. Marked'
    BY <1>0, <1>a, <1>1 DEF Request, Marked, Knows, scheduler, catalog, guard, local, history, wire
  <2>5. Quiet(t)'
    BY <1>0, <1>a, <1>1, Outside DEF Request, Quiet, Silent, WireOK, Streaming, Serving, Knows, Marked, scheduler, catalog, guard, local, history, wire
  <2> QED
    BY <1>0, <1>b, <1>1, <2>1, <2>2, <2>3, <2>4, <2>5
<1>2. ASSUME NEW t \in Threads \ Writers, Alone(t), Ask(t)
      PROVE  Good
  <2>0. \/ pc' = [pc EXCEPT ![t] = "out"]
        \/ pc' = [pc EXCEPT ![t] = "append"]
        \/ pc' = [pc EXCEPT ![t] = "begin"] /\ ~active
        \/ /\ pc' = [pc EXCEPT ![t] = "send"] /\ ~active
           /\ requested[hand[t]] = Plain /\ hand' = hand /\ requested' = requested
    BY <1>2, AskGoes DEF Ask
  <2>1. \A u \in Threads \ {t} : pc'[u] = pc[u]
    BY <1>0, <1>a, <1>2, <2>0 DEF Ask, local
  <2>2. ~lost'
    BY <1>0, <1>a, <1>2, <2>0, Outside DEF Ask, Quiet, Silent, WireOK, Streaming, Serving, wire
  <2>3. WireOK'
    BY <1>0, <1>a, <1>2, <2>0, Outside DEF Ask, Quiet, Silent, WireOK, Streaming, Serving, Knows, Marked, scheduler, catalog, guard, local, history, wire
  <2>4. Marked'
    BY <1>0, <1>a, <1>2, <2>0 DEF Ask, Marked, Knows, scheduler, catalog, guard, local, history, wire
  <2>5. Quiet(t)'
    BY <1>0, <1>a, <1>2, <2>0, Outside DEF Ask, Quiet, Silent, WireOK, Streaming, Serving, Knows, Marked, scheduler, catalog, guard, local, history, wire
  <2> QED
    BY <1>0, <1>b, <1>2, <2>1, <2>2, <2>3, <2>4, <2>5
<1>3. ASSUME NEW t \in Threads \ Writers, Alone(t), AppendRequest(t)
      PROVE  Good
  <2>1. \A u \in Threads \ {t} : pc'[u] = pc[u]
    BY <1>0, <1>a, <1>3 DEF AppendRequest, local
  <2>2. ~lost'
    BY <1>0, <1>a, <1>3, Outside DEF AppendRequest, Quiet, Silent, WireOK, Streaming, Serving, wire
  <2>3. WireOK'
    BY <1>0, <1>a, <1>3, Outside DEF AppendRequest, Quiet, Silent, WireOK, Streaming, Serving, Knows, Marked, scheduler, catalog, guard, local, history, wire
  <2>4. Marked'
    BY <1>0, <1>a, <1>3 DEF AppendRequest, Marked, Knows, scheduler, catalog, guard, local, history, wire
  <2>5. Quiet(t)'
    BY <1>0, <1>a, <1>3, Outside DEF AppendRequest, Quiet, Silent, WireOK, Streaming, Serving, Knows, Marked, scheduler, catalog, guard, local, history, wire
  <2> QED
    BY <1>0, <1>b, <1>3, <2>1, <2>2, <2>3, <2>4, <2>5
<1>4. ASSUME NEW t \in Threads \ Writers, Alone(t), BeginBurst(t)
      PROVE  Good
  <2>1. \A u \in Threads \ {t} : pc'[u] = pc[u]
    BY <1>0, <1>a, <1>4 DEF BeginBurst, StartBurst, local
  <2>2. ~lost'
    BY <1>0, <1>a, <1>4, Outside DEF BeginBurst, StartBurst, Quiet, Silent, WireOK, Streaming, Serving, wire
  <2>3. WireOK'
    BY <1>0, <1>a, <1>4, Outside DEF BeginBurst, StartBurst, Quiet, Silent, WireOK, Streaming, Serving, Knows, Marked, scheduler, catalog, guard, local, history, wire
  <2>4. Marked'
    BY <1>0, <1>a, <1>4 DEF BeginBurst, StartBurst, Marked, Knows, scheduler, catalog, guard, local, history, wire
  <2>5. Quiet(t)'
    BY <1>0, <1>a, <1>4, Outside DEF BeginBurst, StartBurst, Quiet, Silent, WireOK, Streaming, Serving, Knows, Marked, scheduler, catalog, guard, local, history, wire
  <2> QED
    BY <1>0, <1>b, <1>4, <2>1, <2>2, <2>3, <2>4, <2>5
<1>5. ASSUME NEW t \in Threads \ Writers, Alone(t), SendNow(t)
      PROVE  Good
  <2>0. Silent
    <3>1. pc[t] = "send" /\ "send" \in InMethod \ {"ask", "append"}
      BY <1>5 DEF SendNow, InMethod, Enqueueing, Draining
    <3> QED
      BY <1>a, <3>1 DEF Quiet
  <2>1. \A u \in Threads \ {t} : pc'[u] = pc[u]
    BY <1>0, <1>a, <1>5 DEF SendNow, SendRequest, Transmit, local
  <2>2. ~lost'
    BY <1>0, <1>a, <1>5, <2>0, Outside DEF SendNow, SendRequest, Transmit, Quiet, Silent, WireOK, Streaming, Serving, wire
  <2>3. WireOK'
    BY <1>0, <1>a, <1>5, <2>0, Outside DEF SendNow, SendRequest, Transmit, Quiet, Silent, WireOK, Streaming, Serving, Knows, Marked, scheduler, catalog, guard, local, history, wire
  <2>4. Marked'
    BY <1>0, <1>a, <1>5 DEF SendNow, SendRequest, Transmit, Marked, Knows, scheduler, catalog, guard, local, history, wire
  <2>5. Quiet(t)'
    BY <1>0, <1>a, <1>5, <2>0, Outside DEF SendNow, SendRequest, Transmit, Quiet, Silent, WireOK, Streaming, Serving, Knows, Marked, scheduler, catalog, guard, local, history, wire
  <2> QED
    BY <1>0, <1>b, <1>5, <2>1, <2>2, <2>3, <2>4, <2>5
<1>6. ASSUME NEW t \in Threads \ Callers, Alone(t), EndBurst(t)
      PROVE  Good
  <2>0. Silent
    <3>1. pc[t] = "end" /\ "end" \in InMethod \ {"ask", "append"}
      BY <1>6 DEF EndBurst, InMethod, Enqueueing, Draining
    <3> QED
      BY <1>a, <3>1 DEF Quiet
  <2>1. \A u \in Threads \ {t} : pc'[u] = pc[u]
    BY <1>0, <1>a, <1>6 DEF EndBurst, local
  <2>2. ~lost'
    BY <1>0, <1>a, <1>6, <2>0, Outside DEF EndBurst, Quiet, Silent, WireOK, Streaming, Serving, wire
  <2>3. WireOK'
    BY <1>0, <1>a, <1>6, <2>0, Outside DEF EndBurst, Quiet, Silent, WireOK, Streaming, Serving, Knows, Marked, scheduler, catalog, guard, local, history, wire
  <2>4. Marked'
    BY <1>0, <1>a, <1>6 DEF EndBurst, Marked, Knows, scheduler, catalog, guard, local, history, wire
  <2>5. Quiet(t)'
    BY <1>0, <1>a, <1>6, <2>0, Outside DEF EndBurst, Quiet, Silent, WireOK, Streaming, Serving, Knows, Marked, scheduler, catalog, guard, local, history, wire
  <2> QED
    BY <1>0, <1>b, <1>6, <2>1, <2>2, <2>3, <2>4, <2>5
<1>7. ASSUME NEW t \in Threads \ Callers, Alone(t), NotifyBurstEnd(t)
      PROVE  Good
  <2>1. \A u \in Threads \ {t} : pc'[u] = pc[u]
    BY <1>0, <1>a, <1>7 DEF NotifyBurstEnd, local
  <2>2. ~lost'
    BY <1>0, <1>a, <1>7, Outside DEF NotifyBurstEnd, Quiet, Silent, WireOK, Streaming, Serving, wire
  <2>3. WireOK'
    BY <1>0, <1>a, <1>7, Outside DEF NotifyBurstEnd, Quiet, Silent, WireOK, Streaming, Serving, Knows, Marked, scheduler, catalog, guard, local, history, wire
  <2>4. Marked'
    BY <1>0, <1>a, <1>7 DEF NotifyBurstEnd, Marked, Knows, scheduler, catalog, guard, local, history, wire
  <2>5. Quiet(t)'
    BY <1>0, <1>a, <1>7, Outside DEF NotifyBurstEnd, Quiet, Silent, WireOK, Streaming, Serving, Knows, Marked, scheduler, catalog, guard, local, history, wire
  <2> QED
    BY <1>0, <1>b, <1>7, <2>1, <2>2, <2>3, <2>4, <2>5
<1>8. ASSUME NEW t \in Threads \ Callers, Alone(t), Loop(t)
      PROVE  Good
  <2>1. \A u \in Threads \ {t} : pc'[u] = pc[u]
    BY <1>0, <1>a, <1>8 DEF Loop, Return, local
  <2>2. ~lost'
    BY <1>0, <1>a, <1>8, Outside DEF Loop, Return, Quiet, Silent, WireOK, Streaming, Serving, wire
  <2>3. WireOK'
    BY <1>0, <1>a, <1>8, Outside DEF Loop, Return, Quiet, Silent, WireOK, Streaming, Serving, Knows, Marked, scheduler, catalog, guard, local, history, wire
  <2>4. Marked'
    BY <1>0, <1>a, <1>8 DEF Loop, Return, Marked, Knows, scheduler, catalog, guard, local, history, wire
  <2>5. Quiet(t)'
    BY <1>0, <1>a, <1>8, Outside DEF Loop, Return, Quiet, Silent, WireOK, Streaming, Serving, Knows, Marked, scheduler, catalog, guard, local, history, wire
  <2> QED
    BY <1>0, <1>b, <1>8, <2>1, <2>2, <2>3, <2>4, <2>5
<1>9. ASSUME NEW t \in Threads \ Callers, Alone(t), Pop(t)
      PROVE  Good
  <2>1. \A u \in Threads \ {t} : pc'[u] = pc[u]
    BY <1>0, <1>a, <1>9 DEF Pop, local
  <2>2. ~lost'
    BY <1>0, <1>a, <1>9, Outside DEF Pop, Quiet, Silent, WireOK, Streaming, Serving, wire
  <2>3. WireOK'
    BY <1>0, <1>a, <1>9, Outside DEF Pop, Quiet, Silent, WireOK, Streaming, Serving, Knows, Marked, scheduler, catalog, guard, local, history, wire
  <2>4. Marked'
    BY <1>0, <1>a, <1>9 DEF Pop, Marked, Knows, scheduler, catalog, guard, local, history, wire
  <2>5. Quiet(t)'
    BY <1>0, <1>a, <1>9, Outside DEF Pop, Quiet, Silent, WireOK, Streaming, Serving, Knows, Marked, scheduler, catalog, guard, local, history, wire
  <2> QED
    BY <1>0, <1>b, <1>9, <2>1, <2>2, <2>3, <2>4, <2>5
<1>10. ASSUME NEW t \in Threads \ Callers, Alone(t), PopEmpty(t)
      PROVE  Good
  <2>1. \A u \in Threads \ {t} : pc'[u] = pc[u]
    BY <1>0, <1>a, <1>10 DEF PopEmpty, Return, local
  <2>2. ~lost'
    BY <1>0, <1>a, <1>10, Outside DEF PopEmpty, Return, Quiet, Silent, WireOK, Streaming, Serving, wire
  <2>3. WireOK'
    BY <1>0, <1>a, <1>10, Outside DEF PopEmpty, Return, Quiet, Silent, WireOK, Streaming, Serving, Knows, Marked, scheduler, catalog, guard, local, history, wire
  <2>4. Marked'
    BY <1>0, <1>a, <1>10 DEF PopEmpty, Return, Marked, Knows, scheduler, catalog, guard, local, history, wire
  <2>5. Quiet(t)'
    BY <1>0, <1>a, <1>10, Outside DEF PopEmpty, Return, Quiet, Silent, WireOK, Streaming, Serving, Knows, Marked, scheduler, catalog, guard, local, history, wire
  <2> QED
    BY <1>0, <1>b, <1>10, <2>1, <2>2, <2>3, <2>4, <2>5
<1>11. ASSUME NEW t \in Threads \ Callers, Alone(t), Item(t)
      PROVE  Good
  <2>1. \A u \in Threads \ {t} : pc'[u] = pc[u]
    BY <1>0, <1>a, <1>11 DEF Item, StartBurst, local
  <2>2. ~lost'
    BY <1>0, <1>a, <1>11, Outside DEF Item, StartBurst, Quiet, Silent, WireOK, Streaming, Serving, wire
  <2>3. WireOK'
    BY <1>0, <1>a, <1>11, Outside DEF Item, StartBurst, Quiet, Silent, WireOK, Streaming, Serving, Knows, Marked, scheduler, catalog, guard, local, history, wire
  <2>4. Marked'
    BY <1>0, <1>a, <1>11 DEF Item, StartBurst, Marked, Knows, scheduler, catalog, guard, local, history, wire
  <2>5. Quiet(t)'
    BY <1>0, <1>a, <1>11, Outside DEF Item, StartBurst, Quiet, Silent, WireOK, Streaming, Serving, Knows, Marked, scheduler, catalog, guard, local, history, wire
  <2> QED
    BY <1>0, <1>b, <1>11, <2>1, <2>2, <2>3, <2>4, <2>5
<1>12. ASSUME NEW t \in Threads \ Callers, Alone(t), DrainSend(t)
      PROVE  Good
  <2>0. Silent
    <3>1. pc[t] = "dsend" /\ "dsend" \in InMethod \ {"ask", "append"}
      BY <1>12 DEF DrainSend, InMethod, Enqueueing, Draining
    <3> QED
      BY <1>a, <3>1 DEF Quiet
  <2>1. \A u \in Threads \ {t} : pc'[u] = pc[u]
    BY <1>0, <1>a, <1>12 DEF DrainSend, SendRequest, Transmit, Return, local
  <2>2. ~lost'
    BY <1>0, <1>a, <1>12, <2>0, Outside DEF DrainSend, SendRequest, Transmit, Return, Quiet, Silent, WireOK, Streaming, Serving, wire
  <2>3. WireOK'
    BY <1>0, <1>a, <1>12, <2>0, Outside DEF DrainSend, SendRequest, Transmit, Return, Quiet, Silent, WireOK, Streaming, Serving, Knows, Marked, scheduler, catalog, guard, local, history, wire
  <2>4. Marked'
    BY <1>0, <1>a, <1>12 DEF DrainSend, SendRequest, Transmit, Return, Marked, Knows, scheduler, catalog, guard, local, history, wire
  <2>5. Quiet(t)'
    BY <1>0, <1>a, <1>12, <2>0, Outside DEF DrainSend, SendRequest, Transmit, Return, Quiet, Silent, WireOK, Streaming, Serving, Knows, Marked, scheduler, catalog, guard, local, history, wire
  <2> QED
    BY <1>0, <1>b, <1>12, <2>1, <2>2, <2>3, <2>4, <2>5
<1>13. ASSUME NEW t \in Writers, Alone(t), EnterExchange(t)
      PROVE  Good
  <2>1. \A u \in Threads \ {t} : pc'[u] = pc[u]
    BY <1>0, <1>a, <1>13 DEF EnterExchange, local
  <2>2. ~lost'
    BY <1>0, <1>a, <1>13, Outside DEF EnterExchange, Quiet, Silent, WireOK, Streaming, Serving, wire
  <2>3. WireOK'
    BY <1>0, <1>a, <1>13, Outside DEF EnterExchange, Quiet, Silent, WireOK, Streaming, Serving, Knows, Marked, scheduler, catalog, guard, local, history, wire
  <2>4. Marked'
    BY <1>0, <1>a, <1>13 DEF EnterExchange, Marked, Knows, scheduler, catalog, guard, local, history, wire
  <2>5. Quiet(t)'
    BY <1>0, <1>a, <1>13, Outside DEF EnterExchange, Quiet, Silent, WireOK, Streaming, Serving, Knows, Marked, scheduler, catalog, guard, local, history, wire
  <2> QED
    BY <1>0, <1>b, <1>13, <2>1, <2>2, <2>3, <2>4, <2>5
<1>14. ASSUME NEW t \in Writers, Alone(t), QuiesceDone(t)
      PROVE  Good
  <2>1. \A u \in Threads \ {t} : pc'[u] = pc[u]
    BY <1>0, <1>a, <1>14 DEF QuiesceDone, local
  <2>2. ~lost'
    BY <1>0, <1>a, <1>14, Outside DEF QuiesceDone, Quiet, Silent, WireOK, Streaming, Serving, wire
  <2>3. WireOK'
    BY <1>0, <1>a, <1>14, Outside DEF QuiesceDone, Quiet, Silent, WireOK, Streaming, Serving, Knows, Marked, scheduler, catalog, guard, local, history, wire
  <2>4. Marked'
    BY <1>0, <1>a, <1>14 DEF QuiesceDone, Marked, Knows, scheduler, catalog, guard, local, history, wire
  <2>5. Quiet(t)'
    BY <1>0, <1>a, <1>14, Outside DEF QuiesceDone, Quiet, Silent, WireOK, Streaming, Serving, Knows, Marked, scheduler, catalog, guard, local, history, wire
  <2> QED
    BY <1>0, <1>b, <1>14, <2>1, <2>2, <2>3, <2>4, <2>5
<1>15. ASSUME NEW t \in Writers, Alone(t), QuiesceTimeout(t)
      PROVE  Good
  <2>1. \A u \in Threads \ {t} : pc'[u] = pc[u]
    BY <1>0, <1>a, <1>15 DEF QuiesceTimeout, Disturb, local
  <2>2. ~lost'
    BY <1>0, <1>a, <1>15, Outside DEF QuiesceTimeout, Disturb, Quiet, Silent, WireOK, Streaming, Serving, wire
  <2>3. WireOK'
    BY <1>0, <1>a, <1>15, Outside DEF QuiesceTimeout, Disturb, Quiet, Silent, WireOK, Streaming, Serving, Knows, Marked, scheduler, catalog, guard, local, history, wire
  <2>4. Marked'
    BY <1>0, <1>a, <1>15 DEF QuiesceTimeout, Disturb, Marked, Knows, scheduler, catalog, guard, local, history, wire
  <2>5. Quiet(t)'
    BY <1>0, <1>a, <1>15, Outside DEF QuiesceTimeout, Disturb, Quiet, Silent, WireOK, Streaming, Serving, Knows, Marked, scheduler, catalog, guard, local, history, wire
  <2> QED
    BY <1>0, <1>b, <1>15, <2>1, <2>2, <2>3, <2>4, <2>5
<1>16. ASSUME NEW t \in Writers, Alone(t), MarkWire(t)
      PROVE  Good
  <2>1. \A u \in Threads \ {t} : pc'[u] = pc[u]
    BY <1>0, <1>a, <1>16 DEF MarkWire, StartBurst, local
  <2>2. ~lost'
    BY <1>0, <1>a, <1>16, Outside DEF MarkWire, StartBurst, Quiet, Silent, WireOK, Streaming, Serving, wire
  <2>3. WireOK'
    BY <1>0, <1>a, <1>16, Outside DEF MarkWire, StartBurst, Quiet, Silent, WireOK, Streaming, Serving, Knows, Marked, scheduler, catalog, guard, local, history, wire
  <2>4. Marked'
    BY <1>0, <1>a, <1>16 DEF MarkWire, StartBurst, Marked, Knows, scheduler, catalog, guard, local, history, wire
  <2>5. Quiet(t)'
    BY <1>0, <1>a, <1>16, Outside DEF MarkWire, StartBurst, Quiet, Silent, WireOK, Streaming, Serving, Knows, Marked, scheduler, catalog, guard, local, history, wire
  <2> QED
    BY <1>0, <1>b, <1>16, <2>1, <2>2, <2>3, <2>4, <2>5
<1>17. ASSUME NEW t \in Writers, Alone(t), NestExchange(t) \/ UnnestExchange(t)
      PROVE  Good
  <2>1. \A u \in Threads \ {t} : pc'[u] = pc[u]
    BY <1>0, <1>a, <1>17 DEF NestExchange, UnnestExchange, local
  <2>2. ~lost'
    BY <1>0, <1>a, <1>17, Outside DEF NestExchange, UnnestExchange, Quiet, Silent, WireOK, Streaming, Serving, wire
  <2>3. WireOK'
    BY <1>0, <1>a, <1>17, Outside DEF NestExchange, UnnestExchange, Quiet, Silent, WireOK, Streaming, Serving, Knows, Marked, scheduler, catalog, guard, local, history, wire
  <2>4. Marked'
    BY <1>0, <1>a, <1>17 DEF NestExchange, UnnestExchange, Marked, Knows, scheduler, catalog, guard, local, history, wire
  <2>5. Quiet(t)'
    BY <1>0, <1>a, <1>17, Outside DEF NestExchange, UnnestExchange, Quiet, Silent, WireOK, Streaming, Serving, Knows, Marked, scheduler, catalog, guard, local, history, wire
  <2> QED
    BY <1>0, <1>b, <1>17, <2>1, <2>2, <2>3, <2>4, <2>5
<1>18. ASSUME NEW t \in Writers, Alone(t), NEW k \in {Plain} \cup RowTables,
             SendStep(t, k)
      PROVE  Good
  <2>0. Silent
    <3>1. pc[t] = "body" /\ holder = t /\ kind = Xchg
      BY <1>a, <1>18 DEF SendStep, Marked
    <3> QED
      BY <1>0, <1>a, <3>1 DEF WireOK, Streaming, Serving
  <2>1. \A u \in Threads \ {t} : pc'[u] = pc[u]
    BY <1>0, <1>a, <1>18 DEF SendStep, Transmit, local
  <2>2. ~lost'
    BY <1>0, <1>a, <1>18, <2>0, Outside DEF SendStep, Transmit, Quiet, Silent, WireOK, Streaming, Serving, wire
  <2>3. WireOK'
    BY <1>0, <1>a, <1>18, <2>0, Outside DEF SendStep, Transmit, Quiet, Silent, WireOK, Streaming, Serving, Knows, Marked, scheduler, catalog, guard, local, history, wire
  <2>4. Marked'
    BY <1>0, <1>a, <1>18 DEF SendStep, Transmit, Marked, Knows, scheduler, catalog, guard, local, history, wire
  <2>5. Quiet(t)'
    BY <1>0, <1>a, <1>18, <2>0, Outside DEF SendStep, Transmit, Quiet, Silent, WireOK, Streaming, Serving, Knows, Marked, scheduler, catalog, guard, local, history, wire
  <2> QED
    BY <1>0, <1>b, <1>18, <2>1, <2>2, <2>3, <2>4, <2>5
<1>19. ASSUME NEW t \in Writers, Alone(t), StepAnswered(t)
      PROVE  Good
  <2>1. \A u \in Threads \ {t} : pc'[u] = pc[u]
    BY <1>0, <1>a, <1>19 DEF StepAnswered, local
  <2>2. ~lost'
    BY <1>0, <1>a, <1>19, Outside DEF StepAnswered, Quiet, Silent, WireOK, Streaming, Serving, wire
  <2>3. WireOK'
    BY <1>0, <1>a, <1>19, Outside DEF StepAnswered, Quiet, Silent, WireOK, Streaming, Serving, Knows, Marked, scheduler, catalog, guard, local, history, wire
  <2>4. Marked'
    BY <1>0, <1>a, <1>19 DEF StepAnswered, Marked, Knows, scheduler, catalog, guard, local, history, wire
  <2>5. Quiet(t)'
    BY <1>0, <1>a, <1>19, Outside DEF StepAnswered, Quiet, Silent, WireOK, Streaming, Serving, Knows, Marked, scheduler, catalog, guard, local, history, wire
  <2> QED
    BY <1>0, <1>b, <1>19, <2>1, <2>2, <2>3, <2>4, <2>5
<1>20. ASSUME NEW t \in Writers, Alone(t), StepTimeout(t)
      PROVE  Good
  <2>1. \A u \in Threads \ {t} : pc'[u] = pc[u]
    BY <1>0, <1>a, <1>20 DEF StepTimeout, Disturb, local
  <2>2. ~lost'
    BY <1>0, <1>a, <1>20, Outside DEF StepTimeout, Disturb, Quiet, Silent, WireOK, Streaming, Serving, wire
  <2>3. WireOK'
    BY <1>0, <1>a, <1>20, Outside DEF StepTimeout, Disturb, Quiet, Silent, WireOK, Streaming, Serving, Knows, Marked, scheduler, catalog, guard, local, history, wire
  <2>4. Marked'
    BY <1>0, <1>a, <1>20 DEF StepTimeout, Disturb, Marked, Knows, scheduler, catalog, guard, local, history, wire
  <2>5. Quiet(t)'
    BY <1>0, <1>a, <1>20, Outside DEF StepTimeout, Disturb, Quiet, Silent, WireOK, Streaming, Serving, Knows, Marked, scheduler, catalog, guard, local, history, wire
  <2> QED
    BY <1>0, <1>b, <1>20, <2>1, <2>2, <2>3, <2>4, <2>5
<1>21. ASSUME NEW t \in Writers, Alone(t), LeaveExchange(t)
      PROVE  Good
  <2>1. \A u \in Threads \ {t} : pc'[u] = pc[u]
    BY <1>0, <1>a, <1>21 DEF LeaveExchange, Return, local
  <2>2. ~lost'
    BY <1>0, <1>a, <1>21, Outside DEF LeaveExchange, Return, Quiet, Silent, WireOK, Streaming, Serving, wire
  <2>3. WireOK'
    BY <1>0, <1>a, <1>21, Outside DEF LeaveExchange, Return, Quiet, Silent, WireOK, Streaming, Serving, Knows, Marked, scheduler, catalog, guard, local, history, wire
  <2>4. Marked'
    BY <1>0, <1>a, <1>21 DEF LeaveExchange, Return, Marked, Knows, scheduler, catalog, guard, local, history, wire
  <2>5. Quiet(t)'
    BY <1>0, <1>a, <1>21, Outside DEF LeaveExchange, Return, Quiet, Silent, WireOK, Streaming, Serving, Knows, Marked, scheduler, catalog, guard, local, history, wire
  <2> QED
    BY <1>0, <1>b, <1>21, <2>1, <2>2, <2>3, <2>4, <2>5
<1>22. ASSUME Alone(Frame), Tick
      PROVE  Good
  <2>1. \A u \in Threads \ {Frame} : pc'[u] = pc[u]
    BY <1>0, <1>a, <1>22 DEF Tick, FrameFree, local
  <2>2. ~lost'
    BY <1>0, <1>a, <1>22, Outside DEF Tick, FrameFree, Quiet, Silent, WireOK, Streaming, Serving, wire
  <2>3. WireOK'
    BY <1>0, <1>a, <1>22, Outside DEF Tick, FrameFree, Quiet, Silent, WireOK, Streaming, Serving, Knows, Marked, scheduler, catalog, guard, local, history, wire
  <2>4. Marked'
    BY <1>0, <1>a, <1>22 DEF Tick, FrameFree, Marked, Knows, scheduler, catalog, guard, local, history, wire
  <2>5. Quiet(Frame)'
    BY <1>0, <1>a, <1>22, Outside DEF Tick, FrameFree, Quiet, Silent, WireOK, Streaming, Serving, Knows, Marked, scheduler, catalog, guard, local, history, wire
  <2> QED
    BY <1>0, <1>b, <1>22, <2>1, <2>2, <2>3, <2>4, <2>5
<1>23. ASSUME Alone(Frame), EmptyFrame
      PROVE  Good
  <2>1. \A u \in Threads \ {Frame} : pc'[u] = pc[u]
    BY <1>0, <1>a, <1>23 DEF EmptyFrame, NoteEmpty, FrameFree, local
  <2>2. ~lost'
    BY <1>0, <1>a, <1>23, Outside DEF EmptyFrame, NoteEmpty, FrameFree, Quiet, Silent, WireOK, Streaming, Serving, wire
  <2>3. WireOK'
    BY <1>0, <1>a, <1>23, Outside DEF EmptyFrame, NoteEmpty, FrameFree, Quiet, Silent, WireOK, Streaming, Serving, Knows, Marked, scheduler, catalog, guard, local, history, wire
  <2>4. Marked'
    BY <1>0, <1>a, <1>23 DEF EmptyFrame, NoteEmpty, FrameFree, Marked, Knows, scheduler, catalog, guard, local, history, wire
  <2>5. Quiet(Frame)'
    BY <1>0, <1>a, <1>23, Outside DEF EmptyFrame, NoteEmpty, FrameFree, Quiet, Silent, WireOK, Streaming, Serving, Knows, Marked, scheduler, catalog, guard, local, history, wire
  <2> QED
    BY <1>0, <1>b, <1>23, <2>1, <2>2, <2>3, <2>4, <2>5
<1>24. ASSUME Alone(Frame), NEW empty \in BOOLEAN, AckFrame(empty)
      PROVE  Good
  <2>1. \A u \in Threads \ {Frame} : pc'[u] = pc[u]
    BY <1>0, <1>a, <1>24 DEF AckFrame, NoteEmpty, EmptyFinishes, FrameFree, local
  <2>2. ~lost'
    BY <1>0, <1>a, <1>24, Outside DEF AckFrame, NoteEmpty, EmptyFinishes, FrameFree, Quiet, Silent, WireOK, Streaming, Serving, wire
  <2>3. WireOK'
    BY <1>0, <1>a, <1>24, Outside DEF AckFrame, NoteEmpty, EmptyFinishes, FrameFree, Quiet, Silent, WireOK, Streaming, Serving, Knows, Marked, scheduler, catalog, guard, local, history, wire
  <2>4. Marked'
    BY <1>0, <1>a, <1>24 DEF AckFrame, NoteEmpty, EmptyFinishes, FrameFree, Marked, Knows, scheduler, catalog, guard, local, history, wire
  <2>5. Quiet(Frame)'
    BY <1>0, <1>a, <1>24, Outside DEF AckFrame, NoteEmpty, EmptyFinishes, FrameFree, Quiet, Silent, WireOK, Streaming, Serving, Knows, Marked, scheduler, catalog, guard, local, history, wire
  <2> QED
    BY <1>0, <1>b, <1>24, <2>1, <2>2, <2>3, <2>4, <2>5
<1>25. ASSUME Alone(Frame), RowFrame
      PROVE  Good
  <2>1. \A u \in Threads \ {Frame} : pc'[u] = pc[u]
    BY <1>0, <1>a, <1>25 DEF RowFrame, StartBurst, Disturb, Accepted, FrameFree, local
  <2>2. ~lost'
    BY <1>0, <1>a, <1>25, Outside DEF RowFrame, StartBurst, Disturb, Accepted, FrameFree, Quiet, Silent, WireOK, Streaming, Serving, wire
  <2>3. WireOK'
    BY <1>0, <1>a, <1>25, Outside DEF RowFrame, StartBurst, Disturb, Accepted, FrameFree, Quiet, Silent, WireOK, Streaming, Serving, Knows, Marked, scheduler, catalog, guard, local, history, wire
  <2>4. Marked'
    BY <1>0, <1>a, <1>25 DEF RowFrame, StartBurst, Disturb, Accepted, FrameFree, Marked, Knows, scheduler, catalog, guard, local, history, wire
  <2>5. Quiet(Frame)'
    BY <1>0, <1>a, <1>25, Outside DEF RowFrame, StartBurst, Disturb, Accepted, FrameFree, Quiet, Silent, WireOK, Streaming, Serving, Knows, Marked, scheduler, catalog, guard, local, history, wire
  <2> QED
    BY <1>0, <1>b, <1>25, <2>1, <2>2, <2>3, <2>4, <2>5
<1>26. ASSUME Alone(Frame), LastRowFrame
      PROVE  Good
  <2>1. \A u \in Threads \ {Frame} : pc'[u] = pc[u]
    BY <1>0, <1>a, <1>26 DEF LastRowFrame, StartBurst, Disturb, Accepted, FrameFree, local
  <2>2. ~lost'
    BY <1>0, <1>a, <1>26, Outside DEF LastRowFrame, StartBurst, Disturb, Accepted, FrameFree, Quiet, Silent, WireOK, Streaming, Serving, wire
  <2>3. WireOK'
    BY <1>0, <1>a, <1>26, Outside DEF LastRowFrame, StartBurst, Disturb, Accepted, FrameFree, Quiet, Silent, WireOK, Streaming, Serving, Knows, Marked, scheduler, catalog, guard, local, history, wire
  <2>4. Marked'
    BY <1>0, <1>a, <1>26 DEF LastRowFrame, StartBurst, Disturb, Accepted, FrameFree, Marked, Knows, scheduler, catalog, guard, local, history, wire
  <2>5. Quiet(Frame)'
    BY <1>0, <1>a, <1>26, Outside DEF LastRowFrame, StartBurst, Disturb, Accepted, FrameFree, Quiet, Silent, WireOK, Streaming, Serving, Knows, Marked, scheduler, catalog, guard, local, history, wire
  <2> QED
    BY <1>0, <1>b, <1>26, <2>1, <2>2, <2>3, <2>4, <2>5
<1>27. ASSUME Environment
      PROVE  Good
  <2>0. UNCHANGED << pc, active, kind, holder, hand, requested, want, answered >>
    BY <1>27, EnvironmentStays
  <2>1. /\ lost' = lost
        /\ \/ hub' = hub /\ owes' = owes /\ lull' = lull
           \/ hub' = NoKind /\ ~owes' /\ lull' = lull
           \/ /\ hub' = hub /\ owes' = owes /\ lull' /\ hub = NoKind
              /\ \A t \in Threads : pc[t] \notin {"send", "dsend"}
    <3>1. CASE WindowOver
      BY <3>1 DEF WindowOver, Disturb
    <3>2. CASE AppAttach \/ AppDetach \/ HubDrop \/ HubBack
      BY <3>2 DEF AppAttach, AppDetach, HubDrop, HubBack, scheduler
    <3>3. ASSUME NEW k \in Reads, AppRead(k) PROVE FALSE
      BY <3>3 DEF AppRead, Disturb
    <3> QED
      BY <1>27, <3>1, <3>2, <3>3 DEF Environment
  <2>2. WireOK'
    BY <1>0, <1>a, <2>0, <2>1 DEF WireOK, Silent, Streaming, Serving
  <2>3. Marked'
    BY <1>a, <2>0 DEF Marked
  <2>4. \A t \in Threads : Quiet(t)'
    BY <1>a, <2>0, <2>1 DEF Quiet, Silent
  <2> QED
    BY <1>a, <2>1, <2>2, <2>3, <2>4
<1>28. ASSUME UNCHANGED vars
      PROVE  Good
  BY <1>a, <1>28 DEF vars, scheduler, catalog, guard, local, history, wire, WireOK, Silent,
       Streaming, Serving, Marked, Quiet
<1> QED
  BY <1>1, <1>2, <1>3, <1>4, <1>5, <1>6, <1>7, <1>8, <1>9, <1>10, <1>11, <1>12, <1>13, <1>14, <1>15, <1>16, <1>17, <1>18, <1>19, <1>20, <1>21, <1>22, <1>23, <1>24, <1>25, <1>26, <1>27, <1>28
     DEF SerialNext, ThreadStep, CallerStep, DrainStep, ExchangeStep, HandleFrame

\* Every frame starts on a quiet wire: as long as nothing disturbs it and the methods
\* of the scheduler run one at a time, no frame reaches a hub that is streaming.
THEOREM WireIsQuiet == SerialSpec => []QuietWire
<1>1. SerialSpec => [](TypeInv /\ LockInv /\ SerialInv /\ QuietInv)
  BY SerialHolds, InitSerial, SerialStep, InitQuiet, QuietStep, PTL DEF SerialSpec
<1>2. QuietInv => QuietWire
  BY DEF QuietInv, QuietWire
<1> QED
  BY <1>1, <1>2, PTL

-----------------------------------------------------------------------------
(* The sessions of the hubs (HubLink).  Type correctness.                   *)

LEMMA NoConnIsNone == NoConn \notin Link!Conns
  BY LinkConstants DEF Link!NoConnIsNone

LEMMA LinkBounds == MaxUpsets \in Nat /\ MaxBounces \in Nat
  BY LinkConstants DEF Link!LinkBounds

LEMMA PendingIs == Link!Pending = Range(backlog) /\ Link!Pending' = Range(backlog')
  BY DEF Link!Pending, Link!Range, Range

\* pause_for_ota ends before the deadline it arms.
PauseInTime == \A h \in Hubs : ppc[h] # "no" => paused[h]

LinkType == Link!TypeOK /\ PauseInTime

LEMMA InitLinkType == Link!Init => LinkType
<1> SUFFICES ASSUME Link!Init PROVE LinkType
  OBVIOUS
<1>1. 0 \in 0 .. MaxUpsets /\ 0 \in 0 .. MaxBounces
  BY LinkBounds
<1>2. << >> \in Seq(Link!Conns)
  BY EmptySeq
<1> QED
  BY <1>1, <1>2 DEF Link!Init, LinkType, Link!TypeOK, PauseInTime

\* What taking up or adding a connection does to the backlog.
LEMMA BacklogType ==
  ASSUME Link!TypeOK
  PROVE  /\ Link!Pending \subseteq Link!Conns
         /\ backlog # << >> => Head(backlog) \in Link!Conns /\ Tail(backlog) \in Seq(Link!Conns)
         /\ \A c \in Link!Conns : Append(backlog, c) \in Seq(Link!Conns)
         /\ << >> \in Seq(Link!Conns)
<1>1. backlog \in Seq(Link!Conns)
  BY DEF Link!TypeOK
<1>2. Link!Pending \subseteq Link!Conns
  BY <1>1, ElementOfSeq DEF Link!Pending, Link!Range, Range
<1> QED
  BY <1>1, <1>2, EmptySeq

LEMMA LinkTypeStep == LinkType /\ [Link!Next]_(Link!vars) => LinkType'
<1> SUFFICES ASSUME Link!TypeOK, PauseInTime, [Link!Next]_(Link!vars) PROVE Link!TypeOK' /\ PauseInTime'
  BY DEF LinkType
<1>a. /\ upsets < MaxUpsets => upsets + 1 \in 0 .. MaxUpsets
      /\ bounces < MaxBounces => bounces + 1 \in 0 .. MaxBounces
  <2>1. upsets \in 0 .. MaxUpsets /\ bounces \in 0 .. MaxBounces
    BY DEF Link!TypeOK
  <2> QED
    BY <2>1, LinkBounds
<1> USE DEF Link!TypeOK, PauseInTime, Link!listener, Link!acceptor, Link!bridge, Link!ota, Link!counts
<1>0. /\ Link!Pending \subseteq Link!Conns
      /\ backlog # << >> => Head(backlog) \in Link!Conns /\ Tail(backlog) \in Seq(Link!Conns)
      /\ \A c \in Link!Conns : Append(backlog, c) \in Seq(Link!Conns)
      /\ << >> \in Seq(Link!Conns)
  BY BacklogType
<1>1. CASE Link!Accept
  BY <1>0, <1>1, NoConnIsNone DEF Link!Accept
<1>2. CASE Link!Lookup \/ Link!CheckPause
  BY ZenonT(60), <1>2 DEF Link!Lookup, Link!CheckPause, Link!Reject
<1>3. CASE Link!Swap
  <2>1. client \in Link!Conns /\ Link!Owner(client) \in Hubs
    BY <1>3 DEF Link!Swap, Link!Conns, Link!Owner
  <2> QED
    BY <1>3, <2>1 DEF Link!Swap
<1>11. CASE Link!CloseExisting \/ Link!TellConnected
  BY ZenonT(60), <1>11 DEF Link!CloseExisting, Link!TellConnected
<1>4. CASE Link!Bounce
  BY <1>a, <1>0, <1>4 DEF Link!Bounce, Link!StopListening
<1>5. CASE Link!BounceEnd
  BY <1>5 DEF Link!BounceEnd, Link!EnsureRunning
<1>6. ASSUME NEW h \in Hubs, Link!BridgeStep(h) PROVE Link!TypeOK' /\ PauseInTime'
  <2>1. CASE Link!Sample(h)
    BY <2>1 DEF Link!Sample
  <2>2. CASE Link!Eof(h)
    BY <2>2 DEF Link!Eof
  <2>3. CASE Link!Clear(h)
    BY <2>3 DEF Link!Clear, Link!ThenTell
  <2>4. CASE Link!TellLost(h)
    BY ZenonT(60), <2>4 DEF Link!TellLost
  <2> QED
    BY <1>6, <2>1, <2>2, <2>3, <2>4 DEF Link!BridgeStep
<1>7. ASSUME NEW h \in Hubs, Link!ControlStep(h) PROVE Link!TypeOK' /\ PauseInTime'
  <2>1. CASE Link!Start(h)
    BY <2>1 DEF Link!Start, Link!EnsureRunning
  <2>2. CASE Link!Pause(h)
    <3>1. /\ ppc' \in [Hubs -> {"no", "take", "close"}]
          /\ \A g \in Hubs : taken'[g] # NoConn <=> ppc'[g] = "close"
      <4>1. ppc[h] # "close"
        BY <2>2 DEF Link!Pause
      <4> QED
        BY <2>2, <4>1 DEF Link!Pause
    <3> QED
      BY <1>a, <2>2, <3>1 DEF Link!Pause
  <2>3. CASE Link!TakeSocket(h)
    BY ZenonT(60), <2>3 DEF Link!TakeSocket
  <2>4. CASE Link!CloseTaken(h)
    BY ZenonT(60), <2>4 DEF Link!CloseTaken
  <2>5. CASE Link!PauseEnd(h)
    BY <2>5 DEF Link!PauseEnd
  <2>6. CASE Link!StopUnregister(h)
    BY ZenonT(60), <1>0, <2>6 DEF Link!StopUnregister, Link!StopListening
  <2>7. CASE Link!StopClose(h)
    BY <2>7 DEF Link!StopClose
  <2> QED
    BY <1>7, <2>1, <2>2, <2>3, <2>4, <2>5, <2>6, <2>7 DEF Link!ControlStep
<1>8. ASSUME NEW h \in Hubs, Link!HubStep(h) PROVE Link!TypeOK' /\ PauseInTime'
  <2>1. CASE Link!Connect(h)
    <3>1. {h} \X Slots \subseteq Link!Conns
      BY ZenonT(60) DEF Link!Conns
    <3>2. PICK c \in ({h} \X Slots) \ (open \cup Link!Held) :
              /\ open' = open \cup {c} /\ backlog' = Append(backlog, c)
              /\ session' = [session EXCEPT ![h] = c]
      BY <2>1 DEF Link!Connect
    <3>3. c \in Link!Conns /\ backlog' \in Seq(Link!Conns)
      BY <1>0, <3>1, <3>2
    <3> QED
      BY ZenonT(60), <2>1, <3>2, <3>3 DEF Link!Connect
  <2>2. CASE Link!Leave(h)
    BY <1>a, <2>2 DEF Link!Leave
  <2> QED
    BY <1>8, <2>1, <2>2 DEF Link!HubStep, Link!Redial, Link!CallMe
<1>9. ASSUME NEW c \in Link!Conns, Link!Collect(c) PROVE Link!TypeOK' /\ PauseInTime'
  BY <1>9 DEF Link!Collect
<1>10. CASE UNCHANGED Link!vars
  BY <1>10 DEF Link!vars
<1> QED
  BY <1>1, <1>2, <1>3, <1>4, <1>5, <1>6, <1>7, <1>8, <1>9, <1>10, <1>11
     DEF Link!Next, Link!AcceptStep

\* TypeOK holds in every reachable state: fields keep their types, and the locals
\* of the accept thread, the bridge threads and the pauses are set where used.
THEOREM LinkTypeCorrect == Link!Spec => []Link!TypeOK
<1>1. Link!Spec => []LinkType
  BY InitLinkType, LinkTypeStep, PTL DEF Link!Spec
<1> QED
  BY <1>1, PTL DEF LinkType

-----------------------------------------------------------------------------
(* The listening socket.                                                   *)

LEMMA PortStep == LinkType /\ Link!PortFollowsHubs /\ [Link!Next]_(Link!vars) => Link!PortFollowsHubs'
<1> SUFFICES ASSUME Link!TypeOK, Link!PortFollowsHubs, [Link!Next]_(Link!vars) PROVE Link!PortFollowsHubs'
  BY DEF LinkType
<1> USE DEF Link!PortFollowsHubs, Link!listener
<1>1. CASE Link!AcceptStep
  BY <1>1 DEF Link!AcceptStep, Link!Accept, Link!Lookup, Link!CheckPause, Link!Swap, Link!CloseExisting,
              Link!TellConnected
<1>2. CASE Link!Bounce
  BY <1>2 DEF Link!Bounce, Link!StopListening
<1>3. CASE Link!BounceEnd
  BY <1>3 DEF Link!BounceEnd, Link!EnsureRunning, Link!TypeOK
<1>4. ASSUME NEW h \in Hubs, Link!BridgeStep(h) \/ Link!HubStep(h) PROVE Link!PortFollowsHubs'
  <2>1. CASE Link!BridgeStep(h)
    <3>1. UNCHANGED << registered, listening, bouncing >>
      BY <2>1 DEF Link!BridgeStep, Link!Sample, Link!Eof, Link!Clear, Link!TellLost
    <3> QED
      BY <3>1
  <2>2. CASE Link!Connect(h)
    BY <2>2 DEF Link!Connect
  <2>3. CASE Link!Leave(h)
    BY <2>3 DEF Link!Leave
  <2> QED
    BY <1>4, <2>1, <2>2, <2>3 DEF Link!HubStep, Link!Redial, Link!CallMe
<1>5. ASSUME NEW h \in Hubs, Link!ControlStep(h) PROVE Link!PortFollowsHubs'
  <2>1. CASE Link!Start(h)
    BY <2>1 DEF Link!Start, Link!EnsureRunning, Link!TypeOK
  <2>2. CASE Link!StopUnregister(h)
    BY <2>2 DEF Link!StopUnregister, Link!StopListening
  <2> QED
    BY <1>5, <2>1, <2>2 DEF Link!ControlStep, Link!Pause, Link!TakeSocket, Link!CloseTaken, Link!PauseEnd,
                            Link!StopClose
<1>6. ASSUME NEW c \in Link!Conns, Link!Collect(c) PROVE Link!PortFollowsHubs'
  BY <1>6 DEF Link!Collect
<1>7. CASE UNCHANGED Link!vars
  BY <1>7 DEF Link!vars
<1> QED
  BY <1>1, <1>2, <1>3, <1>4, <1>5, <1>6, <1>7 DEF Link!Next

\* PortFollowsHubs holds in every reachable state: starting, stopping and
\* bouncing in any order never leave the port open for nobody or shut on a hub.
THEOREM PortIsRight == Link!Spec => []PortFollowsHubs
<1>1. Link!Init => Link!PortFollowsHubs
  BY DEF Link!Init, Link!PortFollowsHubs
<1>2. Link!Spec => [](LinkType /\ Link!PortFollowsHubs)
  BY <1>1, InitLinkType, LinkTypeStep, PortStep, PTL DEF Link!Spec
<1> QED
  BY <1>2, PTL DEF PortFollowsHubs

-----------------------------------------------------------------------------
(* The sockets.  A connection is fresh until it is installed; whoever takes one *)
(* out of _hub_sock to close it leaves another value there.                 *)

AtAccept == IF apc \in {"lookup", "check", "swap"} THEN {client} ELSE {}
Fresh  == Link!Pending \cup AtAccept

OwnOnly == \A h \in Hubs : \A c \in {sock[h], sampled[h], taken[h]} :
             c # NoConn => Link!Owner(c) = h

FreshOK ==
  /\ IsInjective(backlog) /\ AtAccept \cap Link!Pending = {} /\ Fresh \subseteq open
  /\ existing \notin Fresh
  /\ \A h \in Hubs : sock[h] \notin Fresh /\ sampled[h] \notin Fresh
                     /\ taken[h] \notin Fresh

AwayOK == \A h \in Hubs : /\ taken[h] # NoConn => taken[h] # sock[h]
                          /\ existing # NoConn => existing # sock[h]

SocketInv == OwnOnly /\ FreshOK /\ AwayOK /\ Link!CurrentIsOpen

LEMMA InitSocket == Link!Init => SocketInv
<1> SUFFICES ASSUME Link!Init PROVE SocketInv
  OBVIOUS
<1>1. Link!Pending = {} /\ IsInjective(backlog)
  BY DEF Link!Init, Link!Pending, Link!Range, Range, IsInjective
<1>2. AtAccept = {}
  BY DEF Link!Init, AtAccept
<1> QED
  BY <1>1, <1>2 DEF Link!Init, SocketInv, OwnOnly, FreshOK, AwayOK, Link!CurrentIsOpen, Fresh

\* Closing a socket that is nobody's current one, and not fresh, is harmless.
LEMMA CloseOne ==
  ASSUME Link!TypeOK, SocketInv, NEW c, c \notin Fresh, \A h \in Hubs : sock'[h] # c,
         open' = open \ {c}, UNCHANGED << backlog, apc, client >>,
         \A h \in Hubs : /\ sock'[h] \in {sock[h], NoConn}
                         /\ sampled'[h] \in {sampled[h], NoConn}
                         /\ taken'[h] \in {taken[h], NoConn},
         existing' \in {existing, NoConn}
  PROVE  SocketInv'
<1>1. Fresh' = Fresh /\ AtAccept' = AtAccept /\ Link!Pending' = Link!Pending
  BY DEF Fresh, AtAccept, Link!Pending
<1>2. NoConn \notin Fresh
  BY NoConnIsNone DEF Link!TypeOK, SocketInv, FreshOK
<1>3. OwnOnly' /\ AwayOK'
  BY DEF SocketInv, OwnOnly, AwayOK
<1>4. FreshOK'
  BY <1>1, <1>2 DEF SocketInv, FreshOK
<1>5. Link!CurrentIsOpen'
  BY DEF SocketInv, Link!CurrentIsOpen
<1> QED
  BY <1>3, <1>4, <1>5 DEF SocketInv

\* A step that installs and closes nothing, and refers to no new socket.
LEMMA KeepAll ==
  ASSUME Link!TypeOK, SocketInv, UNCHANGED << backlog, client, existing >>,
         AtAccept' = AtAccept, open \cap (Fresh \cup {sock[h] : h \in Hubs}) \subseteq open',
         \A h \in Hubs : /\ sock'[h] \in {sock[h], NoConn}
                         /\ sampled'[h] \in {sampled[h], sock[h], NoConn}
                         /\ \/ taken'[h] \in {taken[h], NoConn}
                            \/ taken'[h] = sock[h] /\ sock'[h] = NoConn
  PROVE  SocketInv'
<1>1. Fresh' = Fresh /\ Link!Pending' = Link!Pending
  BY DEF Fresh, Link!Pending
<1>2. NoConn \notin Fresh
  BY NoConnIsNone DEF Link!TypeOK, SocketInv, FreshOK
<1>3. OwnOnly' /\ AwayOK'
  BY DEF SocketInv, OwnOnly, AwayOK
<1>4. FreshOK'
  BY <1>1, <1>2 DEF SocketInv, FreshOK
<1>5. Link!CurrentIsOpen'
  BY DEF SocketInv, Link!CurrentIsOpen
<1> QED
  BY <1>3, <1>4, <1>5 DEF SocketInv

\* Closing the port closes the connections nobody has taken up.
LEMMA StopPort ==
  ASSUME Link!TypeOK, SocketInv, Link!StopListening,
         UNCHANGED << apc, client, existing, sock, sampled, taken >>
  PROVE  SocketInv'
<1>1. Link!Pending' = {} /\ AtAccept' = AtAccept /\ IsInjective(backlog')
  BY PendingIs DEF Link!StopListening, AtAccept, Range, IsInjective
<1>2. \A h \in Hubs : sock[h] \notin Link!Pending
  BY DEF SocketInv, FreshOK, Fresh
<1>3. FreshOK'
  BY <1>1 DEF Link!StopListening, SocketInv, FreshOK, Fresh
<1>4. Link!CurrentIsOpen'
  BY <1>2 DEF Link!StopListening, SocketInv, Link!CurrentIsOpen
<1> QED
  BY <1>3, <1>4 DEF SocketInv, OwnOnly, AwayOK

LEMMA SocketStep == LinkType /\ LinkType' /\ SocketInv /\ [Link!Next]_(Link!vars) => SocketInv'
<1> SUFFICES ASSUME Link!TypeOK, Link!TypeOK', SocketInv, [Link!Next]_(Link!vars) PROVE SocketInv'
  BY DEF LinkType
<1> USE DEF Link!listener, Link!acceptor, Link!bridge, Link!ota, Link!counts
<1>0. /\ NoConn \notin Fresh /\ NoConn \notin Link!Conns
      /\ sock \in [Hubs -> Link!Conns \cup {NoConn}] /\ backlog \in Seq(Link!Conns)
      /\ sampled \in [Hubs -> Link!Conns \cup {NoConn}]
      /\ taken \in [Hubs -> Link!Conns \cup {NoConn}]
  BY NoConnIsNone DEF Link!TypeOK, SocketInv, FreshOK
<1>1. CASE Link!Accept
  <2>1. /\ IsInjective(backlog') /\ Head(backlog) \notin Link!Pending'
        /\ Link!Pending = {Head(backlog)} \cup Link!Pending'
    BY <1>0, <1>1, TailRange, PendingIs DEF Link!Accept, SocketInv, FreshOK
  <2>2. AtAccept = {} /\ AtAccept' = {Head(backlog)}
    BY <1>1 DEF Link!Accept, AtAccept
  <2>3. Fresh' = Fresh
    BY <2>1, <2>2 DEF Fresh
  <2>4. FreshOK' /\ Link!CurrentIsOpen'
    BY <1>1, <2>1, <2>2, <2>3 DEF Link!Accept, SocketInv, FreshOK, Link!CurrentIsOpen
  <2> QED
    BY <1>1, <2>4 DEF Link!Accept, SocketInv, OwnOnly, AwayOK
<1>2. CASE Link!Lookup \/ Link!CheckPause
  <2>1. CASE Link!Reject
    <3>1. /\ apc \in {"lookup", "check"} /\ open' = open \ {client}
          /\ UNCHANGED << backlog, existing, sock, sampled, taken >>
      BY <1>2, <2>1 DEF Link!Lookup, Link!CheckPause, Link!Reject
    <3>2. AtAccept = {client} /\ AtAccept' = {} /\ Link!Pending' = Link!Pending
      BY <2>1, <3>1 DEF AtAccept, Link!Reject, Link!Pending
    <3>3. client \notin Link!Pending /\ \A h \in Hubs : sock[h] # client
      BY <3>2 DEF SocketInv, FreshOK, Fresh
    <3>4. FreshOK'
      BY <3>1, <3>2, <3>3 DEF SocketInv, FreshOK, Fresh
    <3>5. Link!CurrentIsOpen'
      BY <3>1, <3>3 DEF SocketInv, Link!CurrentIsOpen
    <3> QED
      BY <3>1, <3>4, <3>5 DEF SocketInv, OwnOnly, AwayOK
  <2>2. CASE ~Link!Reject
    BY <1>2, <2>2, KeepAll DEF Link!Lookup, Link!CheckPause, AtAccept
  <2> QED
    BY <2>1, <2>2
<1>3. CASE Link!Swap
  <2>1. /\ client \in Link!Conns /\ Link!Owner(client) \in Hubs /\ existing = NoConn
        /\ AtAccept = {client} /\ AtAccept' = {} /\ Link!Pending' = Link!Pending
    BY <1>3 DEF Link!Swap, Link!TypeOK, Link!Conns, Link!Owner, AtAccept, Link!Pending
  <2>2. /\ \A h \in Hubs : sock'[h] = IF h = Link!Owner(client) THEN client ELSE sock[h]
        /\ existing' = sock[Link!Owner(client)]
        /\ UNCHANGED << backlog, open, sampled, taken >>
    BY <1>0, <1>3, <2>1 DEF Link!Swap
  <2>3. /\ client \notin Link!Pending /\ client \in open
        /\ \A h \in Hubs : client \notin {sock[h], taken[h]}
    BY <2>1 DEF SocketInv, FreshOK, Fresh
  <2>4. OwnOnly' /\ Link!CurrentIsOpen'
    BY <2>2, <2>3 DEF SocketInv, OwnOnly, Link!CurrentIsOpen
  <2>5. FreshOK'
    BY <2>1, <2>2, <2>3 DEF SocketInv, FreshOK, Fresh
  <2>6. AwayOK'
    BY <1>0, <2>1, <2>2, <2>3 DEF SocketInv, AwayOK, OwnOnly
  <2> QED
    BY <2>4, <2>5, <2>6 DEF SocketInv
<1>4. CASE Link!CloseExisting
  <2>1. /\ existing \notin Fresh /\ \A h \in Hubs : sock[h] # existing \/ existing = NoConn
    BY DEF SocketInv, FreshOK, AwayOK
  <2>2. CASE existing = NoConn
    <3>1. open' = open
      <4>1. NoConn \notin open
        BY <1>0 DEF Link!TypeOK
      <4> QED
        BY <1>4, <2>2, <4>1 DEF Link!CloseExisting
    <3>2. UNCHANGED << backlog, client, existing, sock, sampled, taken >>
      BY <1>4, <2>2 DEF Link!CloseExisting
    <3>3. AtAccept' = AtAccept
      BY <1>4 DEF Link!CloseExisting, AtAccept
    <3> QED
      BY <3>1, <3>2, <3>3, KeepAll
  <2>3. CASE existing # NoConn
    BY <1>0, <1>4, <2>1, <2>3 DEF Link!CloseExisting, AtAccept, SocketInv, OwnOnly,
       FreshOK, AwayOK, Link!CurrentIsOpen, Fresh, Link!Pending
  <2> QED
    BY <2>2, <2>3
<1>5. CASE Link!TellConnected
  BY <1>0, <1>5, KeepAll DEF Link!TellConnected, AtAccept, SocketInv, OwnOnly, FreshOK,
     AwayOK, Link!CurrentIsOpen, Fresh, Link!Pending
<1>6. CASE Link!Bounce
  BY <1>6, StopPort DEF Link!Bounce
<1>7. CASE Link!BounceEnd
  BY <1>7, KeepAll DEF Link!BounceEnd, AtAccept
<1>8. ASSUME NEW h \in Hubs, Link!BridgeStep(h) PROVE SocketInv'
  <2>1. CASE Link!Sample(h)
    BY <1>0, <2>1, KeepAll DEF Link!Sample, AtAccept
  <2>2. CASE Link!Eof(h) \/ Link!TellLost(h)
    BY <1>0, <2>2, KeepAll DEF Link!Eof, Link!TellLost, AtAccept
  <2>3. CASE Link!Clear(h)
    <3>1. sampled[h] # NoConn /\ sampled[h] \notin Fresh /\ Link!Owner(sampled[h]) = h
      BY <2>3 DEF Link!Clear, Link!TypeOK, SocketInv, FreshOK, OwnOnly
    <3>2. \A g \in Hubs : sock'[g] = IF g = h THEN NoConn ELSE sock[g]
      BY <1>0, <2>3 DEF Link!Clear
    <3>3. \A g \in Hubs : sock'[g] # sampled[h]
      BY <3>1, <3>2 DEF SocketInv, OwnOnly
    <3> QED
      BY <2>3, <3>1, <3>2, <3>3, CloseOne DEF Link!Clear
  <2> QED
    BY <1>8, <2>1, <2>2, <2>3 DEF Link!BridgeStep
<1>9. ASSUME NEW h \in Hubs, Link!ControlStep(h) PROVE SocketInv'
  <2>1. CASE Link!Start(h) \/ Link!Pause(h) \/ Link!PauseEnd(h)
    BY <2>1, KeepAll DEF Link!Start, Link!Pause, Link!PauseEnd, AtAccept
  <2>2. CASE Link!TakeSocket(h)
    BY <1>0, <2>2, KeepAll DEF Link!TakeSocket, AtAccept
  <2>3. CASE Link!CloseTaken(h)
    <3>1. /\ taken[h] # NoConn /\ taken[h] \notin Fresh /\ Link!Owner(taken[h]) = h
          /\ sock[h] # taken[h]
      BY <2>3 DEF Link!CloseTaken, Link!TypeOK, SocketInv, FreshOK, OwnOnly, AwayOK
    <3>2. \A g \in Hubs : taken'[g] = IF g = h THEN NoConn ELSE taken[g]
      BY <1>0, <2>3 DEF Link!CloseTaken
    <3>3. \A g \in Hubs : sock[g] # taken[h]
      BY <3>1 DEF SocketInv, OwnOnly
    <3> QED
      BY <2>3, <3>1, <3>2, <3>3, CloseOne DEF Link!CloseTaken
  <2>4. CASE Link!StopUnregister(h)
    <3>1. CASE Link!StopListening
      BY <2>4, <3>1, StopPort DEF Link!StopUnregister
    <3>2. CASE ~Link!StopListening
      BY <2>4, <3>2, KeepAll DEF Link!StopUnregister, AtAccept
    <3> QED
      BY <3>1, <3>2
  <2>5. CASE Link!StopClose(h)
    <3>1. /\ \A g \in Hubs : sock'[g] = IF g = h THEN NoConn ELSE sock[g]
          /\ open' = open \ {sock[h]}
          /\ UNCHANGED << backlog, apc, client, existing, sampled, taken >>
      BY <1>0, <2>5 DEF Link!StopClose
    <3>2. CASE sock[h] = NoConn
      BY ZenonT(60), <1>0, <3>1, <3>2, KeepAll DEF AtAccept, Link!TypeOK
    <3>3. CASE sock[h] # NoConn
      <4>1. sock[h] \notin Fresh /\ \A g \in Hubs : sock'[g] # sock[h]
        BY <3>1, <3>3 DEF SocketInv, FreshOK, OwnOnly
      <4> QED
        BY <3>1, <4>1, CloseOne
    <3> QED
      BY <3>2, <3>3
  <2> QED
    BY <1>9, <2>1, <2>2, <2>3, <2>4, <2>5 DEF Link!ControlStep
<1>10. ASSUME NEW h \in Hubs, Link!Connect(h) PROVE SocketInv'
  <2>1. PICK c \in ({h} \X Slots) \ (open \cup Link!Held) :
              open' = open \cup {c} /\ backlog' = Append(backlog, c)
    BY <1>10 DEF Link!Connect
  <2>2. /\ c \in Link!Conns /\ c \notin Link!Pending /\ c # client /\ c # existing
        /\ \A g \in Hubs : c \notin {sock[g], sampled[g], taken[g]}
    BY <2>1 DEF Link!Held, Link!Conns
  <2>3. /\ Link!Pending' = Link!Pending \cup {c} /\ IsInjective(backlog')
    BY <1>0, <2>1, <2>2, AppendRange, PendingIs DEF SocketInv, FreshOK
  <2>4. /\ UNCHANGED << client, existing, sock, sampled, taken >> /\ AtAccept' = AtAccept
        /\ c \notin AtAccept
    BY <1>10, <2>2 DEF Link!Connect, AtAccept
  <2>5. FreshOK'
    BY <2>1, <2>2, <2>3, <2>4 DEF SocketInv, FreshOK, Fresh
  <2> QED
    BY <2>1, <2>4, <2>5 DEF SocketInv, OwnOnly, AwayOK, Link!CurrentIsOpen
<1>11. ASSUME NEW h \in Hubs, Link!HubStep(h) PROVE SocketInv'
  <2>1. CASE Link!Leave(h)
    BY <2>1, KeepAll DEF Link!Leave, AtAccept
  <2> QED
    BY <1>10, <1>11, <2>1 DEF Link!HubStep, Link!Redial, Link!CallMe
<1>12. ASSUME NEW c \in Link!Conns, Link!Collect(c) PROVE SocketInv'
  <2>1. c \notin Fresh /\ \A h \in Hubs : sock[h] # c
    BY <1>12 DEF Link!Collect, Link!Held, Fresh, AtAccept
  <2> QED
    BY <1>12, <2>1, CloseOne DEF Link!Collect
<1>13. CASE UNCHANGED Link!vars
  BY <1>13, KeepAll DEF Link!vars, AtAccept
<1> QED
  BY <1>1, <1>2, <1>3, <1>4, <1>5, <1>6, <1>7, <1>8, <1>9, <1>11, <1>12, <1>13
     DEF Link!Next, Link!AcceptStep

\* CurrentIsOpen holds in every reachable state: whichever thread closes a socket,
\* it is not the one the bridge uses.
THEOREM CurrentStaysOpen == Link!Spec => []CurrentIsOpen
<1>1. Link!Spec => [](LinkType /\ SocketInv)
  BY InitLinkType, InitSocket, LinkTypeStep, SocketStep, PTL DEF Link!Spec
<1> QED
  BY <1>1, PTL DEF SocketInv, CurrentIsOpen

-----------------------------------------------------------------------------
(* The pause.                                                              *)

\* A connection that was taken up in a pause is still at the check.
RefusedOK == \A c \in refused : /\ c = client /\ apc \in {"lookup", "check"}
                                /\ paused[Link!Owner(c)]

LEMMA RefusedStep ==
  LinkType /\ RefusedOK /\ [Link!Next]_(Link!vars) => RefusedOK'
<1> SUFFICES ASSUME Link!TypeOK, RefusedOK, [Link!Next]_(Link!vars) PROVE RefusedOK'
  BY DEF LinkType
<1> USE DEF RefusedOK, Link!acceptor, Link!ota
<1>1. CASE Link!Accept
  <2>1. refused = {}
    BY <1>1 DEF Link!Accept
  <2> QED
    BY <1>1, <2>1 DEF Link!Accept
<1>2. CASE Link!Lookup \/ Link!CheckPause
  BY <1>2 DEF Link!Lookup, Link!CheckPause, Link!Reject
<1>3. CASE Link!Swap \/ Link!CloseExisting \/ Link!TellConnected
  BY <1>3 DEF Link!Swap, Link!CloseExisting, Link!TellConnected
<1>4. CASE Link!Bounce \/ Link!BounceEnd
  BY <1>4 DEF Link!Bounce, Link!BounceEnd
<1>5. ASSUME NEW h \in Hubs, Link!BridgeStep(h) PROVE RefusedOK'
  <2>1. UNCHANGED << apc, client, refused, paused >>
    BY <1>5 DEF Link!BridgeStep, Link!Sample, Link!Eof, Link!Clear, Link!TellLost
  <2> QED
    BY <2>1
<1>6. ASSUME NEW h \in Hubs, Link!Pause(h) PROVE RefusedOK'
  <2>1. \A g \in Hubs : paused[g] => paused'[g]
    BY <1>6 DEF Link!Pause, Link!TypeOK
  <2>2. \A c \in refused : Link!Owner(c) \in Hubs
    BY DEF Link!TypeOK, Link!Conns, Link!Owner
  <2> QED
    BY <1>6, <2>1, <2>2 DEF Link!Pause
<1>7. ASSUME NEW h \in Hubs, Link!PauseEnd(h) PROVE RefusedOK'
  <2>1. \A g \in Hubs \ {h} : paused'[g] = paused[g]
    BY <1>7 DEF Link!PauseEnd, Link!TypeOK
  <2>2. \A c \in refused : Link!Owner(c) \in Hubs
    BY DEF Link!TypeOK, Link!Conns, Link!Owner
  <2> QED
    BY <1>7, <2>1, <2>2 DEF Link!PauseEnd
<1>8. ASSUME NEW h \in Hubs, Link!ControlStep(h) PROVE RefusedOK'
  <2>1. CASE ~(Link!Pause(h) \/ Link!PauseEnd(h))
    <3>1. UNCHANGED << apc, client, refused, paused >>
      BY <1>8, <2>1 DEF Link!ControlStep, Link!Start, Link!TakeSocket, Link!CloseTaken, Link!StopUnregister,
                        Link!StopClose
    <3> QED
      BY <3>1
  <2> QED
    BY <1>6, <1>7, <2>1
<1>9. ASSUME NEW h \in Hubs, Link!HubStep(h) PROVE RefusedOK'
  <2>1. UNCHANGED << apc, client, refused, paused >>
    BY <1>9 DEF Link!HubStep, Link!Redial, Link!CallMe, Link!Connect, Link!Leave
  <2> QED
    BY <2>1
<1>10. ASSUME NEW c \in Link!Conns, Link!Collect(c) PROVE RefusedOK'
  BY <1>10 DEF Link!Collect
<1>11. CASE UNCHANGED Link!vars
  BY <1>11 DEF Link!vars
<1> QED
  BY <1>1, <1>2, <1>3, <1>4, <1>5, <1>8, <1>9, <1>10, <1>11 DEF Link!Next, Link!AcceptStep

\* PauseRefuses holds in every reachable state: no thread installs a connection
\* that was taken up in the current pause of its hub.
THEOREM PauseIsKept == Link!Spec => []Link!PauseRefuses
<1>1. Link!Init => RefusedOK
  BY DEF Link!Init, RefusedOK
<1>2. SocketInv /\ RefusedOK => Link!PauseRefuses
  <2> SUFFICES ASSUME SocketInv, RefusedOK, NEW h \in Hubs, sock[h] \in refused
               PROVE  FALSE
    BY DEF Link!PauseRefuses
  <2>1. sock[h] \in AtAccept
    BY DEF RefusedOK, AtAccept
  <2> QED
    BY <2>1 DEF SocketInv, FreshOK, Fresh
<1>3. Link!Spec => [](LinkType /\ SocketInv /\ RefusedOK)
  BY <1>1, InitLinkType, InitSocket, LinkTypeStep, SocketStep, RefusedStep, PTL DEF Link!Spec
<1> QED
  BY <1>2, <1>3, PTL
=============================================================================
