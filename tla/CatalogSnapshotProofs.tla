------------------------ MODULE CatalogSnapshotProofs ------------------------
(***************************************************************************)
(* A committed catalog is a whole version of the hub's table, and as long  *)
(* as no frame left over another a recent one, for tables of any size and  *)
(* any number of changes, requests and lost sessions.                      *)
(*                                                                         *)
(* SnapshotIsWhole is not inductive: what will be committed is in the      *)
(* pending snapshot, and what will be put there in the answer the hub      *)
(* streams.  Pure says that a pending snapshot that has row 1 has rows of  *)
(* one version only and expects as many as that version has; InStep that   *)
(* the rest of the answer under way is of that version, too.               *)
(*                                                                         *)
(* The last part is about Reads.tla, those who wait for tables.            *)
(***************************************************************************)
EXTENDS CatalogSnapshot, MCReads, SequenceTheorems, TLAPS

RowMaps == UNION {[D -> Nat] : D \in SUBSET (Nat \ {0})}
Pending == [inflight : Int, gen : Int, expected : Int, rows : RowMaps, serial : Nat]

\* A pending snapshot p of a table whose versions have the sizes h.
Pure(h, p) ==
  /\ p \in Pending
  /\ p.inflight = None => DOMAIN p.rows = {}
  /\ 1 \in DOMAIN p.rows =>
       /\ p.rows[1] \in 1 .. Len(h)
       /\ \A i \in DOMAIN p.rows : p.rows[i] = p.rows[1]
       /\ p.expected = h[p.rows[1]]

AllPure(p) == p \in [Catalogs -> Pending] /\ \A c \in Catalogs : Pure(hist[c], p[c])

\* The pending snapshots p and the answer a.
InStep(p, a) ==
  \A c \in Catalogs :
    a.kind = c /\ a.next # 1 /\ 1 \in DOMAIN p[c].rows => p[c].rows[1] = a.version

HistOK == hist \in [Catalogs -> Seq(Nat)] /\ \A c \in Catalogs : Len(hist[c]) > 0

AnswerOK ==
  /\ answer = [kind |-> answer.kind, version |-> answer.version, next |-> answer.next]
  /\ answer.version \in Nat /\ answer.next \in Nat
  /\ answer.kind \in Catalogs =>
       answer.next # 0 /\ answer.version \in 1 .. Len(hist[answer.kind])

StoreOK == committed \in [Catalogs -> RowMaps] /\ ready \in [Catalogs -> BOOLEAN]

SnapshotInv ==
  HistOK /\ AnswerOK /\ StoreOK /\ AllPure(pend) /\ InStep(pend, answer) /\ SnapshotIsWhole

-----------------------------------------------------------------------------
(* One pending snapshot.                                                   *)

\* Names of kinds that are not catalogs.
LEMMA Kinds ==
  Entity \notin Catalogs /\ Xchg \notin Catalogs /\ Nothing \notin Catalogs
  /\ Idle \notin Catalogs /\ Acts \in Catalogs /\ "devices" \in Catalogs
BY DEF Entity, Xchg, Nothing, Idle, Acts, Catalogs

LEMMA EmptyRows == << >> \in RowMaps /\ DOMAIN << >> = {}
<1>1. << >> \in [{} -> Nat]
  OBVIOUS
<1>. QED
  BY <1>1 DEF RowMaps

LEMMA RowMapDomain ==
  ASSUME NEW r \in RowMaps
  PROVE  /\ DOMAIN r \subseteq Nat \ {0}
         /\ \A i \in DOMAIN r : r[i] \in Nat
         /\ r = [i \in DOMAIN r |-> r[i]]
<1>1. PICK D \in SUBSET (Nat \ {0}) : r \in [D -> Nat]
  BY DEF RowMaps
<1>. QED
  BY <1>1

\* Overwriting a field keeps the type.
LEMMA Fields ==
  ASSUME NEW p \in Pending
  PROVE  /\ \A g \in Int : [p EXCEPT !.inflight = g] \in Pending
         /\ \A g \in Int : [p EXCEPT !.gen = g] \in Pending
         /\ \A g \in Int : [p EXCEPT !.expected = g] \in Pending
         /\ \A r \in RowMaps : [p EXCEPT !.rows = r] \in Pending
         /\ \A s \in Nat : [p EXCEPT !.serial = s] \in Pending
BY DEF Pending

\* A reset empties the snapshot, whatever it held.
LEMMA ResetIsPure ==
  ASSUME NEW h, NEW p \in Pending, NEW g \in Int
  PROVE  /\ Pure(h, Reset(p, g)) /\ DOMAIN Reset(p, g).rows = {}
         /\ Reset(p, g) \in Pending /\ Reset(p, g).inflight = p.inflight
<1>1. None \in Int /\ << >> \in RowMaps
  BY EmptyRows DEF None
<1>2. Reset(p, g) =
        [[[p EXCEPT !.gen = g] EXCEPT !.expected = None] EXCEPT !.rows = << >>]
  BY DEF Reset
<1>3. Reset(p, g) \in Pending
  <2>1. [p EXCEPT !.gen = g] \in Pending
    BY Fields
  <2>2. [[p EXCEPT !.gen = g] EXCEPT !.expected = None] \in Pending
    BY <1>1, <2>1, Fields
  <2>. QED
    BY <1>1, <1>2, <2>2, Fields
<1>4. Reset(p, g).rows = << >> /\ Reset(p, g).inflight = p.inflight
  BY DEF Reset, Pending
<1>. QED
  BY <1>3, <1>4, EmptyRows DEF Pure

\* A request that leaves starts from an empty snapshot.
LEMMA BegunIsPure ==
  ASSUME NEW h, NEW p \in Pending
  PROVE  Pure(h, Begun(p)) /\ DOMAIN Begun(p).rows = {}
<1>1. p.serial + 1 \in Nat /\ p.serial + 1 \in Int
  BY DEF Pending
<1>2. [[p EXCEPT !.serial = p.serial + 1] EXCEPT !.inflight = p.serial + 1] \in Pending
  BY <1>1, Fields
<1>3. PICK q \in Pending : Begun(p) = Reset(q, p.serial + 1)
  BY <1>2 DEF Begun
<1>. QED
  BY ZenonT(60), <1>1, <1>3, ResetIsPure

\* The end of a request leaves an empty snapshot and no request.
LEMMA EndedIsPure ==
  ASSUME NEW h, NEW p \in Pending
  PROVE  LET q == Reset([p EXCEPT !.inflight = None], None)
         IN  Pure(h, q) /\ DOMAIN q.rows = {}
<1>1. None \in Int
  BY DEF None
<1>2. [p EXCEPT !.inflight = None] \in Pending
  BY <1>1, Fields
<1>. QED
  BY <1>1, <1>2, ResetIsPure

\* Row i of version v, of a table whose versions have the sizes h, leaves a pure
\* snapshot; one that has row 1 then has it from version v.
LEMMA IngestIsPure ==
  ASSUME NEW h \in Seq(Nat), NEW p, Pure(h, p), NEW v \in 1 .. Len(h),
         NEW i \in Nat \ {0},
         i # 1 /\ 1 \in DOMAIN p.rows => p.rows[1] = v
  PROVE  LET q == Ingest(p, i, h[v], v)
         IN  Pure(h, q) /\ (1 \in DOMAIN q.rows => q.rows[1] = v)
<1>. DEFINE n == h[v]
            q == Restart(p, i, n)
<1>1. n \in Nat /\ n \in Int /\ v \in Nat /\ p \in Pending /\ p.inflight \in Int
  BY DEF Pure, Pending
<1>2. /\ q \in Pending /\ q.inflight = p.inflight
      /\ q = p \/ DOMAIN q.rows = {}
      /\ i = 1 => DOMAIN q.rows = {}
  BY <1>1, ResetIsPure DEF Restart
<1>3. CASE Accepts(p, i, n)
  <2>. DEFINE f == [j \in DOMAIN q.rows \cup {i} |-> IF j = i THEN v ELSE q.rows[j]]
              r == Put(q, i, n, v)
  <2>1. q.rows \in RowMaps
    BY <1>2 DEF Pending
  <2>2. f \in [DOMAIN q.rows \cup {i} -> Nat] /\ DOMAIN q.rows \cup {i} \in SUBSET (Nat \ {0})
    BY <1>1, <2>1, RowMapDomain
  <2>3. f \in RowMaps
    BY <2>2 DEF RowMaps
  <2>4. r = [[q EXCEPT !.expected = n] EXCEPT !.rows = f]
    BY DEF Put
  <2>5. r \in Pending
    <3>. HIDE DEF f, q, n
    <3>1. [q EXCEPT !.expected = n] \in Pending
      BY <1>1, <1>2, Fields
    <3>. QED BY <2>3, <2>4, <3>1, Fields
  <2>6. r.rows = f /\ r.expected = n /\ r.inflight = q.inflight
    <3>. HIDE DEF f, q, n, r
    <3>. QED BY <1>2, <2>4 DEF Pending
  <2>7. q.inflight # None
    BY <1>2, <1>3 DEF Accepts
  <2>8. ASSUME 1 \in DOMAIN f
        PROVE  f[1] = v /\ \A j \in DOMAIN f : f[j] = v
    <3>1. CASE i = 1
      BY <1>2, <3>1
    <3>2. CASE i # 1
      <4>1. 1 \in DOMAIN q.rows
        BY <2>8, <3>2
      <4>2. q = p
        BY <1>2, <4>1
      <4>3. p.rows[1] = v /\ \A j \in DOMAIN p.rows : p.rows[j] = v
        BY <3>2, <4>1, <4>2 DEF Pure
      <4>. QED
        BY <3>2, <4>1, <4>2, <4>3
    <3>. QED
      BY <3>1, <3>2
  <2>9. Ingest(p, i, n, v) = r
    BY <1>3 DEF Ingest
  <2>10. Pure(h, r) /\ (1 \in DOMAIN r.rows => r.rows[1] = v)
    <3>. HIDE DEF f, q, r
    <3>. QED BY <2>5, <2>6, <2>7, <2>8 DEF Pure
  <2>. QED
    BY <2>9, <2>10
<1>4. CASE ~Accepts(p, i, n)
  <2>1. CASE p.inflight = None \/ p.gen # p.inflight
    <3>1. Ingest(p, i, n, v) = p
      BY <1>4, <2>1 DEF Ingest
    <3>2. i = 1 => 1 \notin DOMAIN p.rows
      BY <1>4 DEF Accepts, Pure
    <3>. QED
      BY <3>1, <3>2
  <2>2. CASE ~(p.inflight = None \/ p.gen # p.inflight)
    <3>. DEFINE r == [q EXCEPT !.expected = n]
    <3>1. Ingest(p, i, n, v) = r
      BY <1>4, <2>2 DEF Ingest
    <3>2. q = Reset(p, p.inflight)
      BY <1>4, <2>2 DEF Accepts, Restart
    <3>3. DOMAIN q.rows = {}
      BY <1>1, <3>2, ResetIsPure
    <3>4. r \in Pending
      <4>. HIDE DEF q, n
      <4>. QED BY <1>1, <1>2, Fields, EmptyRows
    <3>5. r.rows = q.rows /\ r.inflight = q.inflight
      <4>. HIDE DEF q, n
      <4>. QED BY <1>2 DEF Pending
    <3>6. Pure(h, r) /\ 1 \notin DOMAIN r.rows
      <4>. HIDE DEF q, r
      <4>. QED BY <3>3, <3>4, <3>5 DEF Pure
    <3>. QED
      BY <3>1, <3>6
  <2>. QED
    BY <2>1, <2>2
<1>. QED
  BY <1>3, <1>4

\* A further version leaves a pure snapshot pure.
LEMMA PureGrows ==
  ASSUME NEW h \in Seq(Nat), NEW g \in Seq(Nat), Len(h) <= Len(g),
         \A v \in 1 .. Len(h) : g[v] = h[v],
         NEW p, Pure(h, p)
  PROVE  Pure(g, p)
<1>1. 1 .. Len(h) \subseteq 1 .. Len(g)
  OBVIOUS
<1>. QED
  BY <1>1 DEF Pure

\* What is complete is a whole version, or empty.
LEMMA CompleteIsWhole ==
  ASSUME NEW c \in Catalogs, NEW p, Pure(hist[c], p), Complete(p), HistOK
  PROVE  /\ p.rows \in RowMaps
         /\ p.rows = << >> \/ \E v \in 1 .. Last(c) : p.rows = Table(c, v)
<1>1. p.rows \in RowMaps /\ p.expected \in Int /\ DOMAIN p.rows = 1 .. p.expected
  BY DEF Pure, Pending, Complete
<1>2. p.rows = [i \in DOMAIN p.rows |-> p.rows[i]]
  BY <1>1, RowMapDomain
<1>3. CASE 1 \in DOMAIN p.rows
  <2>1. p.rows[1] \in 1 .. Last(c) /\ p.expected = hist[c][p.rows[1]]
    BY <1>3 DEF Pure, Last
  <2>2. p.rows = [i \in 1 .. p.expected |-> p.rows[1]]
    BY <1>1, <1>2, <1>3 DEF Pure
  <2>3. p.rows = Table(c, p.rows[1])
    BY <2>1, <2>2 DEF Table
  <2>. QED
    BY <1>1, <2>1, <2>3
<1>4. CASE 1 \notin DOMAIN p.rows
  <2>1. DOMAIN p.rows = {}
    BY <1>1, <1>4
  <2>2. p.rows = << >>
    BY <1>2, <2>1
  <2>. QED
    BY <1>1, <2>2
<1>. QED
  BY <1>3, <1>4

-----------------------------------------------------------------------------
(* The steps.                                                              *)

\* Replacing one pending snapshot by a pure one.
LEMMA SetPure ==
  ASSUME NEW p, AllPure(p), NEW c \in Catalogs, NEW q, Pure(hist[c], q)
  PROVE  AllPure([p EXCEPT ![c] = q])
BY DEF AllPure, Pure

\* No answer is out of step with anything.
LEMMA NoAnswerInStep == ASSUME NEW p PROVE InStep(p, NoAnswer)
BY Kinds DEF InStep, NoAnswer

\* Sending begins a new snapshot at most.
LEMMA SendKeeps ==
  ASSUME NEW k, NEW p, NEW r, AllPure(p), InStep(p, answer'), UNCHANGED hist, Send(k, p, r)
  PROVE  AllPure(pend)' /\ InStep(pend, answer)'
<1>1. CASE k \in Catalogs
  <2>. DEFINE q == [p EXCEPT ![k] = Begun(p[k])]
  <2>1. p[k] \in Pending
    BY <1>1 DEF AllPure, Pure
  <2>2. Pure(hist[k], Begun(p[k])) /\ DOMAIN Begun(p[k]).rows = {}
    BY <2>1, BegunIsPure
  <2>3. AllPure(q)
    BY <1>1, <2>2, SetPure
  <2>4. InStep(q, answer')
    BY <1>1, <2>2 DEF InStep, AllPure
  <2>5. pend' = q
    BY <1>1 DEF Send
  <2>. QED
    BY <2>3, <2>4, <2>5 DEF AllPure, InStep
<1>2. CASE k \notin Catalogs
  <2>1. pend' = p
    BY <1>2 DEF Send
  <2>. QED
    BY <2>1 DEF AllPure, InStep
<1>. QED
  BY <1>1, <1>2

\* The end of a burst commits what is whole or discards it.
LEMMA DrainKeeps ==
  ASSUME NEW k, NEW p, AllPure(p), InStep(p, answer'), UNCHANGED hist,
         HistOK, StoreOK, SnapshotIsWhole, Drain(k, p)
  PROVE  StoreOK' /\ SnapshotIsWhole' /\ AllPure(pend)' /\ InStep(pend, answer)'
<1>. DEFINE done  == k \in Catalogs /\ Complete(p[k])
            e     == Reset([p[k] EXCEPT !.inflight = None], None)
            ended == IF k \in Catalogs THEN [p EXCEPT ![k] = e] ELSE p
            after == AfterEnd(retry, k, done)
<1>1. StoreOK' /\ SnapshotIsWhole'
  <2>1. CASE done
    <3>1. /\ p[k].rows \in RowMaps
          /\ p[k].rows = << >> \/ \E v \in 1 .. Last(k) : p[k].rows = Table(k, v)
      BY <2>1, CompleteIsWhole DEF AllPure
    <3>2. committed' = [committed EXCEPT ![k] = p[k].rows] /\ ready' = [ready EXCEPT ![k] = TRUE]
      BY <2>1 DEF Drain
    <3>3. k \in Catalogs
      BY <2>1
    <3>. QED
      BY ZenonT(60), <3>1, <3>2, <3>3 DEF StoreOK, SnapshotIsWhole, Last, Table
  <2>2. CASE ~done
    <3>1. committed' = committed /\ ready' = ready
      BY <2>2 DEF Drain
    <3>. QED
      BY <3>1 DEF StoreOK, SnapshotIsWhole, Last, Table
  <2>. QED
    BY <2>1, <2>2
<1>2. AllPure(ended) /\ InStep(ended, answer')
  <2>1. CASE k \in Catalogs
    <3>1. p[k] \in Pending
      BY <2>1 DEF AllPure, Pure
    <3>2. Pure(hist[k], e) /\ DOMAIN e.rows = {}
      BY <3>1, EndedIsPure
    <3>. HIDE DEF e
    <3>. QED
      BY <2>1, <3>2, SetPure DEF InStep, AllPure
  <2>2. CASE k \notin Catalogs
    BY <2>2
  <2>. QED
    BY <2>1, <2>2
<1>3. AllPure(pend)' /\ InStep(pend, answer)'
  <2>1. CASE queue = << >> \/ ~CanIssue
    <3>1. pend' = ended
      BY <2>1 DEF Drain
    <3>. HIDE DEF ended
    <3>. QED
      BY <1>2, <3>1 DEF AllPure, InStep
  <2>2. CASE ~(queue = << >> \/ ~CanIssue)
    <3>1. Send(Head(queue), ended, after)
      BY <2>2 DEF Drain
    <3>. HIDE DEF ended, after
    <3>. QED
      BY <1>2, <3>1, SendKeeps
  <2>. QED
    BY <2>1, <2>2
<1>. QED
  BY <1>1, <1>3

\* What a step of the proxy needs to leave of the rest.
ProxyStep == UNCHANGED hist /\ AnswerOK' /\ StoreOK' /\ SnapshotIsWhole'
             /\ AllPure(pend)' /\ InStep(pend, answer)'

LEMMA ProxyStepKeeps == ASSUME SnapshotInv, ProxyStep PROVE SnapshotInv'
BY DEF SnapshotInv, ProxyStep, HistOK

\* A step that leaves hub, snapshots and catalogs alone.
LEMMA Untouched ==
  ASSUME SnapshotInv, UNCHANGED << hist, answer, pend, committed, ready >>
  PROVE  SnapshotInv'
BY DEF SnapshotInv, HistOK, AnswerOK, StoreOK, AllPure, InStep, SnapshotIsWhole, Last, Table

\* A drain that leaves the answer alone.
LEMMA QuietDrain ==
  ASSUME SnapshotInv, NEW k, Drain(k, pend), UNCHANGED << hist, answer >>
  PROVE  SnapshotInv'
<1>1. InStep(pend, answer') /\ AnswerOK'
  BY DEF SnapshotInv, InStep, AnswerOK
<1>2. ProxyStep
  BY <1>1, DrainKeeps DEF SnapshotInv, ProxyStep
<1>. QED
  BY <1>2, ProxyStepKeeps

\* queue_or_send.
LEMMA IssueKeeps ==
  ASSUME SnapshotInv, NEW k, Issue(k), UNCHANGED hist
  PROVE  SnapshotInv'
<1>1. UNCHANGED << answer, committed, ready >>
  BY DEF Issue, state
<1>2. CASE UNCHANGED pend
  BY <1>1, <1>2, Untouched
<1>3. CASE Send(k, pend, retry)
  <2>1. InStep(pend, answer') /\ AnswerOK' /\ StoreOK' /\ SnapshotIsWhole'
    BY <1>1 DEF SnapshotInv, InStep, AnswerOK, StoreOK, SnapshotIsWhole, Last, Table
  <2>2. ProxyStep
    BY <1>3, <2>1, SendKeeps DEF SnapshotInv, ProxyStep
  <2>. QED
    BY <2>2, ProxyStepKeeps
<1>. QED
  BY <1>2, <1>3 DEF Issue

\* A row of the answer that the hub streams.
LEMMA RowKeeps ==
  ASSUME SnapshotInv, UNCHANGED hist, answer.kind \in Catalogs,
         RowFrame(answer.kind, answer.version, answer.next),
         answer' = IF answer.next = hist[answer.kind][answer.version] THEN NoAnswer
                   ELSE [answer EXCEPT !.next = answer.next + 1]
  PROVE  SnapshotInv'
<1>. DEFINE c == answer.kind
            v == answer.version
            i == answer.next
            q == Ingest(pend[c], i, hist[c][v], v)
            p == [pend EXCEPT ![c] = q]
<1>1. /\ v \in 1 .. Len(hist[c]) /\ i \in Nat \ {0} /\ hist[c] \in Seq(Nat)
      /\ Pure(hist[c], pend[c])
      /\ i # 1 /\ 1 \in DOMAIN pend[c].rows => pend[c].rows[1] = v
  BY DEF SnapshotInv, AnswerOK, HistOK, AllPure, InStep
<1>2. Pure(hist[c], q) /\ (1 \in DOMAIN q.rows => q.rows[1] = v)
  BY <1>1, IngestIsPure
<1>3. AllPure(p)
  <2>. HIDE DEF q
  <2>. QED
    BY <1>2, SetPure DEF SnapshotInv
<1>4. AnswerOK' /\ (answer' = NoAnswer \/ (answer'.kind = c /\ answer'.version = v))
  <2>1. CASE answer' = NoAnswer
    BY <2>1, Kinds DEF AnswerOK, NoAnswer
  <2>2. CASE answer' = [answer EXCEPT !.next = answer.next + 1]
    BY <2>2 DEF SnapshotInv, AnswerOK
  <2>. QED
    BY <2>1, <2>2
<1>5. InStep(p, answer')
  <2>1. CASE answer' = NoAnswer
    BY <2>1, NoAnswerInStep
  <2>2. CASE answer'.kind = c /\ answer'.version = v
    <3>. HIDE DEF q, v, c
    <3>1. pend \in [Catalogs -> Pending]
      BY DEF SnapshotInv, AllPure
    <3>2. p[c] = q \/ c \notin Catalogs
      BY <3>1
    <3>. QED
      BY <1>2, <2>2, <3>2 DEF InStep
  <2>. QED
    BY <1>4, <2>1, <2>2
<1>6. CASE Accepts(pend[c], i, hist[c][v]) /\ Complete(p[c])
  <2>1. Drain(c, p)
    BY <1>6 DEF RowFrame
  <2>2. ProxyStep
    <3>. HIDE DEF p
    <3>. QED
      BY <1>3, <1>4, <1>5, <2>1, DrainKeeps DEF SnapshotInv, ProxyStep
  <2>. QED
    BY <2>2, ProxyStepKeeps
<1>7. CASE ~(Accepts(pend[c], i, hist[c][v]) /\ Complete(p[c]))
  <2>1. pend' = p /\ UNCHANGED << committed, ready >>
    BY <1>7 DEF RowFrame, state
  <2>2. ProxyStep
    <3>. HIDE DEF p
    <3>. QED
      BY <1>3, <1>4, <1>5, <2>1
      DEF SnapshotInv, ProxyStep, StoreOK, SnapshotIsWhole, Last, Table, AllPure, InStep
  <2>. QED
    BY <2>2, ProxyStepKeeps
<1>. QED
  BY <1>6, <1>7

\* A status 0x07, which ends the answer.
LEMMA StatusKeeps ==
  ASSUME SnapshotInv, UNCHANGED hist, answer' = NoAnswer, StatusFrame
  PROVE  SnapshotInv'
<1>1. AnswerOK'
  BY Kinds DEF AnswerOK, NoAnswer
<1>2. CASE UNCHANGED << pend, state >>
  <2>1. ProxyStep
    BY <1>1, <1>2, NoAnswerInStep
    DEF SnapshotInv, ProxyStep, StoreOK, SnapshotIsWhole, Last, Table, AllPure, InStep, state
  <2>. QED
    BY <2>1, ProxyStepKeeps
<1>3. CASE Drain(Entity, pend)
  <2>1. ProxyStep
    BY <1>1, <1>3, NoAnswerInStep, DrainKeeps DEF SnapshotInv, ProxyStep
  <2>. QED
    BY <2>1, ProxyStepKeeps
<1>4. CASE burst # Xchg /\ Claimed # Nothing
  <2>. DEFINE c == Claimed
              b == IF pend[c].gen # pend[c].inflight
                   THEN Reset(pend[c], pend[c].inflight) ELSE pend[c]
              q == [b EXCEPT !.expected = 0]
              p == [pend EXCEPT ![c] = q]
  <2>1. c \in Catalogs /\ Claims(c)
    BY <1>4, Kinds DEF Claimed
  <2>2. /\ pend[c] \in Pending /\ pend[c].inflight \in Int
        /\ DOMAIN pend[c].rows = {} /\ Pure(hist[c], pend[c])
    BY <2>1 DEF SnapshotInv, AllPure, Pure, Pending, Claims
  <2>3. b \in Pending /\ DOMAIN b.rows = {}
    BY <2>2, ResetIsPure
  <2>4. q \in Pending
    <3>. HIDE DEF b
    <3>. QED BY <2>3, Fields
  <2>5. q.rows = b.rows
    <3>. HIDE DEF b
    <3>. QED BY <2>3 DEF Pending
  <2>6. Pure(hist[c], q)
    <3>. HIDE DEF b, q
    <3>. QED BY <2>3, <2>4, <2>5 DEF Pure
  <2>7. AllPure(p) /\ InStep(p, answer')
    <3>. HIDE DEF q, c
    <3>. QED BY <2>1, <2>6, SetPure, NoAnswerInStep DEF SnapshotInv
  <2>8. ProxyStep
    <3>1. CASE Drain(c, p)
      <4>. HIDE DEF p, c
      <4>. QED
        BY <1>1, <2>7, <3>1, DrainKeeps DEF SnapshotInv, ProxyStep
    <3>2. CASE pend' = p /\ UNCHANGED << committed, ready >>
      <4>. HIDE DEF p, c
      <4>. QED
        BY <1>1, <2>7, <3>2
        DEF SnapshotInv, ProxyStep, StoreOK, SnapshotIsWhole, Last, Table, AllPure, InStep
    <3>. QED
      BY <1>4, <3>1, <3>2 DEF StatusFrame, StatusClaimed, state
  <2>. QED
    BY <2>8, ProxyStepKeeps
<1>. QED
  BY <1>2, <1>3, <1>4 DEF StatusFrame, StatusClaimed

\* A frame of the hub.
LEMMA FrameKeeps == ASSUME SnapshotInv, HubFrame PROVE SnapshotInv'
<1>1. UNCHANGED hist
  BY DEF HubFrame
<1>2. ASSUME answer.kind \in Catalogs,
             RowFrame(answer.kind, answer.version, answer.next),
             answer' = IF answer.next = hist[answer.kind][answer.version] THEN NoAnswer
                       ELSE [answer EXCEPT !.next = answer.next + 1]
      PROVE  SnapshotInv'
  BY <1>1, <1>2, RowKeeps
<1>3. ASSUME answer' = NoAnswer, StatusFrame
      PROVE  SnapshotInv'
  BY <1>1, <1>3, StatusKeeps
<1>4. ASSUME answer' = NoAnswer, Drain(Entity, pend) \/ UNCHANGED << pend, state >>
      PROVE  SnapshotInv'
  <2>1. AnswerOK' /\ InStep(pend, answer')
    BY <1>4, Kinds, NoAnswerInStep DEF AnswerOK, NoAnswer
  <2>2. ProxyStep
    <3>1. CASE Drain(Entity, pend)
      BY <1>1, <2>1, <3>1, DrainKeeps DEF SnapshotInv, ProxyStep
    <3>2. CASE UNCHANGED << pend, state >>
      BY <1>1, <2>1, <3>2
      DEF SnapshotInv, ProxyStep, StoreOK, SnapshotIsWhole, Last, Table, AllPure, InStep, state
    <3>. QED
      BY <1>4, <3>1, <3>2
  <2>. QED
    BY <2>2, ProxyStepKeeps
<1>. QED
  BY <1>2, <1>3, <1>4 DEF HubFrame

\* The steps of the hub and its session that are not frames.
LEMMA HubKeeps ==
  ASSUME SnapshotInv,
         HubBegin \/ HubCut \/ HubGone \/ \E c \in Catalogs : TableChange(c)
  PROVE  SnapshotInv'
<1>1. ASSUME answer' = NoAnswer, UNCHANGED << hist, HubUnchanged >>
      PROVE  SnapshotInv'
  <2>1. AnswerOK' /\ InStep(pend, answer')
    BY <1>1, Kinds, NoAnswerInStep DEF AnswerOK, NoAnswer
  <2>2. ProxyStep
    BY <1>1, <2>1
    DEF SnapshotInv, ProxyStep, StoreOK, SnapshotIsWhole, Last, Table, AllPure, InStep,
        state, HubUnchanged
  <2>. QED
    BY <2>2, ProxyStepKeeps
<1>2. CASE HubCut
  BY <1>1, <1>2 DEF HubCut
<1>3. CASE HubGone
  BY <1>1, <1>3 DEF HubGone
<1>4. CASE HubBegin
  <2>. DEFINE k == Head(asked)
  <2>1. CASE answer' = NoAnswer
    BY <1>1, <1>4, <2>1 DEF HubBegin
  <2>2. CASE answer' = [kind |-> k, version |-> IF k \in Catalogs THEN Last(k) ELSE 0,
                         next |-> 1]
    <3>1. k \in Catalogs => Last(k) \in 1 .. Len(hist[k]) /\ Last(k) \in Nat
      BY DEF SnapshotInv, HistOK, Last
    <3>2. UNCHANGED << hist, pend, committed, ready >>
      BY <1>4 DEF HubBegin, HubUnchanged, state
    <3>3. AnswerOK' /\ InStep(pend, answer')
      <4>. HIDE DEF k
      <4>. QED
        BY <2>2, <3>1, <3>2 DEF AnswerOK, InStep
    <3>4. ProxyStep
      BY <3>2, <3>3
      DEF SnapshotInv, ProxyStep, StoreOK, SnapshotIsWhole, Last, Table, AllPure, InStep
    <3>. QED
      BY <3>4, ProxyStepKeeps
  <2>. QED
    BY <1>4, <2>1, <2>2 DEF HubBegin
<1>5. ASSUME NEW c \in Catalogs, TableChange(c)
      PROVE  SnapshotInv'
  <2>1. PICK n \in Sizes : hist' = [hist EXCEPT ![c] = Append(hist[c], n)]
    BY <1>5 DEF TableChange
  <2>2. n \in Nat
    BY CatalogBounds
  <2>3. UNCHANGED << pend, answer, committed, ready >>
    BY <1>5 DEF TableChange, HubUnchanged, state, hub
  <2>4. \A d \in Catalogs :
          /\ hist'[d] \in Seq(Nat) /\ Len(hist'[d]) >= Len(hist[d])
          /\ \A v \in 1 .. Len(hist[d]) : hist'[d][v] = hist[d][v]
    BY <2>1, <2>2 DEF SnapshotInv, HistOK
  <2>5. HistOK'
    <3>1. hist' \in [Catalogs -> Seq(Nat)]
      BY <2>1, <2>4 DEF SnapshotInv, HistOK
    <3>. QED
      BY SMTT(30), <2>4, <3>1 DEF SnapshotInv, HistOK
  <2>6. \A d \in Catalogs : Last(d) \in Nat /\ Last(d)' \in Nat /\ Last(d) <= Last(d)'
    BY <2>4 DEF SnapshotInv, HistOK, Last
  <2>7. AnswerOK'
    BY <2>3, <2>4, <2>6 DEF SnapshotInv, AnswerOK, Last
  <2>8. AllPure(pend)'
    <3>1. \A d \in Catalogs : Pure(hist'[d], pend[d])
      BY <2>4, PureGrows DEF SnapshotInv, AllPure, HistOK
    <3>. QED
      BY <2>3, <3>1 DEF SnapshotInv, AllPure
  <2>9. SnapshotIsWhole'
    <3>1. \A d \in Catalogs : \A v \in 1 .. Last(d) :
            v \in 1 .. Last(d)' /\ Table(d, v)' = Table(d, v)
      BY <2>4, <2>6 DEF Last, Table
    <3>. QED
      BY <2>3, <3>1 DEF SnapshotInv, SnapshotIsWhole
  <2>. QED
    BY <2>3, <2>5, <2>7, <2>8, <2>9 DEF SnapshotInv, StoreOK, InStep
<1>. QED
  BY <1>2, <1>3, <1>4, <1>5

\* The app reads through the proxy.
LEMMA AppAskKeeps == ASSUME SnapshotInv, NEW k, AppAsk(k) PROVE SnapshotInv'
<1>1. UNCHANGED << hist, answer, committed, ready >>
  BY DEF AppAsk, state
<1>2. CASE k \notin Catalogs
  <2>1. UNCHANGED pend
    BY <1>2 DEF AppAsk
  <2>. QED
    BY <1>1, <2>1, Untouched
<1>3. CASE k \in Catalogs
  <2>1. pend' = [pend EXCEPT ![k] = Begun(pend[k])]
    BY <1>3 DEF AppAsk
  <2>2. Pure(hist[k], Begun(pend[k])) /\ DOMAIN Begun(pend[k]).rows = {}
    BY <1>3, BegunIsPure DEF SnapshotInv, AllPure, Pure
  <2>3. AllPure([pend EXCEPT ![k] = Begun(pend[k])])
    BY <1>3, <2>2, SetPure DEF SnapshotInv
  <2>4. InStep([pend EXCEPT ![k] = Begun(pend[k])], answer')
    BY <1>1, <1>3, <2>2 DEF SnapshotInv, InStep, AllPure
  <2>5. ProxyStep
    BY <1>1, <2>1, <2>3, <2>4
    DEF SnapshotInv, ProxyStep, StoreOK, SnapshotIsWhole, Last, Table, AllPure, InStep,
        AnswerOK
  <2>. QED
    BY <2>5, ProxyStepKeeps
<1>. QED
  BY <1>2, <1>3

-----------------------------------------------------------------------------
(* The theorem.                                                            *)

LEMMA InitSnapshot == Init => SnapshotInv
<1>. SUFFICES ASSUME Init PROVE SnapshotInv
  OBVIOUS
<1>1. PICK f \in [Catalogs -> {<< n >> : n \in Sizes}] : hist = f
  BY DEF Init
<1>2. HistOK
  <2>1. ASSUME NEW c \in Catalogs
        PROVE  f[c] \in Seq(Nat) /\ Len(f[c]) > 0
    <3>1. PICK n \in Sizes : f[c] = << n >>
      OBVIOUS
    <3>2. n \in Nat
      BY CatalogBounds
    <3>. QED
      BY <3>1, <3>2
  <2>. QED
    BY <1>1, <2>1 DEF HistOK
<1>3. AnswerOK /\ InStep(pend, answer)
  BY Kinds, NoAnswerInStep DEF Init, AnswerOK, NoAnswer
<1>4. StoreOK /\ SnapshotIsWhole
  BY EmptyRows DEF Init, StoreOK, SnapshotIsWhole
<1>5. AllPure(pend)
  <2>1. NoRequest \in Pending /\ DOMAIN NoRequest.rows = {}
    BY EmptyRows DEF NoRequest, Pending, None
  <2>2. \A c \in Catalogs : Pure(hist[c], NoRequest)
    BY <2>1 DEF Pure
  <2>. QED
    BY <2>1, <2>2 DEF Init, AllPure
<1>. QED
  BY <1>2, <1>3, <1>4, <1>5 DEF SnapshotInv

LEMMA SnapshotStep == SnapshotInv /\ [Next]_vars => SnapshotInv'
<1>. SUFFICES ASSUME SnapshotInv, [Next]_vars PROVE SnapshotInv'
  OBVIOUS
<1>. USE DEF state, hub, HubUnchanged
<1>1. ASSUME NEW k \in Reads, Ask(k) PROVE SnapshotInv'
  BY <1>1, Untouched DEF Ask
<1>2. ASSUME NEW k \in Reads, AppAsk(k) PROVE SnapshotInv'
  BY <1>2, AppAskKeeps
<1>3. ASSUME NEW t \in Threads, Enqueue(t) PROVE SnapshotInv'
  <2>1. CASE Issue(hand[t])
    BY <1>3, <2>1, IssueKeeps DEF Enqueue
  <2>2. CASE UNCHANGED << pend, state, hub >>
    BY <1>3, <2>2, Untouched DEF Enqueue
  <2>. QED
    BY <1>3, <2>1, <2>2 DEF Enqueue
<1>4. ASSUME NEW c \in Catalogs, Clear(c) PROVE SnapshotInv'
  <2>1. StoreOK' /\ SnapshotIsWhole'
    BY <1>4, EmptyRows DEF Clear, SnapshotInv, StoreOK, SnapshotIsWhole, Last, Table
  <2>2. ProxyStep
    BY <1>4, <2>1 DEF Clear, SnapshotInv, ProxyStep, AnswerOK, AllPure, InStep
  <2>. QED
    BY <2>2, ProxyStepKeeps
<1>5. CASE HubBegin \/ HubCut \/ HubGone \/ \E c \in Catalogs : TableChange(c)
  BY <1>5, HubKeeps
<1>6. CASE EnterExchange \/ ExchangeStep \/ Retry \/ HubBack \/ AppAttach \/ AppDetach
  BY <1>6, Untouched DEF EnterExchange, ExchangeStep, Retry, HubBack, AppAttach, AppDetach
<1>7. CASE LeaveExchange
  <2>1. CASE Drain(burst, pend)
    BY <1>7, <2>1, QuietDrain DEF LeaveExchange
  <2>2. CASE UNCHANGED << pend, state >>
    BY <1>7, <2>2, Untouched DEF LeaveExchange
  <2>. QED
    BY <1>7, <2>1, <2>2 DEF LeaveExchange
<1>8. CASE Tick
  BY <1>8, QuietDrain DEF Tick
<1>9. CASE AckReady
  BY <1>9, IssueKeeps DEF AckReady
<1>10. CASE HubFrame
  BY <1>10, FrameKeeps
<1>11. CASE UNCHANGED vars
  BY <1>11, Untouched DEF vars
<1>. QED
  BY <1>1, <1>2, <1>3, <1>4, <1>5, <1>6, <1>7, <1>8, <1>9, <1>10, <1>11 DEF Next

\* A ready catalog is empty or a whole version of the hub's table: rows of two
\* answers are never committed together, nor a part of one
\* (_activity_snapshot_complete and the restart at row 1 in ingest_activity_row).
THEOREM CatalogIsWhole == Spec => []SnapshotIsWhole
<1>1. SnapshotInv => SnapshotIsWhole
  BY DEF SnapshotInv
<1>. QED
  BY <1>1, InitSnapshot, SnapshotStep, PTL DEF Spec

-----------------------------------------------------------------------------
(* Freshness.  Fresh is not inductive either: it needs that the one frame  *)
(* under way is the one the pending snapshot waits for.  OneOwed says that *)
(* the hub owes one answer at most, OnOwnAnswer that a catalog read in     *)
(* flight is alone and that what it has and what is still to come was in   *)
(* the hub's table when its request left or later.                         *)

SinceOK ==
  /\ since \in [Catalogs -> Nat] /\ basis \in [Catalogs -> Nat \ {0}]
  /\ \A c \in Catalogs : since[c] \in 1 .. Last(c)

OneOwed(a) == asked = << >> \/ (a = NoAnswer /\ asked = << Head(asked) >>)

\* The version v of the table of c is none that was over when c was asked for.
Recent(c, v) == v \in since[c] .. Last(c)

\* The read q of catalog c is in flight: what it was told is recent.
Timely(c, q) ==
  /\ q.expected \in Nat \cup {None}
  /\ q.expected = 0 => \E v \in since[c] .. Last(c) : hist[c][v] = 0
  /\ 1 \in DOMAIN q.rows => Recent(c, q.rows[1])

OnOwnAnswer(p, a) ==
  \A c \in Catalogs : p[c].inflight # None =>
    /\ \A d \in Catalogs \ {c} : p[d].inflight = None
    /\ asked = << >> \/ asked = << c >>
    /\ a # NoAnswer => a.kind = c /\ Recent(c, a.version)
    /\ Timely(c, p[c])

FreshInv ==
  /\ SinceOK
  /\ ~overlap => OneOwed(answer) /\ OnOwnAnswer(pend, answer) /\ Fresh

\* What the numbers of versions are.
LEMMA Numbers ==
  ASSUME HistOK, SinceOK
  PROVE  \A c \in Catalogs : /\ since[c] \in Nat /\ basis[c] \in Nat /\ Last(c) \in Nat
                             /\ 1 <= since[c] /\ since[c] <= Last(c)
BY DEF HistOK, SinceOK, Last

\* A frame that leaves keeps the versions in order.
LEMMA SinceKept ==
  ASSUME HistOK, SinceOK, UNCHANGED hist, basis' \in [Catalogs -> Nat \ {0}],
         NEW k, since' = IF k \in Catalogs THEN [since EXCEPT ![k] = Last(k)] ELSE since
  PROVE  SinceOK'
<1>1. \A c \in Catalogs : since'[c] = since[c] \/ since'[c] = Last(c)
  BY DEF SinceOK
<1>2. since' \in [Catalogs -> Nat]
  BY Numbers DEF SinceOK
<1>3. \A c \in Catalogs : Last(c)' = Last(c)
  BY DEF Last
<1>. QED
  BY <1>1, <1>2, <1>3, Numbers DEF SinceOK

\* A request that leaves alone is the one the pending snapshots wait for.
LEMMA LeavesAlone ==
  ASSUME NEW k, NEW p \in [Catalogs -> Pending], Transmit(k, p), ~overlap',
         pend' = IF k \in Catalogs THEN [p EXCEPT ![k] = Begun(p[k])] ELSE p
  PROVE  ~overlap /\ OneOwed(answer)' /\ OnOwnAnswer(pend, answer)'
<1>1. ~overlap /\ answer' = NoAnswer /\ asked' = << k >>
      /\ \A c \in Catalogs : p[c].inflight = None
  <2>1. /\ ~overlap /\ answer' = NoAnswer /\ asked = << >>
        /\ \A c \in Catalogs : p[c].inflight = None
    BY Zenon DEF Transmit
  <2>2. asked' = Append(<< >>, k)
    BY <2>1 DEF Transmit
  <2>. QED
    BY <2>1, <2>2
<1>2. OneOwed(answer)'
  BY <1>1 DEF OneOwed
<1>3. ASSUME NEW c \in Catalogs, pend'[c].inflight # None
      PROVE  /\ \A d \in Catalogs \ {c} : pend'[d].inflight = None
             /\ asked' = << c >> /\ Timely(c, pend[c])'
  <2>1. k \in Catalogs /\ c = k /\ pend' = [p EXCEPT ![k] = Begun(p[k])]
    BY <1>1, <1>3
  <2>2. pend'[c] = Begun(p[c]) /\ \A d \in Catalogs \ {c} : pend'[d] = p[d]
    BY <2>1
  <2>3. DOMAIN Begun(p[c]).rows = {}
    BY BegunIsPure
  <2>4. Begun(p[c]).expected = None
    BY DEF Begun, Reset, Pending
  <2>5. Timely(c, pend[c])'
    BY <2>2, <2>3, <2>4 DEF Timely, None
  <2>. QED
    BY <1>1, <2>1, <2>2, <2>5
<1>4. OnOwnAnswer(pend, answer)'
  BY <1>1, <1>3 DEF OnOwnAnswer
<1>. QED
  BY <1>1, <1>2, <1>4

\* A step that leaves the catalogs alone leaves them as fresh as they were.
LEMMA StayFresh ==
  ASSUME Fresh, UNCHANGED << hist, committed, ready, basis >>, ~overlap, ~overlap'
  PROVE  Fresh'
BY DEF Fresh, Last, Table

\* A request leaves: queue_or_send, an exchange, the app.
LEMMA LaunchKeeps ==
  ASSUME SnapshotInv, FreshInv, NEW k, Transmit(k, pend),
         pend' = IF k \in Catalogs THEN [pend EXCEPT ![k] = Begun(pend[k])] ELSE pend,
         UNCHANGED << hist, committed, ready, basis >>
  PROVE  FreshInv'
<1>1. SinceOK'
  BY SinceKept DEF SnapshotInv, FreshInv, SinceOK, Transmit
<1>2. ASSUME ~overlap'
      PROVE  OneOwed(answer)' /\ OnOwnAnswer(pend, answer)' /\ Fresh'
  <2>1. ~overlap /\ OneOwed(answer)' /\ OnOwnAnswer(pend, answer)'
    BY <1>2, LeavesAlone DEF SnapshotInv, AllPure
  <2>. QED
    BY <1>2, <2>1, StayFresh DEF FreshInv
<1>. QED
  BY <1>1, <1>2 DEF FreshInv

\* The snapshot of a read on its own answer that is complete is a recent table.
LEMMA CompleteIsRecent ==
  ASSUME NEW c \in Catalogs, NEW p, Pure(hist[c], p), Timely(c, p), Complete(p),
         HistOK, SinceOK
  PROVE  \E v \in since[c] .. Last(c) : p.rows = Table(c, v)
<1>1. /\ p.rows \in RowMaps /\ DOMAIN p.rows = 1 .. p.expected
      /\ p.expected \in Nat
  BY DEF Pure, Pending, Complete, Timely
<1>2. p.rows = [i \in DOMAIN p.rows |-> p.rows[i]]
  BY <1>1, RowMapDomain
<1>3. CASE p.expected # 0
  <2>1. 1 \in DOMAIN p.rows
    BY <1>1, <1>3
  <2>2. p.rows[1] \in since[c] .. Last(c) /\ p.expected = hist[c][p.rows[1]]
    BY <2>1 DEF Pure, Timely, Recent
  <2>3. p.rows = [i \in 1 .. p.expected |-> p.rows[1]]
    BY <1>1, <1>2, <2>1 DEF Pure
  <2>4. p.rows = Table(c, p.rows[1])
    BY <2>2, <2>3 DEF Table
  <2>. QED
    BY <2>2, <2>4
<1>4. CASE p.expected = 0
  <2>1. PICK v \in since[c] .. Last(c) : hist[c][v] = 0
    BY <1>4 DEF Timely
  <2>2. 1 .. 0 = {}
    OBVIOUS
  <2>3. DOMAIN p.rows = {} /\ 1 .. hist[c][v] = {}
    BY <1>1, <1>4, <2>1, <2>2
  <2>4. p.rows = [i \in {} |-> v]
    BY <1>2, <2>3
  <2>5. Table(c, v) = [i \in {} |-> v]
    BY <2>3 DEF Table
  <2>. QED
    BY <2>1, <2>4, <2>5
<1>. QED
  BY <1>3, <1>4

\* The end of a burst: what it commits is recent, and the next request leaves.
LEMMA DrainFresh ==
  ASSUME NEW k, NEW p, AllPure(p), HistOK, StoreOK, SinceOK, UNCHANGED hist,
         Drain(k, p),
         ~overlap => OneOwed(answer') /\ OnOwnAnswer(p, answer') /\ Fresh
  PROVE  FreshInv'
<1>. DEFINE done  == k \in Catalogs /\ Complete(p[k])
            e     == Reset([p[k] EXCEPT !.inflight = None], None)
            ended == IF k \in Catalogs THEN [p EXCEPT ![k] = e] ELSE p
            after == AfterEnd(retry, k, done)
            rest  == queue = << >> \/ ~CanIssue
            next  == Head(queue)
<1>1. \/ done /\ k \in Catalogs /\ committed' = [committed EXCEPT ![k] = p[k].rows]
         /\ ready' = [ready EXCEPT ![k] = TRUE] /\ basis' = [basis EXCEPT ![k] = since[k]]
      \/ ~done /\ UNCHANGED << committed, ready, basis >>
  BY DEF Drain
<1>2. \/ rest /\ pend' = ended /\ UNCHANGED << asked, since, overlap >>
      \/ Send(next, ended, after)
  BY DEF Drain
<1>3. ended \in [Catalogs -> Pending] /\ \A c \in Catalogs : ended[c] = p[c] \/ ended[c].inflight = None
  <2>1. CASE k \in Catalogs
    <3>1. p[k] \in Pending
      BY <2>1 DEF AllPure
    <3>2. e \in Pending /\ e.inflight = None
      <4>1. [p[k] EXCEPT !.inflight = None] \in Pending
        BY <3>1, Fields DEF None
      <4>2. [p[k] EXCEPT !.inflight = None].inflight = None
        BY <3>1 DEF Pending
      <4>3. None \in Int
        BY DEF None
      <4>. QED
        BY <4>1, <4>2, <4>3, ResetIsPure
    <3>. HIDE DEF e
    <3>. QED
      BY <2>1, <3>2 DEF AllPure
  <2>2. CASE k \notin Catalogs
    BY <2>2 DEF AllPure
  <2>. QED
    BY <2>1, <2>2
<1>4. SinceOK'
  <2>1. basis' \in [Catalogs -> Nat \ {0}]
    BY <1>1, Numbers DEF SinceOK
  <2>2. CASE UNCHANGED since
    <3>1. \A c \in Catalogs : Last(c)' = Last(c)
      BY DEF Last
    <3>. QED
      BY <2>1, <2>2, <3>1 DEF SinceOK
  <2>3. CASE since' = IF next \in Catalogs THEN [since EXCEPT ![next] = Last(next)] ELSE since
    <3>. HIDE DEF next
    <3>. QED
      BY <2>1, <2>3, SinceKept
  <2>. QED
    BY <1>2, <2>2, <2>3 DEF Send, Transmit
<1>5. ASSUME ~overlap'
      PROVE  ~overlap /\ OneOwed(answer)' /\ OnOwnAnswer(pend, answer)'
  <2>1. CASE rest /\ pend' = ended /\ UNCHANGED << asked, since, overlap >>
    <3>1. ~overlap /\ OneOwed(answer') /\ OnOwnAnswer(p, answer')
      BY <1>5, <2>1
    <3>2. \A c \in Catalogs : Last(c)' = Last(c) /\ since'[c] = since[c] /\ hist'[c] = hist[c]
      BY <2>1 DEF Last
    <3>3. pend' = ended
      BY <2>1
    <3>. HIDE DEF ended
    <3>4. ASSUME NEW c \in Catalogs, pend'[c].inflight # None
          PROVE  pend'[c] = p[c] /\ \A d \in Catalogs \ {c} : pend'[d].inflight = None
      BY <1>3, <3>1, <3>3, <3>4 DEF OnOwnAnswer
    <3>5. ASSUME NEW c \in Catalogs, pend'[c].inflight # None
          PROVE  Timely(c, pend[c])'
      BY <3>1, <3>2, <3>4, <3>5 DEF OnOwnAnswer, Timely, Recent
    <3>6. OnOwnAnswer(pend, answer)'
      BY <2>1, <3>1, <3>2, <3>4, <3>5 DEF OnOwnAnswer, Recent
    <3>. QED
      BY <2>1, <3>1, <3>6 DEF OneOwed
  <2>2. CASE Send(next, ended, after)
    <3>. HIDE DEF next, ended, after
    <3>. QED
      BY <1>3, <1>5, <2>2, LeavesAlone DEF Send
  <2>. QED
    BY <1>2, <2>1, <2>2
<1>6. ASSUME ~overlap'
      PROVE  Fresh'
  <2>1. ~overlap /\ OnOwnAnswer(p, answer') /\ Fresh
    BY <1>5, <1>6
  <2>2. CASE ~done /\ UNCHANGED << committed, ready, basis >>
    BY <1>6, <2>1, <2>2, StayFresh
  <2>3. CASE done /\ k \in Catalogs /\ committed' = [committed EXCEPT ![k] = p[k].rows]
             /\ ready' = [ready EXCEPT ![k] = TRUE] /\ basis' = [basis EXCEPT ![k] = since[k]]
    <3>1. Timely(k, p[k]) /\ Pure(hist[k], p[k]) /\ Complete(p[k])
      BY <2>1, <2>3 DEF OnOwnAnswer, AllPure, Complete
    <3>2. \E v \in since[k] .. Last(k) : p[k].rows = Table(k, v)
      BY <2>3, <3>1, CompleteIsRecent
    <3>3. \A c \in Catalogs : Last(c)' = Last(c) /\ \A v : Table(c, v)' = Table(c, v)
      BY DEF Last, Table
    <3>4. /\ committed'[k] = p[k].rows /\ basis'[k] = since[k]
          /\ \A c \in Catalogs \ {k} : /\ committed'[c] = committed[c]
                                       /\ basis'[c] = basis[c] /\ ready'[c] = ready[c]
      BY <2>3 DEF StoreOK, SinceOK
    <3>5. ASSUME NEW c \in Catalogs, ready'[c]
          PROVE  \E v \in basis'[c] .. Last(c)' : committed'[c] = Table(c, v)'
      <4>1. CASE c = k
        BY <3>2, <3>3, <3>4, <4>1
      <4>2. CASE c # k
        <5>1. \E v \in basis[c] .. Last(c) : committed[c] = Table(c, v)
          BY <2>1, <3>4, <3>5, <4>2 DEF Fresh
        <5>. QED
          BY <3>3, <3>4, <4>2, <5>1
      <4>. QED
        BY <4>1, <4>2
    <3>. QED
      BY <3>5 DEF Fresh
  <2>. QED
    BY <1>1, <2>2, <2>3
<1>. QED
  BY <1>4, <1>5, <1>6 DEF FreshInv

\* A drain that leaves the answer alone.
LEMMA QuietDrainFresh ==
  ASSUME SnapshotInv, FreshInv, NEW k, Drain(k, pend), UNCHANGED << hist, answer >>
  PROVE  FreshInv'
<1>1. AllPure(pend) /\ HistOK /\ StoreOK /\ SinceOK
  BY DEF SnapshotInv, FreshInv
<1>2. ~overlap => OneOwed(answer') /\ OnOwnAnswer(pend, answer') /\ Fresh
  BY DEF FreshInv
<1>. QED
  BY <1>1, <1>2, DrainFresh

\* A step that sends nothing, ends nothing and takes nothing in.
LEMMA StillFresh ==
  ASSUME FreshInv,
         UNCHANGED << hist, answer, asked, pend, committed, ready, since, basis, overlap >>
  PROVE  FreshInv'
<1>1. \A c \in Catalogs : Last(c)' = Last(c) /\ \A v : Table(c, v)' = Table(c, v)
  BY DEF Last, Table
<1>2. SinceOK'
  BY <1>1 DEF FreshInv, SinceOK
<1>3. ASSUME ~overlap
      PROVE  OneOwed(answer)' /\ OnOwnAnswer(pend, answer)' /\ Fresh'
  BY <1>1, <1>3 DEF FreshInv, OneOwed, OnOwnAnswer, Timely, Recent, Fresh
<1>. QED
  BY <1>2, <1>3 DEF FreshInv

\* queue_or_send.
LEMMA IssueFresh ==
  ASSUME SnapshotInv, FreshInv, NEW k, Issue(k), UNCHANGED hist
  PROVE  FreshInv'
<1>1. UNCHANGED << answer, committed, ready, basis >>
  BY DEF Issue, state
<1>2. CASE UNCHANGED << pend, asked, since, overlap >>
  BY <1>1, <1>2, StillFresh
<1>3. CASE Send(k, pend, retry)
  BY <1>1, <1>3, LaunchKeeps DEF Send
<1>. QED
  BY <1>2, <1>3 DEF Issue

\* What the hub's frames do: the pending snapshots p and the answer that is left.
LEMMA TakenIn ==
  ASSUME FreshInv, NEW p, pend' = p, UNCHANGED << hist, asked, committed, ready, since, basis, overlap >>,
         ~overlap => OneOwed(answer') /\ OnOwnAnswer(p, answer')
  PROVE  FreshInv'
<1>1. \A c \in Catalogs : Last(c)' = Last(c) /\ \A v : Table(c, v)' = Table(c, v)
  BY DEF Last, Table
<1>2. SinceOK'
  BY <1>1 DEF FreshInv, SinceOK
<1>3. ASSUME ~overlap
      PROVE  OneOwed(answer)' /\ OnOwnAnswer(pend, answer)' /\ Fresh'
  <2>1. OneOwed(answer') /\ OnOwnAnswer(p, answer')
    BY <1>3
  <2>2. OneOwed(answer)' /\ OnOwnAnswer(pend, answer)'
    BY <1>1, <2>1 DEF OneOwed, OnOwnAnswer, Timely, Recent
  <2>. QED
    BY <1>1, <1>3, <2>2 DEF FreshInv, Fresh
<1>. QED
  BY <1>2, <1>3 DEF FreshInv

\* A row of its own answer leaves a read timely.
LEMMA IngestIsTimely ==
  ASSUME HistOK, SinceOK, NEW c \in Catalogs, NEW p \in Pending, p.inflight # None,
         Timely(c, p), NEW v, Recent(c, v), NEW i \in Nat \ {0}, hist[c][v] # 0
  PROVE  Timely(c, Ingest(p, i, hist[c][v], v)) /\ Ingest(p, i, hist[c][v], v).inflight = p.inflight
<1>. DEFINE n == hist[c][v]
            q == Restart(p, i, n)
<1>1. n \in Nat /\ n # 0 /\ v \in Nat
  BY Numbers DEF Recent, HistOK, Last
<1>2. p.inflight \in Int
  BY DEF Pending
<1>3. q \in Pending /\ q.inflight = p.inflight /\ (q = p \/ DOMAIN q.rows = {})
  BY <1>2, ResetIsPure DEF Restart
<1>4. CASE Accepts(p, i, n)
  <2>. DEFINE f == [j \in DOMAIN q.rows \cup {i} |-> IF j = i THEN v ELSE q.rows[j]]
  <2>1. Ingest(p, i, n, v) = Put(q, i, n, v)
    BY <1>4 DEF Ingest
  <2>2. Put(q, i, n, v).expected = n /\ Put(q, i, n, v).rows = f
        /\ Put(q, i, n, v).inflight = q.inflight
    <3>. HIDE DEF q, n
    <3>. QED
      BY <1>3 DEF Put, Pending
  <2>3. 1 \in DOMAIN f => Recent(c, f[1])
    <3>1. 1 \in DOMAIN q.rows => Recent(c, q.rows[1])
      BY <1>3 DEF Timely
    <3>. HIDE DEF q
    <3>. QED
      BY <3>1
  <2>. HIDE DEF f, q
  <2>. QED
    BY <1>1, <1>3, <2>1, <2>2, <2>3 DEF Timely
<1>5. CASE ~Accepts(p, i, n)
  <2>1. CASE p.gen # p.inflight
    <3>1. Ingest(p, i, n, v) = p
      BY <1>5, <2>1 DEF Ingest
    <3>. QED
      BY <3>1
  <2>2. CASE p.gen = p.inflight
    <3>1. Ingest(p, i, n, v) = [q EXCEPT !.expected = n]
      BY <1>5, <2>2 DEF Ingest
    <3>2. 1 \in DOMAIN q.rows => Recent(c, q.rows[1])
      BY <1>3 DEF Timely
    <3>3. [q EXCEPT !.expected = n].rows = q.rows /\ [q EXCEPT !.expected = n].expected = n
          /\ [q EXCEPT !.expected = n].inflight = q.inflight
      <4>. HIDE DEF q, n
      <4>. QED
        BY <1>3 DEF Pending
    <3>. HIDE DEF q
    <3>. QED
      BY <1>1, <1>3, <3>1, <3>2, <3>3 DEF Timely
  <2>. QED
    BY <2>1, <2>2
<1>. QED
  BY <1>4, <1>5

\* A row of the answer that the hub streams.
LEMMA RowFresh ==
  ASSUME SnapshotInv, FreshInv, UNCHANGED hist, answer.kind \in Catalogs,
         hist[answer.kind][answer.version] > 0, answer # NoAnswer,
         RowFrame(answer.kind, answer.version, answer.next),
         answer' = IF answer.next = hist[answer.kind][answer.version] THEN NoAnswer
                   ELSE [answer EXCEPT !.next = answer.next + 1]
  PROVE  FreshInv'
<1>. DEFINE c == answer.kind
            v == answer.version
            i == answer.next
            q == Ingest(pend[c], i, hist[c][v], v)
            p == [pend EXCEPT ![c] = q]
<1>1. /\ v \in 1 .. Len(hist[c]) /\ i \in Nat \ {0} /\ hist[c] \in Seq(Nat)
      /\ Pure(hist[c], pend[c])
      /\ i # 1 /\ 1 \in DOMAIN pend[c].rows => pend[c].rows[1] = v
  BY DEF SnapshotInv, AnswerOK, HistOK, AllPure, InStep
<1>2. AllPure(p)
  <2>1. Pure(hist[c], q)
    BY <1>1, IngestIsPure
  <2>. HIDE DEF q
  <2>. QED
    BY <2>1, SetPure DEF SnapshotInv
<1>3. answer' = NoAnswer \/ (answer'.kind = c /\ answer'.version = v)
  BY DEF SnapshotInv, AnswerOK
<1>4. /\ pend \in [Catalogs -> Pending] /\ HistOK /\ SinceOK /\ StoreOK
      /\ pend[c] \in Pending /\ pend[c].inflight \in Int
  BY DEF SnapshotInv, AllPure, FreshInv, Pending
<1>5. ASSUME ~overlap
      PROVE  OneOwed(answer') /\ OnOwnAnswer(p, answer') /\ Fresh
  <2>1. OneOwed(answer) /\ OnOwnAnswer(pend, answer) /\ Fresh
    BY <1>5 DEF FreshInv
  <2>2. asked = << >>
    BY <2>1 DEF OneOwed
  <2>3. CASE pend[c].inflight = None
    <3>1. q = pend[c]
      <4>1. ~Accepts(pend[c], i, hist[c][v])
        BY <2>3 DEF Accepts
      <4>. QED
        BY <2>3, <4>1 DEF Ingest
    <3>2. p = pend
      <4>. HIDE DEF q
      <4>. QED
        BY <1>4, <3>1
    <3>3. \A d \in Catalogs : pend[d].inflight = None
      BY <2>1, <2>3 DEF OnOwnAnswer
    <3>. QED
      BY <2>1, <2>2, <3>2, <3>3 DEF OneOwed, OnOwnAnswer
  <2>4. CASE pend[c].inflight # None
    <3>1. /\ Timely(c, pend[c]) /\ Recent(c, v)
          /\ \A d \in Catalogs \ {c} : pend[d].inflight = None
      BY <2>1, <2>4 DEF OnOwnAnswer
    <3>2. Timely(c, q)
      <4>1. hist[c][v] # 0
        BY <1>1
      <4>. QED
        BY <1>1, <1>4, <2>4, <3>1, <4>1, IngestIsTimely
    <3>3. p[c] = q /\ \A d \in Catalogs \ {c} : p[d] = pend[d]
      <4>. HIDE DEF q
      <4>. QED
        BY <1>4
    <3>4. OnOwnAnswer(p, answer')
      <4>. HIDE DEF q, p, c, v
      <4>. QED
        BY <1>3, <2>2, <3>1, <3>2, <3>3 DEF OnOwnAnswer
    <3>. QED
      BY <2>1, <2>2, <3>4 DEF OneOwed
  <2>. QED
    BY <2>3, <2>4
<1>6. CASE Accepts(pend[c], i, hist[c][v]) /\ Complete(p[c])
  <2>1. Drain(c, p)
    BY <1>6 DEF RowFrame
  <2>. HIDE DEF p, c
  <2>. QED
    BY <1>2, <1>4, <1>5, <2>1, DrainFresh
<1>7. CASE ~(Accepts(pend[c], i, hist[c][v]) /\ Complete(p[c]))
  <2>1. pend' = p /\ UNCHANGED << committed, ready, asked, since, basis, overlap >>
    BY <1>7 DEF RowFrame, state, ghosts
  <2>. HIDE DEF p
  <2>. QED
    BY <1>5, <2>1, TakenIn
<1>. QED
  BY <1>6, <1>7

\* A status 0x07: only a read whose answer it is takes it for an empty table.
LEMMA StatusFresh ==
  ASSUME SnapshotInv, FreshInv, UNCHANGED hist, answer # NoAnswer, answer' = NoAnswer,
         answer.kind \in Catalogs => hist[answer.kind][answer.version] = 0,
         StatusFrame
  PROVE  FreshInv'
<1>1. /\ pend \in [Catalogs -> Pending] /\ HistOK /\ SinceOK /\ StoreOK /\ AllPure(pend)
  BY DEF SnapshotInv, AllPure, FreshInv
<1>2. ~overlap => OneOwed(answer') /\ OnOwnAnswer(pend, answer') /\ Fresh
  BY DEF FreshInv, OneOwed, OnOwnAnswer
<1>3. CASE UNCHANGED << pend, state, asked, ghosts >>
  BY <1>2, <1>3, TakenIn DEF state, ghosts
<1>4. CASE Drain(Entity, pend)
  BY <1>1, <1>2, <1>4, DrainFresh
<1>5. CASE burst # Xchg /\ Claimed # Nothing
  <2>. DEFINE c == Claimed
              b == IF pend[c].gen # pend[c].inflight
                   THEN Reset(pend[c], pend[c].inflight) ELSE pend[c]
              q == [b EXCEPT !.expected = 0]
              p == [pend EXCEPT ![c] = q]
  <2>1. c \in Catalogs /\ Claims(c)
    BY <1>5, Kinds DEF Claimed
  <2>2. /\ pend[c] \in Pending /\ pend[c].inflight \in Int /\ pend[c].inflight # None
        /\ DOMAIN pend[c].rows = {}
    BY <1>1, <2>1 DEF Pending, Claims
  <2>3. b \in Pending /\ DOMAIN b.rows = {} /\ b.inflight = pend[c].inflight
    BY <2>2, ResetIsPure
  <2>4. q \in Pending /\ q.rows = b.rows /\ q.expected = 0 /\ q.inflight = b.inflight
    <3>. HIDE DEF b
    <3>1. q \in Pending
      BY <2>3, Fields
    <3>. QED
      BY <2>3, <3>1 DEF Pending
  <2>5. AllPure(p)
    <3>. HIDE DEF b, q
    <3>1. Pure(hist[c], q)
      BY <2>2, <2>3, <2>4 DEF Pure
    <3>. HIDE DEF c
    <3>. QED
      BY <1>1, <2>1, <3>1, SetPure
  <2>6. p[c] = q /\ \A d \in Catalogs \ {c} : p[d] = pend[d]
    <3>. HIDE DEF q, c
    <3>. QED
      BY <1>1, <2>1
  <2>7. ASSUME ~overlap
        PROVE  OneOwed(answer') /\ OnOwnAnswer(p, answer') /\ Fresh
    <3>1. OneOwed(answer) /\ OnOwnAnswer(pend, answer) /\ Fresh
      BY <2>7 DEF FreshInv
    <3>2. asked = << >>
      BY <3>1 DEF OneOwed
    <3>3. /\ answer.kind = c /\ Recent(c, answer.version)
          /\ \A d \in Catalogs \ {c} : pend[d].inflight = None
      BY <2>1, <2>2, <3>1 DEF OnOwnAnswer
    <3>4. \E v \in since[c] .. Last(c) : hist[c][v] = 0
      BY <2>1, <3>3 DEF Recent
    <3>5. Timely(c, q)
      <4>. HIDE DEF q, c, b
      <4>. QED
        BY <2>3, <2>4, <3>4 DEF Timely
    <3>6. OnOwnAnswer(p, answer')
      <4>. HIDE DEF q, p, c
      <4>. QED
        BY <2>6, <3>2, <3>3, <3>5 DEF OnOwnAnswer
    <3>. QED
      BY <3>1, <3>2, <3>6 DEF OneOwed
  <2>8. CASE Drain(c, p)
    <3>. HIDE DEF p, c
    <3>. QED
      BY <1>1, <2>5, <2>7, <2>8, DrainFresh
  <2>9. CASE pend' = p /\ UNCHANGED << state, asked, ghosts >>
    <3>. HIDE DEF p
    <3>. QED
      BY <2>7, <2>9, TakenIn DEF state, ghosts
  <2>. QED
    BY <1>5, <2>8, <2>9 DEF StatusFrame, StatusClaimed
<1>. QED
  BY <1>3, <1>4, <1>5 DEF StatusFrame, StatusClaimed

\* A frame of the hub.
LEMMA FrameFresh == ASSUME SnapshotInv, FreshInv, HubFrame PROVE FreshInv'
<1>1. UNCHANGED hist /\ answer # NoAnswer
  BY DEF HubFrame
<1>2. ASSUME answer.kind \in Catalogs, hist[answer.kind][answer.version] > 0,
             RowFrame(answer.kind, answer.version, answer.next),
             answer' = IF answer.next = hist[answer.kind][answer.version] THEN NoAnswer
                       ELSE [answer EXCEPT !.next = answer.next + 1]
      PROVE  FreshInv'
  BY <1>1, <1>2, RowFresh
<1>3. ASSUME answer' = NoAnswer, StatusFrame,
             answer.kind \in Catalogs => hist[answer.kind][answer.version] = 0
      PROVE  FreshInv'
  BY <1>1, <1>3, StatusFresh
<1>4. ASSUME answer' = NoAnswer,
             Drain(Entity, pend) \/ UNCHANGED << pend, state, asked, ghosts >>
      PROVE  FreshInv'
  <2>1. AllPure(pend) /\ HistOK /\ SinceOK /\ StoreOK
    BY DEF SnapshotInv, FreshInv
  <2>2. ~overlap => OneOwed(answer') /\ OnOwnAnswer(pend, answer') /\ Fresh
    BY <1>4 DEF FreshInv, OneOwed, OnOwnAnswer
  <2>3. CASE Drain(Entity, pend)
    BY <1>1, <2>1, <2>2, <2>3, DrainFresh
  <2>4. CASE UNCHANGED << pend, state, asked, ghosts >>
    BY <1>1, <2>2, <2>4, TakenIn DEF state, ghosts
  <2>. QED
    BY <1>4, <2>3, <2>4
<1>. QED
  BY <1>2, <1>3, <1>4 DEF HubFrame

\* The steps of the hub and its session that are not frames.
LEMMA HubFresh ==
  ASSUME SnapshotInv, FreshInv,
         HubBegin \/ HubCut \/ HubGone \/ \E c \in Catalogs : TableChange(c)
  PROVE  FreshInv'
<1>1. ASSUME answer' = NoAnswer, asked' = << >> \/ (asked' = asked /\ answer # NoAnswer),
             UNCHANGED << hist, HubUnchanged, ghosts >>
      PROVE  FreshInv'
  <2>1. \A c \in Catalogs : Last(c)' = Last(c) /\ \A v : Table(c, v)' = Table(c, v)
    BY <1>1 DEF Last, Table
  <2>2. UNCHANGED << pend, committed, ready, since, basis, overlap >>
    BY <1>1 DEF HubUnchanged, state, ghosts
  <2>3. SinceOK'
    BY <2>1, <2>2 DEF FreshInv, SinceOK
  <2>4. ASSUME ~overlap
        PROVE  OneOwed(answer)' /\ OnOwnAnswer(pend, answer)' /\ Fresh'
    <3>1. OneOwed(answer) /\ OnOwnAnswer(pend, answer) /\ Fresh
      BY <2>4 DEF FreshInv
    <3>2. asked' = << >> \/ asked' = asked
      BY <1>1
    <3>3. OneOwed(answer)'
      BY <1>1, <3>1 DEF OneOwed
    <3>4. OnOwnAnswer(pend, answer)'
      BY <1>1, <2>1, <2>2, <3>1, <3>2 DEF OnOwnAnswer, Timely, Recent
    <3>. QED
      BY <2>1, <2>2, <3>1, <3>3, <3>4 DEF Fresh
  <2>. QED
    BY <2>2, <2>3, <2>4 DEF FreshInv
<1>2. CASE HubCut
  BY <1>1, <1>2 DEF HubCut
<1>3. CASE HubGone
  BY <1>1, <1>3 DEF HubGone
<1>4. CASE HubBegin
  <2>. DEFINE k == Head(asked)
  <2>1. UNCHANGED << hist, pend, committed, ready, since, basis, overlap >>
        /\ asked # << >> /\ asked' = Tail(asked)
    BY <1>4 DEF HubBegin, HubUnchanged, state, ghosts
  <2>2. \A c \in Catalogs : Last(c)' = Last(c) /\ \A v : Table(c, v)' = Table(c, v)
    BY <2>1 DEF Last, Table
  <2>3. SinceOK'
    BY <2>1, <2>2 DEF FreshInv, SinceOK
  <2>4. ASSUME ~overlap
        PROVE  OneOwed(answer)' /\ OnOwnAnswer(pend, answer)' /\ Fresh'
    <3>1. OneOwed(answer) /\ OnOwnAnswer(pend, answer) /\ Fresh
      BY <2>4 DEF FreshInv
    <3>2. asked = << k >>
      BY <2>1, <3>1 DEF OneOwed
    <3>3. asked' = << >>
      <4>. HIDE DEF k
      <4>. QED
        BY <2>1, <3>2
    <3>4. answer' = NoAnswer \/ (answer'.kind = k /\ (k \in Catalogs => answer'.version = Last(k)))
      BY <1>4 DEF HubBegin
    <3>5. ASSUME NEW c \in Catalogs, pend'[c].inflight # None
          PROVE  /\ \A d \in Catalogs \ {c} : pend'[d].inflight = None
                 /\ answer' # NoAnswer => answer'.kind = c /\ Recent(c, answer.version)'
                 /\ Timely(c, pend[c])'
      <4>1. /\ pend[c].inflight # None
            /\ \A d \in Catalogs \ {c} : pend[d].inflight = None
            /\ asked = << >> \/ asked = << c >>
            /\ Timely(c, pend[c])
        BY <2>1, <3>1, <3>5 DEF OnOwnAnswer
      <4>2. k = c
        <5>. HIDE DEF k
        <5>. QED
          BY <2>1, <3>2, <4>1
      <4>3. Last(c) \in since[c] .. Last(c)
        BY Numbers DEF SnapshotInv, FreshInv
      <4>4. answer' # NoAnswer => answer'.kind = c /\ Recent(c, answer.version)'
        BY <2>1, <2>2, <3>4, <4>2, <4>3 DEF Recent
      <4>5. Timely(c, pend[c])'
        BY <2>1, <2>2, <4>1 DEF Timely, Recent
      <4>. QED
        BY <2>1, <4>1, <4>4, <4>5
    <3>6. OneOwed(answer)' /\ OnOwnAnswer(pend, answer)'
      BY <3>3, <3>5 DEF OneOwed, OnOwnAnswer
    <3>. QED
      BY <2>1, <2>4, <3>1, <3>6, StayFresh
  <2>. QED
    BY <2>1, <2>3, <2>4 DEF FreshInv
<1>5. ASSUME NEW c \in Catalogs, TableChange(c)
      PROVE  FreshInv'
  <2>1. PICK n \in Sizes : hist' = [hist EXCEPT ![c] = Append(hist[c], n)]
    BY <1>5 DEF TableChange
  <2>2. n \in Nat
    BY CatalogBounds
  <2>3. UNCHANGED << pend, asked, answer, committed, ready, since, basis, overlap >>
    BY <1>5 DEF TableChange, HubUnchanged, state, hub, ghosts
  <2>4. \A d \in Catalogs :
          /\ Len(hist'[d]) >= Len(hist[d]) /\ Len(hist'[d]) \in Nat
          /\ \A v \in 1 .. Len(hist[d]) : hist'[d][v] = hist[d][v]
    BY <2>1, <2>2 DEF SnapshotInv, HistOK
  <2>5. \A d \in Catalogs : /\ Last(d) \in Nat /\ Last(d)' \in Nat /\ Last(d) <= Last(d)'
                            /\ since[d] \in Nat /\ basis[d] \in Nat /\ 1 <= since[d]
                            /\ since[d] <= Last(d)
    BY <2>4, Numbers DEF SnapshotInv, FreshInv, HistOK, Last
  <2>6. SinceOK'
    BY <2>3, <2>5 DEF FreshInv, SinceOK
  <2>7. \A d \in Catalogs : \A v : v \in since[d] .. Last(d) =>
          v \in since[d] .. Last(d)' /\ hist'[d][v] = hist[d][v]
    BY <2>4, <2>5 DEF Last
  <2>8. ASSUME ~overlap
        PROVE  OneOwed(answer)' /\ OnOwnAnswer(pend, answer)' /\ Fresh'
    <3>1. OneOwed(answer) /\ OnOwnAnswer(pend, answer) /\ Fresh
      BY <2>8 DEF FreshInv
    <3>2. OneOwed(answer)'
      BY <2>3, <3>1 DEF OneOwed
    <3>3. \A d \in Catalogs : \A v : Recent(d, v) => Recent(d, v)'
      BY <2>3, <2>7 DEF Recent
    <3>4. \A d \in Catalogs : Timely(d, pend[d]) => Timely(d, pend[d])'
      BY <2>3, <2>7, <3>3 DEF Timely
    <3>5. OnOwnAnswer(pend, answer)'
      BY <2>3, <3>1, <3>3, <3>4 DEF OnOwnAnswer
    <3>6. Fresh'
      <4>1. ASSUME NEW d \in Catalogs, ready[d]
            PROVE  \E v \in basis[d] .. Last(d)' : committed[d] = Table(d, v)'
        <5>1. PICK v \in basis[d] .. Last(d) : committed[d] = Table(d, v)
          BY <2>8, <3>1, <4>1 DEF Fresh
        <5>2. v \in basis[d] .. Last(d)'
          BY <2>5
        <5>3. v # 0
          BY <2>5 DEF FreshInv, SinceOK
        <5>4. hist'[d][v] = hist[d][v]
          BY <2>4, <2>5, <5>3 DEF Last
        <5>5. Table(d, v)' = Table(d, v)
          BY <5>4 DEF Table
        <5>. QED
          BY <5>1, <5>2, <5>5
      <4>. QED
        BY <2>3, <4>1 DEF Fresh
    <3>. QED
      BY <3>2, <3>5, <3>6
  <2>. QED
    BY <2>3, <2>6, <2>8 DEF FreshInv
<1>. QED
  BY <1>2, <1>3, <1>4, <1>5

\* The app reads through the proxy.
LEMMA AppAskFresh == ASSUME SnapshotInv, FreshInv, NEW k, AppAsk(k) PROVE FreshInv'
BY LaunchKeeps DEF AppAsk, state

LEMMA InitFresh == Init => FreshInv
<1>. SUFFICES ASSUME Init PROVE FreshInv
  OBVIOUS
<1>1. SnapshotInv
  BY InitSnapshot
<1>2. SinceOK
  BY <1>1 DEF Init, SinceOK, SnapshotInv, HistOK, Last
<1>3. OneOwed(answer) /\ OnOwnAnswer(pend, answer) /\ Fresh
  BY DEF Init, OneOwed, OnOwnAnswer, Fresh, NoRequest, None
<1>. QED
  BY <1>2, <1>3 DEF FreshInv

LEMMA FreshStep == SnapshotInv /\ FreshInv /\ [Next]_vars => FreshInv'
<1>. SUFFICES ASSUME SnapshotInv, FreshInv, [Next]_vars PROVE FreshInv'
  OBVIOUS
<1>. USE DEF state, hub, HubUnchanged, ghosts
<1>1. ASSUME NEW k \in Reads, Ask(k) PROVE FreshInv'
  BY <1>1, StillFresh DEF Ask
<1>2. ASSUME NEW k \in Reads, AppAsk(k) PROVE FreshInv'
  BY <1>2, AppAskFresh
<1>3. ASSUME NEW t \in Threads, Enqueue(t) PROVE FreshInv'
  <2>1. CASE Issue(hand[t])
    BY <1>3, <2>1, IssueFresh DEF Enqueue
  <2>2. CASE UNCHANGED << pend, state, hub, ghosts >>
    BY <1>3, <2>2, StillFresh DEF Enqueue
  <2>. QED
    BY <1>3, <2>1, <2>2 DEF Enqueue
<1>4. ASSUME NEW c \in Catalogs, Clear(c) PROVE FreshInv'
  <2>1. UNCHANGED << hist, answer, asked, pend, since, basis, overlap >>
        /\ ready' = [ready EXCEPT ![c] = FALSE]
        /\ committed' = [committed EXCEPT ![c] = << >>]
    BY <1>4 DEF Clear
  <2>2. \A d \in Catalogs : ready'[d] => ready[d] /\ committed'[d] = committed[d]
    BY <2>1 DEF SnapshotInv, StoreOK
  <2>3. \A d \in Catalogs : Last(d)' = Last(d) /\ \A v : Table(d, v)' = Table(d, v)
    BY <2>1 DEF Last, Table
  <2>4. SinceOK'
    BY <2>1, <2>3 DEF FreshInv, SinceOK
  <2>5. ASSUME ~overlap
        PROVE  OneOwed(answer)' /\ OnOwnAnswer(pend, answer)' /\ Fresh'
    <3>1. OneOwed(answer) /\ OnOwnAnswer(pend, answer) /\ Fresh
      BY <2>5 DEF FreshInv
    <3>2. OneOwed(answer)' /\ OnOwnAnswer(pend, answer)'
      BY <2>1, <2>3, <3>1 DEF OneOwed, OnOwnAnswer, Timely, Recent
    <3>3. Fresh'
      BY <2>1, <2>2, <2>3, <2>5, <3>1 DEF Fresh
    <3>. QED
      BY <3>2, <3>3
  <2>. QED
    BY <2>1, <2>4, <2>5 DEF FreshInv
<1>5. CASE HubBegin \/ HubCut \/ HubGone \/ \E c \in Catalogs : TableChange(c)
  BY <1>5, HubFresh
<1>6. CASE EnterExchange \/ Retry \/ HubBack \/ AppAttach \/ AppDetach
  BY <1>6, StillFresh DEF EnterExchange, Retry, HubBack, AppAttach, AppDetach
<1>7. CASE ExchangeStep
  BY <1>7, LaunchKeeps, Kinds DEF ExchangeStep
<1>8. CASE LeaveExchange
  <2>1. CASE Drain(burst, pend)
    BY <1>8, <2>1, QuietDrainFresh DEF LeaveExchange
  <2>2. CASE UNCHANGED << pend, state, asked, ghosts >>
    BY <1>8, <2>2, StillFresh DEF LeaveExchange
  <2>. QED
    BY <1>8, <2>1, <2>2 DEF LeaveExchange
<1>9. CASE Tick
  BY <1>9, QuietDrainFresh DEF Tick
<1>10. CASE AckReady
  BY <1>10, IssueFresh DEF AckReady
<1>11. CASE HubFrame
  BY <1>11, FrameFresh
<1>12. CASE UNCHANGED vars
  BY <1>12, StillFresh DEF vars
<1>. QED
  BY <1>1, <1>2, <1>3, <1>4, <1>5, <1>6, <1>7, <1>8, <1>9, <1>10, <1>11, <1>12 DEF Next

\* While no frame left over another, a ready catalog is the table as it was when
\* its request left or later: neither silence nor a broken-off or abandoned answer
\* becomes a snapshot (_activity_snapshot_complete, note_catalog_status_ack).
THEOREM CatalogIsFresh == Spec => []Fresh
<1>. DEFINE Both == SnapshotInv /\ FreshInv
<1>1. Init => Both
  BY InitSnapshot, InitFresh
<1>2. Both /\ [Next]_vars => Both'
  BY SnapshotStep, FreshStep
<1>3. Both => Fresh
  BY DEF FreshInv, Fresh
<1>. QED
  BY <1>1, <1>2, <1>3, PTL DEF Spec


(***************************************************************************)
(* The reads of an activity's tables (Reads.tla), which wait for the end   *)
(* of a burst, whatever tasks are at work together.                        *)
(***************************************************************************)

\* Where a read of the facade is under way.
Steps == {"register", "kick", "wait"}

\* Types of the proxy and of the tasks; only a task that is done has returned.
ProxyOK ==
  /\ have \subseteq Rd!Tables
  /\ tburst \in Rd!Tables \cup {NoTable} /\ tqueue \in Seq(Rd!Tables)
  /\ posted \in Seq(Rd!Tables \cup {"down"})

TasksOK ==
  /\ company \in Companies
  /\ DOMAIN at = Rd!Tasks /\ DOMAIN table = Rd!Tasks /\ DOMAIN got = Rd!Tasks
  /\ \A t \in Readers \cup Exporters :
       (at[t] # "idle" => table[t] \in Rd!Tables) /\ (got[t] # NoTable => at[t] = "done")

\* A read waits, or was woken, exactly between its registration and its end.
Placed ==
  \A t \in Readers :
    /\ at[t] \in Steps \cup {"idle", "done"} /\ (at[t] # "idle" => t \in company)
    /\ t \in waiters \cup woken <=> at[t] \in {"kick", "wait"}

\* What is marked complete is in the cache, unless it is known to be spoiled.
Stands(k) == k \in have \cup spoiled

ProxyStands ==
  /\ "macros" \in flagged => Stands("macros")
  /\ answered => Stands(tburst)

\* A read is woken with its table there.
WokenStand == \A t \in Readers \cap woken : Stands(table[t]) \/ t \in wiped

\* While a read of a table that is there is not woken yet, it will be: the burst
\* has to end or its end is posted.
Told(k) == tburst = k \/ \E i \in 1 .. Len(posted) : posted[i] = k

Announced ==
  \A t \in Readers \ woken :
    at[t] \in Steps /\ Rd!Ready(table[t]) => Told(table[t]) \/ t \in missed

\* The inductive invariant.
ReadsInv ==
  /\ Rd!Apart /\ ProxyOK /\ TasksOK /\ Placed
  /\ ProxyStands /\ WokenStand /\ Announced /\ Rd!ReadIsWhole

\* Who the tasks are.
LEMMA TaskSets ==
  ASSUME ReadsInv
  PROVE  /\ Readers \subseteq Rd!Tasks /\ Exporters \subseteq Rd!Tasks
         /\ Fetchers \subseteq Rd!Tasks /\ Primers \subseteq Rd!Tasks
         /\ \A t \in Readers : t \notin Exporters \cup Fetchers \cup Primers
         /\ \A t \in Exporters : t \notin Fetchers \cup Primers
         /\ \A c \in Companies : c \cap Readers = {} \/ c \cap Fetchers = {}
         /\ Rd!Tables = {"buttons", "map", "macros"}
         /\ NoTable \notin Rd!Tables /\ NoTable \notin {"nothing", "timeout"}
BY DEF ReadsInv, Rd!Apart, Rd!Tasks, Rd!Tables

\* What Request and Kick do to the proxy.
Asked ==
  /\ have' = have /\ flagged' = flagged /\ spoiled' = spoiled
  /\ tqueue' \in Seq(Rd!Tables) /\ tburst' \in Rd!Tables \cup {NoTable}
  /\ tburst' = tburst \/ (tburst = NoTable /\ ~answered')
  /\ answered' => answered

\* No read of the facade moves.
ReadersRest ==
  \A t \in Readers :
    /\ at'[t] = at[t] /\ table'[t] = table[t] /\ got'[t] = got[t]
    /\ (t \in waiters' <=> t \in waiters) /\ (t \in woken' <=> t \in woken)

\* The history of the reads is not forgotten.
GhostsGrow == wiped \subseteq wiped' /\ missed \subseteq missed'

\* A request leaves the cache alone; so does a getter.
LEMMA RequestAsks ==
  ASSUME ProxyOK, NEW k \in Rd!Tables, Rd!Request(k)
  PROVE  Asked
<1>1. CASE up /\ k \notin pending /\ tburst = NoTable
  BY <1>1 DEF Rd!Request, Asked, ProxyOK
<1>2. CASE up /\ k \notin pending /\ tburst # NoTable
  <2>1. Append(tqueue, k) \in Seq(Rd!Tables)
    BY DEF ProxyOK
  <2> QED
    BY <1>2, <2>1 DEF Rd!Request, Asked, ProxyOK
<1>3. CASE ~(up /\ k \notin pending)
  BY <1>3 DEF Rd!Request, Asked, ProxyOK, Rd!proxy
<1> QED
  BY <1>1, <1>2, <1>3

\* A getter does nothing or requests.
LEMMA KickAsks ==
  ASSUME ProxyOK, NEW k \in Rd!Tables, Rd!Kick(k)
  PROVE  Asked
<1>1. CASE k \in have /\ Rd!Ready(k)
  BY <1>1 DEF Rd!Kick, Asked, ProxyOK, Rd!proxy
<1>2. CASE ~(k \in have /\ Rd!Ready(k))
  BY <1>2, RequestAsks DEF Rd!Kick
<1> QED
  BY <1>1, <1>2

\* After a request what was to be told still is.
LEMMA AskedKeepsProxy ==
  ASSUME ReadsInv, Asked, posted' = posted
  PROVE  ProxyOK' /\ ProxyStands' /\ \A k \in Rd!Tables : Told(k) => Told(k)'
<1>1. ProxyOK'
  BY DEF ReadsInv, ProxyOK, Asked
<1>2. ProxyStands'
  BY TaskSets DEF ReadsInv, ProxyStands, Stands, Asked
<1>3. ASSUME NEW k \in Rd!Tables, Told(k) PROVE Told(k)'
  BY <1>3, TaskSets DEF Told, Asked
<1> QED
  BY <1>1, <1>2, <1>3

\* The step of a task that is no read of the facade and clears nothing.
LEMMA OthersStep ==
  ASSUME ReadsInv, Asked, posted' = posted, company' = company, TasksOK', ReadersRest,
         GhostsGrow,
         \A t \in Exporters : got'[t] = "nothing" =>
           t \in wiped' \/ spoiled' \cap {"buttons", "macros"} # {}
  PROVE  ReadsInv'
<1>1. ProxyOK' /\ ProxyStands' /\ \A k \in Rd!Tables : Told(k) => Told(k)'
  BY AskedKeepsProxy
<1>2. Placed'
  BY DEF ReadsInv, Placed, ReadersRest
<1>3. WokenStand'
  BY DEF ReadsInv, WokenStand, ReadersRest, GhostsGrow, Stands, Asked
<1>4. Announced'
  <2> SUFFICES ASSUME NEW t \in Readers, t \notin woken', at'[t] \in Steps, Rd!Ready(table[t])'
               PROVE  Told(table[t])' \/ t \in missed'
    BY DEF Announced
  <2>1. table'[t] = table[t] /\ table[t] \in Rd!Tables /\ Rd!Ready(table[t])
    BY DEF ReadsInv, TasksOK, ReadersRest, Steps, Rd!Ready, Asked
  <2>2. Told(table[t]) \/ t \in missed
    BY <2>1 DEF ReadsInv, Announced, ReadersRest
  <2> QED
    BY <2>1, <2>2, <1>1 DEF GhostsGrow, Told
<1>5. Rd!ReadIsWhole'
  BY DEF ReadsInv, Rd!ReadIsWhole, ReadersRest, GhostsGrow, Asked
<1> QED
  BY <1>1, <1>2, <1>3, <1>4, <1>5 DEF ReadsInv

\* It holds at the start.
LEMMA InitReads == Rd!Apart /\ Rd!Init => ReadsInv
<1> SUFFICES ASSUME Rd!Apart, Rd!Init PROVE ReadsInv
  OBVIOUS
<1>1. ProxyOK /\ TasksOK /\ ProxyStands
  BY DEF Rd!Init, ProxyOK, TasksOK, ProxyStands, Rd!Tasks
<1>2. Placed /\ WokenStand /\ Announced
  BY DEF Rd!Init, Placed, WokenStand, Announced, Rd!Tasks, Steps
<1>3. Rd!ReadIsWhole
  BY DEF Rd!Init, Rd!ReadIsWhole, Rd!Tasks, Rd!Apart
<1> QED
  BY <1>1, <1>2, <1>3 DEF ReadsInv

-----------------------------------------------------------------------------
(* The bridge thread and the event loop                                     *)

\* The last page comes in: the table is there and its burst has yet to end.
LEMMA AnswerKeeps == ASSUME ReadsInv, Rd!Answer PROVE ReadsInv'
<1>1. UNCHANGED <<tqueue, spoiled, Rd!link, Rd!loop, Rd!tasks>> /\ tburst' = tburst
      /\ tburst \in Rd!Tables /\ have' = have \cup {tburst} /\ answered'
      /\ flagged \subseteq flagged' /\ flagged' \subseteq flagged \cup {tburst}
  BY DEF Rd!Answer, ReadsInv, ProxyOK
<1>2. ProxyOK' /\ ProxyStands'
  BY <1>1 DEF ReadsInv, ProxyOK, ProxyStands, Stands, Rd!loop
<1>3. TasksOK' /\ Placed'
  BY <1>1 DEF ReadsInv, TasksOK, Placed, Rd!tasks, Rd!waits, Rd!link
<1>4. WokenStand' /\ Rd!ReadIsWhole'
  BY <1>1 DEF ReadsInv, WokenStand, Stands, Rd!ReadIsWhole, Rd!tasks, Rd!waits, Rd!ghosts
<1>5. Announced'
  <2> SUFFICES ASSUME NEW t \in Readers, t \notin woken, at[t] \in Steps, Rd!Ready(table[t])'
               PROVE  Told(table[t])' \/ t \in missed
    BY <1>1 DEF Announced, Rd!tasks, Rd!waits, Rd!ghosts
  <2>1. table[t] = tburst \/ Rd!Ready(table[t])
    BY <1>1 DEF Rd!Ready, Rd!tasks
  <2>2. Told(table[t]) \/ t \in missed
    BY <2>1 DEF ReadsInv, Announced, Told
  <2> QED
    BY <2>2, <1>1 DEF Told, Rd!tasks, Rd!loop
<1> QED
  BY <1>2, <1>3, <1>4, <1>5 DEF ReadsInv

\* The burst ends and posts its table; unanswered it spoils it.
LEMMA EndKeeps == ASSUME ReadsInv, Rd!End PROVE ReadsInv'
<1>1. /\ tburst \in Rd!Tables
      /\ UNCHANGED <<have, Rd!link, readyFor, primed, at, table, got, Rd!ghosts>>
      /\ flagged' = flagged \cup ({tburst} \ {"buttons"}) /\ answered' = FALSE
      /\ posted' = Append(posted, tburst)
      /\ spoiled \subseteq spoiled' /\ (~answered => tburst \in spoiled')
  BY DEF Rd!End, Rd!EndBurst, ReadsInv, ProxyOK
<1>2. \A t \in Readers : (t \in waiters' <=> t \in waiters) /\ (t \in woken' <=> t \in woken)
  BY TaskSets DEF Rd!End, Rd!EndBurst
<1>3. tburst' \in Rd!Tables \cup {NoTable} /\ tqueue' \in Seq(Rd!Tables)
  <2>1. \/ tqueue # << >> /\ tburst' = Head(tqueue) /\ tqueue' = Tail(tqueue)
        \/ tburst' = NoTable /\ tqueue' = << >>
    BY DEF Rd!End, Rd!EndBurst
  <2>2. tqueue \in Seq(Rd!Tables) /\ << >> \in Seq(Rd!Tables)
    BY DEF ReadsInv, ProxyOK
  <2>3. tqueue # << >> => Head(tqueue) \in Rd!Tables /\ Tail(tqueue) \in Seq(Rd!Tables)
    BY <2>2
  <2> QED
    BY <2>1, <2>2, <2>3
<1>4. /\ posted' \in Seq(Rd!Tables \cup {"down"})
      /\ Len(posted') = Len(posted) + 1 /\ Len(posted) \in Nat
      /\ \A i \in 1 .. Len(posted) : posted'[i] = posted[i]
      /\ posted'[Len(posted) + 1] = tburst
  BY <1>1, AppendProperties DEF ReadsInv, ProxyOK
<1>5. ProxyOK'
  BY <1>1, <1>3, <1>4 DEF ReadsInv, ProxyOK
<1>6. ProxyStands'
  BY <1>1 DEF ReadsInv, ProxyStands, Stands
<1>7. TasksOK' /\ Placed'
  BY <1>1, <1>2 DEF ReadsInv, TasksOK, Placed, Rd!link
<1>8. WokenStand' /\ Rd!ReadIsWhole'
  BY <1>1, <1>2 DEF ReadsInv, WokenStand, Stands, Rd!ReadIsWhole, Rd!ghosts
<1>9. \A k \in Rd!Tables : Told(k) => Told(k)'
  <2> SUFFICES ASSUME NEW k \in Rd!Tables, Told(k)
               PROVE  \E i \in 1 .. Len(posted') : posted'[i] = k
    BY DEF Told
  <2>1. CASE tburst = k
    BY <2>1, <1>4
  <2>2. CASE \E i \in 1 .. Len(posted) : posted[i] = k
    <3>1. PICK i \in 1 .. Len(posted) : posted[i] = k
      BY <2>2
    <3>2. i \in 1 .. Len(posted') /\ posted'[i] = k
      BY <3>1, <1>4
    <3> QED
      BY <3>2
  <2> QED
    BY <2>1, <2>2 DEF Told
<1>10. Announced'
  <2> SUFFICES ASSUME NEW t \in Readers, t \notin woken, at[t] \in Steps, Rd!Ready(table[t])'
               PROVE  Told(table[t])' \/ t \in missed
    BY <1>1, <1>2 DEF Announced, Rd!ghosts
  <2>0. table[t] \in Rd!Tables /\ table' = table
    BY <1>1 DEF ReadsInv, TasksOK, Steps
  <2>1. table[t] = tburst \/ Rd!Ready(table[t])
    BY <1>1, <2>0 DEF Rd!Ready
  <2>2. Told(table[t]) \/ t \in missed
    BY <2>1 DEF ReadsInv, Announced, Told
  <2> QED
    BY <2>0, <2>2, <1>9 DEF Told
<1> QED
  BY <1>5, <1>6, <1>7, <1>8, <1>10 DEF ReadsInv

\* The hub goes away and comes back.
LEMMA HubMoves == ASSUME ReadsInv, Rd!HubDrops \/ Rd!HubReturns PROVE ReadsInv'
<1>1. UNCHANGED <<Rd!proxy, company, readyFor, primed, Rd!tasks>>
      /\ (posted' = posted \/ posted' = Append(posted, "down"))
  BY DEF Rd!HubDrops, Rd!HubReturns, Rd!loop
<1>2. /\ posted' \in Seq(Rd!Tables \cup {"down"})
      /\ \A k \in Rd!Tables : Told(k) => Told(k)'
  <2>1. CASE posted' = posted
    BY <1>1, <2>1 DEF ReadsInv, ProxyOK, Told, Rd!proxy
  <2>2. CASE posted' = Append(posted, "down")
    <3>1. /\ posted' \in Seq(Rd!Tables \cup {"down"})
          /\ Len(posted') = Len(posted) + 1 /\ Len(posted) \in Nat
          /\ \A i \in 1 .. Len(posted) : posted'[i] = posted[i]
      BY <2>2, AppendProperties DEF ReadsInv, ProxyOK
    <3>2. ASSUME NEW i \in 1 .. Len(posted) PROVE i \in 1 .. Len(posted')
      BY <3>1
    <3> QED
      BY <1>1, <3>1, <3>2 DEF Told, Rd!proxy
  <2> QED
    BY <1>1, <2>1, <2>2
<1>3. ProxyOK' /\ ProxyStands'
  BY <1>1, <1>2 DEF ReadsInv, ProxyOK, ProxyStands, Stands, Rd!proxy
<1>4. TasksOK' /\ Placed'
  BY <1>1 DEF ReadsInv, TasksOK, Placed, Rd!tasks, Rd!waits
<1>5. WokenStand' /\ Rd!ReadIsWhole'
  BY <1>1 DEF ReadsInv, WokenStand, Stands, Rd!ReadIsWhole, Rd!tasks, Rd!waits, Rd!ghosts, Rd!proxy
<1>6. Announced'
  <2> SUFFICES ASSUME NEW t \in Readers, t \notin woken, at[t] \in Steps, Rd!Ready(table[t])'
               PROVE  Told(table[t])' \/ t \in missed
    BY <1>1 DEF Announced, Rd!tasks, Rd!waits, Rd!ghosts
  <2>0. table[t] \in Rd!Tables /\ table' = table
    BY <1>1 DEF ReadsInv, TasksOK, Steps, Rd!tasks
  <2>1. Rd!Ready(table[t])
    BY <1>1, <2>0 DEF Rd!Ready, Rd!proxy
  <2>2. Told(table[t]) \/ t \in missed
    BY <2>1 DEF ReadsInv, Announced, Told
  <2> QED
    BY <2>0, <2>2, <1>2 DEF Told
<1> QED
  BY <1>3, <1>4, <1>5, <1>6 DEF ReadsInv

\* The loop wakes every read that waits for the table at the head.
LEMMA RunPostedKeeps == ASSUME ReadsInv, Rd!RunPosted PROVE ReadsInv'
<1> DEFINE k == posted[1]
<1>1. /\ posted # << >> /\ posted \in Seq(Rd!Tables \cup {"down"})
      /\ UNCHANGED <<Rd!proxy, Rd!link, at, table, got, dropped>>
      /\ posted' = Tail(posted)
      /\ waiters' = waiters \ Rd!Waiting(k) /\ woken' = woken \cup Rd!Waiting(k)
      /\ missed' = missed \cup {t \in Readers : at[t] = "register" /\ table[t] = k}
      /\ wiped' = IF k \in have THEN wiped ELSE wiped \cup Rd!Waiting(k)
  BY DEF Rd!RunPosted, Rd!Woken, ReadsInv, ProxyOK
<1>2. /\ posted' \in Seq(Rd!Tables \cup {"down"})
      /\ Len(posted) \in Nat \ {0} /\ Len(posted') = Len(posted) - 1
      /\ \A i \in 1 .. Len(posted) - 1 : posted'[i] = posted[i + 1]
  BY <1>1
<1> HIDE DEF k
<1>3. \A t \in Readers : t \in Rd!Waiting(k) <=> t \in waiters /\ table[t] = k
  BY TaskSets DEF Rd!Waiting
<1>4. ProxyOK' /\ ProxyStands'
  BY <1>1, <1>2 DEF ReadsInv, ProxyOK, ProxyStands, Stands, Rd!proxy
<1>5. TasksOK' /\ Placed'
  BY <1>1, <1>3 DEF ReadsInv, TasksOK, Placed, Rd!link
<1>6. WokenStand'
  BY <1>1, <1>3 DEF ReadsInv, WokenStand, Stands, Rd!proxy
<1>7. Rd!ReadIsWhole'
  BY <1>1 DEF ReadsInv, Rd!ReadIsWhole, Rd!proxy
<1>8. \A j \in Rd!Tables : j # k /\ Told(j) => Told(j)'
  <2> SUFFICES ASSUME NEW j \in Rd!Tables, j # k, NEW i \in 1 .. Len(posted), posted[i] = j
               PROVE  \E m \in 1 .. Len(posted') : posted'[m] = j
    BY <1>1 DEF Told, Rd!proxy
  <2>1. i # 1
    BY DEF k
  <2>2. i - 1 \in 1 .. Len(posted') /\ posted'[i - 1] = posted[i - 1 + 1] /\ i - 1 + 1 = i
    BY <1>2, <2>1
  <2> QED
    BY <2>2
<1>9. Announced'
  <2> SUFFICES ASSUME NEW t \in Readers, t \notin woken', at[t] \in Steps, Rd!Ready(table[t])'
               PROVE  Told(table[t])' \/ t \in missed'
    BY <1>1 DEF Announced
  <2>0. table[t] \in Rd!Tables /\ table' = table
    BY <1>1 DEF ReadsInv, TasksOK, Steps
  <2>1. Rd!Ready(table[t]) /\ t \notin woken
    BY <1>1, <2>0 DEF Rd!Ready, Rd!proxy
  <2>2. Told(table[t]) \/ t \in missed
    BY <2>1 DEF ReadsInv, Announced, Told
  <2>3. CASE table[t] = k
    BY <1>1, <1>3, <2>1, <2>3 DEF ReadsInv, Placed, Steps
  <2>4. CASE table[t] # k
    BY <1>1, <1>8, <2>0, <2>2, <2>4 DEF Told
  <2> QED
    BY <2>3, <2>4
<1> QED
  BY <1>4, <1>5, <1>6, <1>7, <1>9 DEF ReadsInv

-----------------------------------------------------------------------------
(* The reads of the facade                                                  *)

\* The step of one read, which leaves the posted callbacks alone.
LEMMA ReadStep ==
  ASSUME ReadsInv, NEW t \in Readers \cap company, Asked, UNCHANGED <<company, posted, Rd!ghosts>>,
         NEW step \in Steps \cup {"done"}, Rd!Go(t, step),
         DOMAIN table' = Rd!Tasks, DOMAIN got' = Rd!Tasks,
         \A u \in Rd!Tasks \ {t} : table'[u] = table[u] /\ got'[u] = got[u],
         NEW k \in Rd!Tables, table'[t] = k, got'[t] # NoTable => step = "done",
         \A u \in Rd!Tasks \ {t} :
           (u \in waiters' <=> u \in waiters) /\ (u \in woken' <=> u \in woken),
         t \in waiters' \cup woken' <=> step \in {"kick", "wait"},
         t \in woken' => Stands(k) \/ t \in wiped,
         got'[t] = "nothing" => t \in wiped \/ k \in spoiled,
         step \in Steps /\ t \notin woken' /\ Rd!Ready(k) => Told(k) \/ t \in missed
  PROVE  ReadsInv'
<1>1. ProxyOK' /\ ProxyStands' /\ \A j \in Rd!Tables : Told(j) => Told(j)'
  BY AskedKeepsProxy
<1>2. /\ t \in Rd!Tasks /\ t \notin Exporters /\ DOMAIN at' = Rd!Tasks
      /\ at'[t] = step /\ \A u \in Rd!Tasks \ {t} : at'[u] = at[u]
  BY TaskSets DEF Rd!Go, Rd!Tasks, ReadsInv, TasksOK
<1>3. Readers \cup Exporters \subseteq Rd!Tasks
  BY DEF Rd!Tasks
<1>4. TasksOK'
  BY <1>2, <1>3 DEF ReadsInv, TasksOK, Steps
<1>5. Placed'
  BY <1>2, <1>3 DEF ReadsInv, Placed, Steps
<1>6. WokenStand'
  BY <1>3 DEF ReadsInv, WokenStand, Stands, Asked, Rd!ghosts
<1>7. Rd!ReadIsWhole'
  BY <1>2, <1>3 DEF ReadsInv, Rd!ReadIsWhole, Asked, Rd!ghosts
<1>8. Announced'
  <2> SUFFICES ASSUME NEW u \in Readers, u \notin woken', at'[u] \in Steps, Rd!Ready(table[u])'
               PROVE  Told(table[u])' \/ u \in missed
    BY DEF Announced, Rd!ghosts
  <2>1. u \in Rd!Tasks /\ table'[u] \in Rd!Tables
    BY <1>3, <1>4 DEF TasksOK, Steps
  <2>3. CASE u = t
    <3>1. Rd!Ready(k)
      BY <2>3 DEF Rd!Ready, Asked
    <3>2. Told(k) \/ t \in missed
      BY <3>1, <2>3, <1>2
    <3> QED
      BY <3>2, <1>1, <2>3 DEF Told
  <2>4. CASE u # t
    <3>1. table'[u] = table[u] /\ Rd!Ready(table[u])
      BY <2>1, <2>4 DEF Rd!Ready, Asked
    <3>2. Told(table[u]) \/ u \in missed
      BY <3>1, <2>1, <2>4, <1>2 DEF ReadsInv, Announced
    <3> QED
      BY <3>1, <3>2, <1>1, <2>1 DEF Told
  <2> QED
    BY <2>3, <2>4
<1> QED
  BY <1>1, <1>4, <1>5, <1>6, <1>7, <1>8 DEF ReadsInv

\* No request at all.
LEMMA ProxyRests == ASSUME ReadsInv, UNCHANGED Rd!proxy PROVE Asked
BY DEF Asked, Rd!proxy, ReadsInv, ProxyOK

\* Each step of a read of the facade.
LEMMA ReadKeeps ==
  ASSUME ReadsInv, NEW t \in Readers \cap company, Rd!Read(t)
  PROVE  ReadsInv'
<1>0. /\ t \in Rd!Tasks /\ DOMAIN at = Rd!Tasks /\ DOMAIN table = Rd!Tasks /\ DOMAIN got = Rd!Tasks
      /\ got[t] # NoTable => at[t] = "done"
      /\ at[t] \in Steps => table[t] \in Rd!Tables
      /\ t \in waiters \cup woken <=> at[t] \in {"kick", "wait"}
  BY DEF ReadsInv, TasksOK, Placed, Rd!Tasks, Steps
<1>a. ASSUME NEW what, Rd!Returns(t, what)
      PROVE  /\ Rd!Go(t, "done") /\ got'[t] = what /\ DOMAIN got' = Rd!Tasks
             /\ \A u \in Rd!Tasks \ {t} : got'[u] = got[u]
  BY <1>0, <1>a DEF Rd!Returns
<1>b. ASSUME Rd!Leaves(t)
      PROVE  /\ t \notin waiters' /\ t \notin woken'
             /\ \A u \in Rd!Tasks \ {t} :
                  (u \in waiters' <=> u \in waiters) /\ (u \in woken' <=> u \in woken)
  BY <1>b DEF Rd!Leaves
<1>1. ASSUME NEW k \in {"buttons", "macros"}, Rd!Look(t, k) PROVE ReadsInv'
  <2>1. Asked /\ UNCHANGED <<company, posted, Rd!ghosts, waiters, woken>>
    BY <1>1, ProxyRests DEF Rd!Look, Rd!link, Rd!loop, Rd!waits
  <2>2. /\ at[t] = "idle" /\ DOMAIN table' = Rd!Tasks /\ table'[t] = k
        /\ \A u \in Rd!Tasks \ {t} : table'[u] = table[u]
    BY <1>0, <1>1 DEF Rd!Look
  <2>3. k \in Rd!Tables /\ t \notin waiters /\ t \notin woken
    BY <1>0, <2>2 DEF Rd!Tables
  <2>4. CASE Rd!Ready(k)
    <3>1. Rd!Returns(t, Rd!Found(k))
      BY <1>1, <2>4 DEF Rd!Look
    <3>2. /\ Rd!Go(t, "done") /\ got'[t] = Rd!Found(k) /\ DOMAIN got' = Rd!Tasks
          /\ \A u \in Rd!Tasks \ {t} : got'[u] = got[u]
      BY <3>1, <1>a
    <3>3. got'[t] = "nothing" => k \in spoiled
      BY <2>4, <3>2 DEF Rd!Found, Rd!Ready, ReadsInv, ProxyStands, Stands
    <3> QED
      BY <2>1, <2>2, <2>3, <3>2, <3>3, ReadStep DEF Steps
  <2>5. CASE ~Rd!Ready(k)
    <3>1. Rd!Go(t, "register") /\ got' = got
      BY <1>1, <2>5 DEF Rd!Look
    <3>2. got'[t] = NoTable
      BY <3>1, <1>0, <2>2
    <3> QED
      BY <1>0, <2>1, <2>2, <2>3, <2>5, <3>1, <3>2, TaskSets, ReadStep DEF Steps
  <2> QED
    BY <2>4, <2>5
<1> DEFINE k == table[t]
<1> HIDE DEF k
<1>c. ASSUME at[t] \in Steps, UNCHANGED table
      PROVE  /\ k \in Rd!Tables /\ got[t] = NoTable /\ DOMAIN table' = Rd!Tasks /\ table'[t] = k
             /\ \A u \in Rd!Tasks \ {t} : table'[u] = table[u]
             /\ t \notin woken /\ Rd!Ready(k) => Told(k) \/ t \in missed
             /\ t \in woken => Stands(k) \/ t \in wiped
  BY <1>0, <1>c DEF k, Steps, ReadsInv, Announced, WokenStand
<1>2. ASSUME Rd!RegisterWaiter(t) PROVE ReadsInv'
  <2>1. /\ Asked /\ UNCHANGED <<company, posted, Rd!ghosts, woken, table>> /\ at[t] = "register"
    BY <1>2, ProxyRests DEF Rd!RegisterWaiter, Rd!link, Rd!loop
  <2>2. at[t] \in Steps /\ t \notin waiters /\ t \notin woken
    BY <1>0, <2>1 DEF Steps
  <2>3. CASE up
    <3>1. Rd!Go(t, "kick") /\ waiters' = waiters \cup {t} /\ got' = got
      BY <1>2, <2>3 DEF Rd!RegisterWaiter
    <3>2. /\ DOMAIN got' = Rd!Tasks /\ got'[t] = NoTable /\ t \in waiters'
          /\ \A u \in Rd!Tasks \ {t} : u \in waiters' <=> u \in waiters
      BY <1>0, <1>c, <2>1, <2>2, <3>1
    <3> QED
      BY <1>c, <2>1, <2>2, <3>1, <3>2, TaskSets, ReadStep DEF Steps
  <2>4. CASE ~up
    <3>1. Rd!Returns(t, "refused") /\ waiters' = waiters
      BY <1>2, <2>4 DEF Rd!RegisterWaiter
    <3>2. /\ Rd!Go(t, "done") /\ got'[t] = "refused" /\ DOMAIN got' = Rd!Tasks
          /\ \A u \in Rd!Tasks \ {t} : got'[u] = got[u]
      BY <3>1, <1>a
    <3> QED
      BY <1>c, <2>1, <2>2, <3>1, <3>2, ReadStep DEF Steps
  <2> QED
    BY <2>3, <2>4
<1>3. ASSUME Rd!KickRead(t) PROVE ReadsInv'
  <2>1. /\ UNCHANGED <<company, posted, Rd!ghosts, waiters, woken, table, got>>
        /\ at[t] = "kick" /\ Rd!Kick(k) /\ Rd!Go(t, "wait")
    BY <1>3 DEF Rd!KickRead, Rd!link, Rd!loop, Rd!waits, k
  <2>2. at[t] \in Steps /\ t \in waiters \cup woken
    BY <1>0, <2>1 DEF Steps
  <2>3. k \in Rd!Tables /\ ProxyOK
    BY <1>c, <2>1, <2>2 DEF ReadsInv
  <2>4. Asked
    BY <2>1, <2>3, KickAsks
  <2>5. DOMAIN got' = Rd!Tasks /\ got'[t] = NoTable
    BY <1>0, <1>c, <2>1, <2>2
  <2> QED
    BY <1>c, <2>1, <2>2, <2>4, <2>5, TaskSets, ReadStep DEF Steps
<1>4. ASSUME Rd!TimeOut(t) \/ Rd!LookAgain(t) PROVE ReadsInv'
  <2>1. /\ Asked /\ UNCHANGED <<company, posted, Rd!ghosts, table>>
        /\ at[t] = "wait" /\ Rd!Leaves(t)
    BY <1>4, ProxyRests DEF Rd!TimeOut, Rd!LookAgain, Rd!link, Rd!loop
  <2>2. at[t] \in Steps
    BY <2>1 DEF Steps
  <2>3. PICK what : /\ Rd!Returns(t, what)
                    /\ what = "nothing" => k \in spoiled \/ t \in wiped
    <3>1. CASE Rd!TimeOut(t)
      BY <3>1 DEF Rd!TimeOut
    <3>2. CASE Rd!LookAgain(t)
      <4>1. Rd!Returns(t, Rd!Found(k)) /\ t \in woken
        BY <3>2 DEF Rd!LookAgain, k
      <4>2. Rd!Found(k) = "nothing" => k \in spoiled \/ t \in wiped
        BY <4>1, <1>c, <2>1, <2>2 DEF Rd!Found, Stands
      <4> QED
        BY <4>1, <4>2
    <3> QED
      BY <1>4, <3>1, <3>2
  <2>4. /\ Rd!Go(t, "done") /\ got'[t] = what /\ DOMAIN got' = Rd!Tasks
        /\ \A u \in Rd!Tasks \ {t} : got'[u] = got[u]
    BY <2>3, <1>a
  <2>5. /\ t \notin waiters' /\ t \notin woken'
        /\ \A u \in Rd!Tasks \ {t} :
             (u \in waiters' <=> u \in waiters) /\ (u \in woken' <=> u \in woken)
    BY <2>1, <1>b
  <2>6. k \in Rd!Tables /\ DOMAIN table' = Rd!Tasks /\ table'[t] = k
        /\ \A u \in Rd!Tasks \ {t} : table'[u] = table[u]
    BY <1>c, <2>1, <2>2
  <2> QED
    BY <2>1, <2>3, <2>4, <2>5, <2>6, ReadStep DEF Steps
<1> QED
  BY <1>1, <1>2, <1>3, <1>4 DEF Rd!Read

-----------------------------------------------------------------------------
(* The others                                                               *)

\* The cache is cleared by a task that is no read of the facade.
LEMMA ClearKeeps ==
  ASSUME ReadsInv, Rd!Clear(Rd!Tables), NEW t \in Rd!Tasks \ Readers, Rd!Wipes(t),
         UNCHANGED <<company, posted, missed>>, TasksOK', ReadersRest,
         \A u \in Exporters : got'[u] = got[u]
  PROVE  ReadsInv'
<1>1. /\ have' = {} /\ flagged' = flagged \ Rd!Tables /\ tburst' = tburst /\ tqueue' = tqueue
      /\ answered' = answered /\ spoiled \subseteq spoiled'
      /\ answered /\ tburst \in Rd!Tables => tburst \in spoiled'
  BY DEF Rd!Clear, ReadsInv, ProxyOK
<1>2. \A u \in Readers : at[u] \in {"kick", "wait"} => u \in wiped'
  BY TaskSets DEF Rd!Wipes
<1>3. wiped \subseteq wiped'
  BY DEF Rd!Wipes
<1>4. ProxyOK'
  BY <1>1 DEF ReadsInv, ProxyOK
<1>5. ProxyStands'
  <2>1. answered => tburst \in Rd!Tables \/ tburst \in spoiled
    BY DEF ReadsInv, ProxyOK, ProxyStands, Stands
  <2> QED
    BY <1>1, <2>1, TaskSets DEF ProxyStands, Stands
<1>6. Placed'
  BY DEF ReadsInv, Placed, ReadersRest
<1>7. WokenStand'
  BY <1>2 DEF WokenStand, ReadsInv, Placed, ReadersRest
<1>8. Announced'
  <2>1. \A u \in Readers : at'[u] \in Steps => table'[u] \in Rd!Tables
    BY DEF TasksOK, Steps
  <2>2. \A k \in Rd!Tables : ~Rd!Ready(k)'
    BY <1>1 DEF Rd!Ready
  <2> QED
    BY <2>1, <2>2 DEF Announced, Rd!Ready
<1>9. Rd!ReadIsWhole'
  BY <1>1, <1>3 DEF ReadsInv, Rd!ReadIsWhole, ReadersRest
<1> QED
  BY <1>4, <1>5, <1>6, <1>7, <1>8, <1>9 DEF ReadsInv

\* A step of a task that is no read of the facade and returns nothing.
LEMMA OthersReturnNothing ==
  ASSUME ReadsInv, Asked, UNCHANGED <<posted, company, Rd!ghosts, got>>, TasksOK', ReadersRest
  PROVE  ReadsInv'
<1>1. \A u \in Exporters : got'[u] = "nothing" =>
        u \in wiped' \/ spoiled' \cap {"buttons", "macros"} # {}
  BY TaskSets DEF ReadsInv, Rd!ReadIsWhole, Asked, Rd!ghosts
<1> QED
  BY <1>1, OthersStep DEF GhostsGrow, Rd!ghosts

\* What a step of a task that is no read of the facade leaves alone.
LEMMA Elsewhere ==
  ASSUME ReadsInv, NEW t \in Rd!Tasks \ Readers, company' = company,
         NEW step \in {"look", "kick", "wait", "clear", "get", "await", "map", "macros", "done"},
         Rd!Go(t, step),
         DOMAIN table' = Rd!Tasks, DOMAIN got' = Rd!Tasks,
         \A u \in Rd!Tasks \ {t} : table'[u] = table[u] /\ got'[u] = got[u],
         t \in Exporters => table'[t] \in Rd!Tables /\ (got'[t] # NoTable => step = "done"),
         waiters' \ {t} = waiters \ {t}, woken' \ {t} = woken \ {t}
  PROVE  TasksOK' /\ ReadersRest
<1>1. /\ DOMAIN at' = Rd!Tasks /\ at'[t] = step
      /\ \A u \in Rd!Tasks \ {t} : at'[u] = at[u]
  BY DEF Rd!Go, ReadsInv, TasksOK
<1>2. TasksOK'
  BY <1>1, TaskSets DEF ReadsInv, TasksOK
<1>3. ReadersRest
  BY <1>1, TaskSets DEF ReadersRest
<1> QED
  BY <1>2, <1>3

\* Each step of an export.
LEMMA ExportKeeps ==
  ASSUME ReadsInv, NEW t \in Exporters, Rd!Export(t)
  PROVE  ReadsInv'
<1>0. /\ t \in Rd!Tasks \ Readers /\ DOMAIN table = Rd!Tasks /\ DOMAIN got = Rd!Tasks
      /\ got[t] # NoTable => at[t] = "done"
      /\ at[t] # "idle" => table[t] \in Rd!Tables
  BY TaskSets DEF ReadsInv, TasksOK
<1>1. ASSUME Rd!ExportClears(t) PROVE ReadsInv'
  <2>1. /\ Rd!Clear(Rd!Tables) /\ Rd!Wipes(t)
        /\ UNCHANGED <<company, posted, missed, got, Rd!waits>>
        /\ Rd!Go(t, "look") /\ table' = [table EXCEPT ![t] = "buttons"] /\ at[t] = "idle"
    BY <1>1 DEF Rd!ExportClears, Rd!link, Rd!loop
  <2>2. /\ DOMAIN table' = Rd!Tasks /\ table'[t] = "buttons" /\ "buttons" \in Rd!Tables
        /\ \A u \in Rd!Tasks \ {t} : table'[u] = table[u]
    BY <2>1, <1>0, TaskSets
  <2>3. got' = got /\ got[t] = NoTable
    BY <2>1, <1>0
  <2>4. TasksOK' /\ ReadersRest
    BY <1>0, <2>1, <2>2, <2>3, Elsewhere DEF Rd!waits
  <2> QED
    BY <1>0, <2>1, <2>4, ClearKeeps
<1>2. ASSUME Asked, UNCHANGED <<company, posted, Rd!ghosts>>, at[t] \in {"look", "wait"},
             Rd!ExportNext(t)
      PROVE  ReadsInv'
  <2>1. /\ waiters' \ {t} = waiters \ {t} /\ woken' \ {t} = woken \ {t}
        /\ got[t] = NoTable /\ table[t] \in Rd!Tables
    BY <1>0, <1>2 DEF Rd!ExportNext, Rd!Leaves
  <2>2. CASE table[t] = "buttons"
    <3>1. Rd!Go(t, "look") /\ table' = [table EXCEPT ![t] = "macros"] /\ got' = got
      BY <1>2, <2>2 DEF Rd!ExportNext
    <3>2. /\ DOMAIN table' = Rd!Tasks /\ table'[t] = "macros" /\ "macros" \in Rd!Tables
          /\ \A u \in Rd!Tasks \ {t} : table'[u] = table[u]
      BY <3>1, <1>0, TaskSets
    <3>3. TasksOK' /\ ReadersRest
      BY <1>0, <1>2, <2>1, <3>1, <3>2, Elsewhere
    <3> QED
      BY <1>2, <3>1, <3>3, OthersReturnNothing
  <2>3. CASE table[t] # "buttons"
    <3>1. PICK what : Rd!Returns(t, what) /\ table' = table
                      /\ (what = "nothing" =>
                            Rd!Complete /\ ~({"buttons", "macros"} \subseteq have))
      BY <1>2, <2>3 DEF Rd!ExportNext
    <3>2. /\ Rd!Go(t, "done") /\ got'[t] = what /\ DOMAIN got' = Rd!Tasks
          /\ \A u \in Rd!Tasks \ {t} : got'[u] = got[u]
      BY <3>1, <1>0 DEF Rd!Returns
    <3>3. TasksOK' /\ ReadersRest
      BY <1>0, <1>2, <2>1, <3>1, <3>2, Elsewhere
    <3>4. what = "nothing" => "macros" \in spoiled'
      BY <1>2, <3>1 DEF Rd!Complete, Rd!Ready, ReadsInv, ProxyStands, Stands, Asked
    <3>5. \A u \in Exporters : got'[u] = "nothing" =>
            u \in wiped' \/ spoiled' \cap {"buttons", "macros"} # {}
      BY <1>2, <3>2, <3>4, TaskSets DEF ReadsInv, Rd!ReadIsWhole, Rd!ghosts, Asked
    <3> QED
      BY <1>2, <3>3, <3>5, OthersStep DEF GhostsGrow, Rd!ghosts
  <2> QED
    BY <2>2, <2>3
<1>3. ASSUME Asked, UNCHANGED <<company, posted, Rd!ghosts, table, got>>, 
             at[t] \in {"look", "kick"},
             NEW step \in {"kick", "wait"}, Rd!Go(t, step),
             waiters' \ {t} = waiters \ {t}, woken' = woken
      PROVE  ReadsInv'
  <2>1. table[t] \in Rd!Tables /\ got[t] = NoTable
    BY <1>0, <1>3
  <2>2. TasksOK' /\ ReadersRest
    BY <1>0, <1>3, <2>1, Elsewhere
  <2> QED
    BY <1>3, <2>2, OthersReturnNothing
<1>4. ASSUME Rd!ExportLooks(t) PROVE ReadsInv'
  <2>1. CASE Rd!ExportNext(t)
    <3>1. UNCHANGED <<Rd!proxy, company, posted, Rd!ghosts>> /\ at[t] \in {"look", "wait"}
      BY <1>4, <2>1 DEF Rd!ExportLooks, Rd!ExportNext, Rd!link, Rd!loop
    <3> QED
      BY <1>2, <2>1, <3>1, ProxyRests
  <2>2. CASE ~Rd!ExportNext(t)
    <3>1. /\ UNCHANGED <<Rd!proxy, company, posted, Rd!ghosts, table, got, woken>>
          /\ at[t] = "look" /\ Rd!Go(t, "kick") /\ waiters' = waiters \cup {t}
      BY <1>4, <2>2 DEF Rd!ExportLooks, Rd!link, Rd!loop
    <3> QED
      BY <1>3, <3>1, ProxyRests
  <2> QED
    BY <2>1, <2>2
<1>5. ASSUME Rd!ExportKicks(t) PROVE ReadsInv'
  <2>1. /\ UNCHANGED <<company, posted, Rd!ghosts, table, got, waiters, woken>>
        /\ at[t] = "kick" /\ Rd!Go(t, "wait") /\ Rd!Kick(table[t])
    BY <1>5 DEF Rd!ExportKicks, Rd!link, Rd!loop, Rd!waits
  <2>2. Asked
    BY <2>1, <1>0, KickAsks DEF ReadsInv
  <2> QED
    BY <2>1, <2>2, <1>3
<1>6. ASSUME Rd!ExportGoesOn(t) PROVE ReadsInv'
  <2>1. UNCHANGED <<Rd!proxy, company, posted, Rd!ghosts>> /\ at[t] = "wait" /\ Rd!ExportNext(t)
    BY <1>6 DEF Rd!ExportGoesOn, Rd!ExportNext, Rd!link, Rd!loop
  <2> QED
    BY <1>2, <2>1, ProxyRests
<1> QED
  BY <1>1, <1>4, <1>5, <1>6 DEF Rd!Export

\* The coordinator clears the tables of an activity it shows: no read of the
\* facade is under way beside it.
LEMMA ResetKeeps ==
  ASSUME ReadsInv, NEW t \in Fetchers \cap company, Rd!Reset(t)
  PROVE  ReadsInv'
<1>0. /\ t \in Rd!Tasks \ Readers /\ t \notin Exporters
      /\ DOMAIN table = Rd!Tasks /\ DOMAIN got = Rd!Tasks
      /\ \A u \in Readers : u \notin company
  BY TaskSets DEF ReadsInv, TasksOK
<1>1. /\ UNCHANGED <<tburst, answered, tqueue, company, posted, table, got, woken, wiped, missed>>
      /\ Rd!Go(t, "clear") /\ have' = have \ {"map", "macros"} /\ flagged' = flagged \ {"macros"}
      /\ waiters' = waiters \ Rd!Waiting("buttons")
      /\ spoiled' = IF answered THEN spoiled \cup {tburst} ELSE spoiled
  BY DEF Rd!Reset, Rd!link
<1>2. \A u \in Readers : u \notin waiters /\ u \notin woken /\ at[u] \in {"idle", "done"}
                         /\ at[u] \notin Steps
  BY <1>0 DEF ReadsInv, Placed, Steps
<1>3. /\ DOMAIN at' = Rd!Tasks /\ at'[t] = "clear"
      /\ \A u \in Rd!Tasks \ {t} : at'[u] = at[u]
  BY <1>0, <1>1 DEF Rd!Go, ReadsInv, TasksOK
<1>4. ProxyOK' /\ ProxyStands'
  BY <1>1 DEF ReadsInv, ProxyOK, ProxyStands, Stands
<1>5. TasksOK'
  BY <1>0, <1>1, <1>3, TaskSets DEF ReadsInv, TasksOK
<1>6. \A u \in Readers : at'[u] = at[u] /\ u \notin waiters' /\ u \notin woken'
  BY <1>0, <1>1, <1>2, <1>3, TaskSets
<1>7. Placed' /\ WokenStand' /\ Announced'
  BY <1>1, <1>2, <1>6 DEF ReadsInv, Placed, WokenStand, Announced
<1>8. Rd!ReadIsWhole'
  BY <1>1 DEF ReadsInv, Rd!ReadIsWhole
<1> QED
  BY <1>4, <1>5, <1>7, <1>8 DEF ReadsInv

\* The other steps of the coordinator.
LEMMA CoordinatorKeeps ==
  ASSUME ReadsInv, NEW t \in Fetchers \cup Primers,
         Rd!Continue(t) \/ Rd!Prime(t) \/ Rd!FetchClears(t)
  PROVE  ReadsInv'
<1>0. /\ t \in Rd!Tasks \ Readers /\ t \notin Exporters
      /\ DOMAIN table = Rd!Tasks /\ DOMAIN got = Rd!Tasks
      /\ {"buttons", "map", "macros"} \subseteq Rd!Tables /\ ProxyOK
  BY TaskSets DEF ReadsInv, TasksOK
<1>1. ASSUME Asked, UNCHANGED <<company, posted, Rd!ghosts, got>>,
             table' = table \/ table' = [table EXCEPT ![t] = "buttons"],
             NEW step \in {"wait", "get", "await", "map", "macros", "done"}, Rd!Go(t, step),
             waiters' \ {t} = waiters \ {t}, woken' \ {t} = woken \ {t}
      PROVE  ReadsInv'
  <2>1. DOMAIN table' = Rd!Tasks /\ \A u \in Rd!Tasks \ {t} : table'[u] = table[u]
    BY <1>0, <1>1
  <2>2. TasksOK' /\ ReadersRest
    BY <1>0, <1>1, <2>1, Elsewhere
  <2> QED
    BY <1>1, <2>2, OthersReturnNothing
<1>2. ASSUME Rd!FetchClears(t) PROVE ReadsInv'
  <2>1. /\ Rd!Clear(Rd!Tables) /\ Rd!Wipes(t)
        /\ UNCHANGED <<company, posted, missed, table, got, Rd!waits>>
        /\ Rd!Go(t, "get")
    BY <1>2 DEF Rd!FetchClears, Rd!link, Rd!loop
  <2>2. TasksOK' /\ ReadersRest
    BY <1>0, <2>1, Elsewhere DEF Rd!waits
  <2> QED
    BY <1>0, <2>1, <2>2, ClearKeeps
<1>3. ASSUME Rd!Prime(t) PROVE ReadsInv'
  <2>1. /\ UNCHANGED <<Rd!proxy, company, posted, Rd!ghosts, got, table, waiters, woken>>
        /\ Rd!Go(t, "done") \/ Rd!Go(t, "get")
    BY <1>3 DEF Rd!Prime, Rd!link, Rd!waits
  <2> QED
    BY <2>1, <1>1, ProxyRests
<1>4. ASSUME Rd!GetButtons(t) PROVE ReadsInv'
  <2>1. /\ UNCHANGED <<company, posted, Rd!ghosts, got, table, waiters, woken>>
        /\ Rd!Go(t, "map") \/ Rd!Go(t, "await")
        /\ Rd!Kick("buttons")
    BY <1>4 DEF Rd!GetButtons, Rd!link, Rd!waits
  <2> QED
    BY <2>1, <1>0, <1>1, KickAsks
<1>5. ASSUME Rd!AwaitButtons(t) PROVE ReadsInv'
  <2>1. /\ UNCHANGED <<Rd!proxy, company, posted, Rd!ghosts, got, woken>>
        /\ Rd!Go(t, "map") \/ Rd!Go(t, "wait")
        /\ table' = table \/ table' = [table EXCEPT ![t] = "buttons"]
        /\ waiters' = waiters \/ waiters' = waiters \cup {t}
    BY <1>5 DEF Rd!AwaitButtons, Rd!link, Rd!loop
  <2>2. waiters' \ {t} = waiters \ {t} /\ woken' \ {t} = woken \ {t} /\ Asked
    BY <2>1, ProxyRests
  <2> QED
    BY <2>1, <2>2, <1>1
<1>6. ASSUME Rd!ButtonsCame(t) PROVE ReadsInv'
  <2>1. /\ UNCHANGED <<Rd!proxy, company, posted, Rd!ghosts, got, table>>
        /\ Rd!Go(t, "map") /\ Rd!Leaves(t)
    BY <1>6 DEF Rd!ButtonsCame, Rd!link, Rd!loop
  <2>2. waiters' \ {t} = waiters \ {t} /\ woken' \ {t} = woken \ {t} /\ Asked
    BY <2>1, ProxyRests DEF Rd!Leaves
  <2> QED
    BY <2>1, <2>2, <1>1
<1>7. ASSUME Rd!GetMap(t) PROVE ReadsInv'
  <2>1. /\ UNCHANGED <<company, posted, Rd!ghosts, got, table, waiters, woken>>
        /\ Rd!Go(t, "macros")
        /\ UNCHANGED Rd!proxy \/ Rd!Request("map")
    BY <1>7 DEF Rd!GetMap, Rd!link, Rd!loop, Rd!waits
  <2>2. Asked
    BY <2>1, <1>0, ProxyRests, RequestAsks
  <2> QED
    BY <2>1, <2>2, <1>1
<1>8. ASSUME Rd!GetMacros(t) PROVE ReadsInv'
  <2>1. /\ UNCHANGED <<company, posted, Rd!ghosts, got, table, waiters, woken>>
        /\ Rd!Go(t, "done") /\ Rd!Kick("macros")
    BY <1>8 DEF Rd!GetMacros, Rd!link, Rd!loop, Rd!waits
  <2> QED
    BY <2>1, <1>0, <1>1, KickAsks
<1> QED
  BY <1>2, <1>3, <1>4, <1>5, <1>6, <1>7, <1>8 DEF Rd!Continue

\* A step that changes nothing.
LEMMA NothingKeeps == ASSUME ReadsInv, UNCHANGED Rd!vars PROVE ReadsInv'
<1>1. ProxyOK' /\ ProxyStands' /\ TasksOK' /\ Placed'
  BY DEF ReadsInv, ProxyOK, ProxyStands, Stands, TasksOK, Placed, Rd!vars, Rd!proxy, Rd!link,
     Rd!loop, Rd!tasks, Rd!waits
<1>2. WokenStand' /\ Announced' /\ Rd!ReadIsWhole'
  BY DEF ReadsInv, WokenStand, Stands, Announced, Told, Rd!Ready, Rd!ReadIsWhole, Rd!vars,
     Rd!proxy, Rd!link,
         Rd!loop, Rd!tasks, Rd!waits, Rd!ghosts
<1> QED
  BY <1>1, <1>2 DEF ReadsInv

\* Every step keeps the invariant.
LEMMA ReadsStep == ASSUME ReadsInv, [Rd!Next]_(Rd!vars) PROVE ReadsInv'
<1>1. CASE Rd!Bridge
  BY <1>1, AnswerKeeps, EndKeeps, HubMoves DEF Rd!Bridge
<1>2. CASE Rd!RunPosted
  BY <1>2, RunPostedKeeps
<1>3. CASE \E t \in Readers \cap company : Rd!Read(t)
  BY <1>3, ReadKeeps
<1>4. CASE \E t \in Exporters \cap company : Rd!Export(t)
  BY <1>4, ExportKeeps
<1>5. CASE \E t \in Fetchers \cap company : Rd!Reset(t) \/ Rd!FetchClears(t) \/ Rd!Continue(t)
  BY <1>5, ResetKeeps, CoordinatorKeeps
<1>6. CASE \E t \in Primers \cap company : Rd!Prime(t) \/ Rd!Continue(t)
  BY <1>6, CoordinatorKeeps
<1> QED
  BY <1>1, <1>2, <1>3, <1>4, <1>5, <1>6, NothingKeeps DEF Rd!Next

-----------------------------------------------------------------------------
(* The theorems                                                             *)

\* The inductive invariant of the reads: what is marked complete or woken for is
\* in the cache, or known to be spoiled or wiped, and who waits for a table that
\* is there will be told.
THEOREM ReadsInvariant == Rd!Spec => []ReadsInv
<1>1. Rd!Init => ReadsInv
  BY InitReads, TasksAreApart
<1> QED
  BY <1>1, ReadsStep, PTL DEF Rd!Spec

\* A read of the facade and an export return what the hub holds, unless the
\* answer broke off or the cache was cleared meanwhile, whatever tasks of any
\* number run beside each other.
THEOREM ReadsAreWhole == Rd!Spec => []ReadIsWhole
<1>1. ReadsInv => ReadIsWhole
  BY DEF ReadsInv, ReadIsWhole
<1> QED
  BY <1>1, ReadsInvariant, PTL

\* Only TimeOut returns "timeout".
LEMMA TimeoutStep ==
  ASSUME ReadsInv, [Rd!Next]_(Rd!vars), NEW t \in Readers, got[t] = NoTable, got'[t] = "timeout"
  PROVE  LET k == table[t]
         IN ~Rd!Ready(k) \/ tburst = k \/ t \in missed \/ \E i \in 1 .. Len(posted) : posted[i] = k
<1>0. t \in Rd!Tasks /\ DOMAIN got = Rd!Tasks /\ NoTable # "timeout"
  BY TaskSets DEF ReadsInv, TasksOK
<1>1. ASSUME NEW u \in Rd!Tasks, NEW what, got' = [got EXCEPT ![u] = what]
      PROVE  u = t /\ what = "timeout"
  BY <1>0, <1>1
<1>2. got' # got
  BY <1>0
<1>3. \E u \in Readers \cup Exporters : Rd!Read(u) \/ Rd!Export(u)
  BY <1>2 DEF Rd!Next, Rd!vars, Rd!tasks, Rd!Bridge, Rd!Answer, Rd!End, Rd!HubDrops,
     Rd!HubReturns, Rd!RunPosted, Rd!Reset, Rd!FetchClears, Rd!Continue, Rd!Prime,
     Rd!GetButtons, Rd!AwaitButtons, Rd!ButtonsCame, Rd!GetMap, Rd!GetMacros
<1>4. ASSUME NEW u \in Readers \cup Exporters, Rd!Read(u) \/ Rd!Export(u), ~Rd!TimeOut(u)
      PROVE  FALSE
  <2>1. u \in Rd!Tasks
    BY TaskSets
  <2>2. PICK what : Rd!Returns(u, what) /\ what # "timeout"
    BY <1>2, <1>4 DEF Rd!Read, Rd!Export, Rd!Look, Rd!RegisterWaiter, Rd!KickRead, Rd!LookAgain,
       Rd!ExportClears, Rd!ExportLooks, Rd!ExportNext, Rd!ExportKicks, Rd!ExportGoesOn, Rd!Found
  <2> QED
    BY <1>1, <2>1, <2>2 DEF Rd!Returns
<1>5. PICK u \in Readers \cup Exporters : Rd!TimeOut(u)
  BY <1>3, <1>4
<1>6. u = t /\ at[t] = "wait" /\ t \notin woken
  BY <1>1, <1>5, TaskSets DEF Rd!TimeOut, Rd!Returns
<1> QED
  BY <1>6 DEF ReadsInv, Announced, Told, Steps

\* A read of the facade times out only while its table is not there or its
\* arrival has yet to be told, or when it came before the read had registered.
THEOREM TimeoutsAreHonest == Rd!Spec => TimeoutIsHonest
<1>1. ReadsInv /\ [Rd!Next]_(Rd!vars) =>
        [\A t \in Readers : got[t] = NoTable /\ got'[t] = "timeout" =>
           LET k == table[t]
           IN ~Rd!Ready(k) \/ tburst = k \/ t \in missed
              \/ \E i \in 1..Len(posted) : posted[i] = k]_(Rd!vars)
  BY TimeoutStep
<1> QED
  BY <1>1, ReadsInvariant, PTL DEF Rd!Spec, TimeoutIsHonest, Rd!TimeoutIsHonest
=============================================================================
