-------------------------- MODULE DeviceSyncProofs --------------------------
(***************************************************************************)
(* Proofs about DeviceSync and ActivitySync, the two syncs of the editor,  *)
(* in the module that takes them both.                                     *)
(*                                                                         *)
(* Devices, for any number of command ids, edits, syncs and troubles, and  *)
(* any content at first: what a command sends is changed by its user       *)
(* alone, new commands leave the order on the screen as it was, and a sync *)
(* that reports success made the changes of the user and no other.  The    *)
(* inductive invariant DInv has three parts.  Shape: the types, and that   *)
(* the plan is made of the steps the editor's changes call for, each once. *)
(* Places: what the lists of the cache and the claims of the two writers   *)
(* have to do with the hub.  Course: in the middle of a sync the hub is    *)
(* the hub as it was read, with the steps made that are no longer in the   *)
(* plan.                                                                   *)
(*                                                                         *)
(* Activities, for any contents, ids, edits, syncs and troubles: no        *)
(* favorite that a sync was to keep is lost.  The inductive invariant AInv *)
(* has three parts too.  ActivityOK: ids and buttons in range, and a read  *)
(* that tells favorites apart.  CourseOK: the steps left name what they    *)
(* were planned for by the ids of the baseline, those that destroy nothing *)
(* come last, and the writes left are those of one step.  KeptOK: where a  *)
(* favorite to keep is first found is no place that a write to come will   *)
(* strike, is the place that was read, and is not, in the baseline, the    *)
(* place of something else.                                                *)
(***************************************************************************)
EXTENDS MCEditorSync, SequenceTheorems, FiniteSetTheorems, WellFoundedInduction, TLAPS

-----------------------------------------------------------------------------
(* Natural numbers.  Induction is stated over a set of numbers, not over a  *)
(* predicate.                                                               *)

\* A set of natural numbers has a least one, ...
LEMMA LeastOf ==
  ASSUME NEW S \in SUBSET Nat, S # {}
  PROVE  \E n \in S : \A m \in S : n <= m
<1> DEFINE R == OpToRel(<, Nat)
<1>1. IsWellFoundedOn(R, Nat)
  BY NatLessThanWellFounded
<1>2. \A a, b \in Nat : << a, b >> \in R <=> a < b
  BY DEF OpToRel
<1> HIDE DEF R
<1>3. \E n \in S : \A m \in S : ~ (<< m, n >> \in R)
  BY <1>1, WFMin
<1>4. \A n, m \in S : n \in Nat /\ m \in Nat /\ (n <= m <=> ~ (m < n))
  OBVIOUS
<1> QED
  BY <1>2, <1>3, <1>4, Zenon

\* ... and below a bound a greatest.
LEMMA GreatestOf ==
  ASSUME NEW N \in Nat, NEW S \in SUBSET (0 .. N), S # {}
  PROVE  \E n \in S : \A m \in S : n >= m
<1> DEFINE T == {k \in 0 .. N : N - k \in S}
<1>1. PICK s \in S : s \in 0 .. N
  OBVIOUS
<1>2. N - s \in T
  <2>1. N - (N - s) = s /\ N - s \in 0 .. N
    BY <1>1
  <2> QED
    BY <1>1, <2>1
<1>3. T \in SUBSET Nat /\ T # {}
  BY <1>2
<1>4. \A k \in T : k \in 0 .. N /\ N - k \in S
  OBVIOUS
<1>5. \A m \in S : m \in 0 .. N /\ N - m \in T
  <2> SUFFICES ASSUME NEW m \in S PROVE m \in 0 .. N /\ N - m \in T
    OBVIOUS
  <2>1. m \in 0 .. N /\ N - (N - m) = m /\ N - m \in 0 .. N
    OBVIOUS
  <2> QED
    BY <2>1
<1> HIDE DEF T
<1>6. PICK k \in T : \A m \in T : k <= m
  BY <1>3, LeastOf
<1>7. N - k \in S /\ k \in 0 .. N
  BY <1>4, <1>6
<1>8. ASSUME NEW m \in S PROVE N - k >= m
  <2>1. m \in 0 .. N /\ k <= N - m
    BY <1>5, <1>6
  <2> QED
    BY <1>7, <2>1
<1> QED
  BY <1>7, <1>8

\* What holds of 0, and of n when of n - 1, holds up to a bound.
LEMMA InductUpTo ==
  ASSUME NEW N \in Nat, NEW S \in SUBSET (0 .. N), 0 \in S,
         \A n \in 1 .. N : n - 1 \in S => n \in S
  PROVE  S = 0 .. N
<1> SUFFICES ASSUME S # 0 .. N PROVE FALSE
  OBVIOUS
<1> DEFINE T == (0 .. N) \ S
<1>0. S \subseteq 0 .. N
  OBVIOUS
<1>1. T \in SUBSET Nat /\ T # {}
  <2>1. \E x \in 0 .. N : x \notin S
    BY <1>0, Zenon
  <2> QED
    BY <2>1
<1> HIDE DEF T
<1>2. PICK n \in T : \A m \in T : n <= m
  BY <1>1, LeastOf
<1>3. n \in 1 .. N /\ n - 1 \in 0 .. N /\ ~(n <= n - 1)
  BY DEF T
<1>4. n - 1 \in S
  BY <1>2, <1>3 DEF T
<1> QED
  BY <1>3, <1>4 DEF T

-----------------------------------------------------------------------------
(* The steps the editor's changes call for.                                 *)

\* Commands and fields by what became of them since the baseline was loaded.
gone    == DOMAIN baseline.names \ DOMAIN edited.cmds
new     == DOMAIN edited.cmds \ DOMAIN baseline.names
both    == DOMAIN edited.cmds \cap DOMAIN baseline.names
mine    == {i \in both : edited.cmds[i].is = "mine"}
named   == {i \in both \ mine : edited.cmds[i].name # baseline.names[i]}
changed == {f \in Fields : edited.fields[f] # baseline.fields[f]}

StepOf(k, i)  == [do |-> k, at |-> i]
StepsOf(k, S) == {StepOf(k, i) : i \in S}
Steps ==
  StepsOf("add", new) \cup StepsOf("payload", mine) \cup StepsOf("fetch", named)
  \cup StepsOf("field", changed) \cup StepsOf("delete", gone)

\* The sequence s has the elements of S, each once.
Lists(s, S) ==
  s \in Seq(S) /\ Range(s) = S /\ \A m, n \in DOMAIN s : s[m] = s[n] => m = n

-----------------------------------------------------------------------------
(* The inductive invariant: Shape.                                          *)

\* Nothing of this kind went wrong.
Free(S) == odd \cap S = {}

Makers  == {"hub", "user", "service", "other", "cut"}
CmdRec  == [name : Nat, data : [by : Makers, of : Ids]]
EditRec == [name : Nat, is : {"same", "mine", "new"}]
Over(R, f) == DOMAIN f \subseteq Ids /\ f \in [DOMAIN f -> R]
IsDevice(h) == /\ DOMAIN h = {"cmds", "place", "fields"} /\ Over(CmdRec, h.cmds)
               /\ Over(Nat \ {0}, h.place) /\ h.fields \in [Fields -> Nat]

HubOK ==
  /\ IsDevice(hub) /\ IsDevice(before)
  /\ DOMAIN hub.place \subseteq DOMAIN hub.cmds

CacheOK ==
  /\ DOMAIN cache = {"listed", "names", "place", "head"} /\ cache.listed \in BOOLEAN
  /\ Over(Nat, cache.names) /\ Over(Nat, cache.place) /\ cache.head \in [HeadFields -> Nat]

\* The working copy differs from the baseline by what the editor can do.
EditorOK ==
  /\ events \in BOOLEAN /\ syncs \in Nat
  /\ DOMAIN edited = {"cmds", "fields"} /\ DOMAIN baseline = {"names", "fields"}
  /\ Over(Nat, baseline.names) /\ baseline.fields \in [Fields -> Nat]
  /\ Over(EditRec, edited.cmds) /\ edited.fields \in [Fields -> Nat]
  /\ \A i \in DOMAIN edited.cmds : edited.cmds[i].is = "new" <=> i \in new
  /\ \A i \in both : edited.cmds[i].name \in {baseline.names[i], 1}
  /\ \A f \in Fields : edited.fields[f] \in {baseline.fields[f], 1}
  /\ IF events THEN new = {} ELSE gone = {}
  /\ both \subseteq DOMAIN hub.cmds

\* A command on its way: claimed or saved under its id, or none.
Adder ==
  [at : {"idle", "reading", "claimed", "saved", "done"}, id : 0 .. MaxId, loose : BOOLEAN]
AddingOK ==
  /\ adding \in [Writers -> Adder]
  /\ \A w \in Writers : IF adding[w].at \in {"claimed", "saved"} THEN adding[w].id # 0
                        ELSE adding[w].id = 0 /\ ~adding[w].loose
  /\ adding["sync"].at \in {"idle", "claimed", "saved"}
  /\ events \/ "foreign" \in odd => adding["service"].at = "idle"

\* The plan is made of the steps called for, each once; all of them are still
\* there until the first one runs.
PlanOK ==
  /\ plan \in Seq(Steps)
  /\ \A m, n \in DOMAIN plan : plan[m] = plan[n] => m = n
  /\ plan # << >> => Syncing
  /\ status \in {"clearing", "reading"} => plan # << >> /\ Range(plan) = Steps
  /\ status \in {"editing", "clearing", "reading", "running", "success", "failed"}
  /\ Syncing => Steps # {}
  /\ syncs = 0 => status = "editing"
  /\ adding["sync"].at # "idle" =>
       status = "running" /\ plan # << >> /\ Head(plan) = StepOf("add", adding["sync"].id)
  /\ blob # << >> => status = "running" /\ plan # << >> /\ Head(plan).do = "fetch"
  /\ blob = << >> \/ \E d \in CmdRec : blob = <<d.data>>

-----------------------------------------------------------------------------
(* The inductive invariant: Places.                                         *)

\* The cache lists what is on the hub, and all of it unless others interfere.
ListsOK ==
  ~events => /\ DOMAIN cache.names \subseteq DOMAIN hub.cmds
             /\ DOMAIN cache.place \subseteq DOMAIN hub.cmds
             /\ DOMAIN before.place \subseteq DOMAIN hub.cmds
             /\ \A w \in Writers : adding[w].at = "saved" => adding[w].id \in DOMAIN hub.cmds
             /\ cache.listed /\ Free({"unheard"}) =>
                   \/ DOMAIN cache.names = DOMAIN hub.cmds
                   \/ "foreign" \in odd /\ status \in {"editing", "clearing", "success"}

\* A claimed id is free on the hub, and not claimed twice.
ClaimsOK ==
  /\ Free({"blind", "twin", "unheard"}) =>
       \A w \in Writers : adding[w].at = "claimed" => adding[w].id \notin DOMAIN hub.cmds
  /\ Free({"twin"}) => ~(\A w \in Writers : adding[w].at = "claimed" /\ adding[w].id = adding["sync"].id)

\* A command on its way had no place; the cache knows the places there were.
PlacesOK ==
  /\ Free({"blind", "unheard"}) =>
       \A w \in Writers : adding[w].at \in {"claimed", "saved"} => adding[w].id \notin DOMAIN before.place
  /\ ~events /\ cache.listed /\ Free({"blind", "unheard"}) =>
      \A j \in DOMAIN before.place : /\ j \in DOMAIN hub.place /\ j \in DOMAIN cache.place
                                     /\ cache.place[j] = hub.place[j]
  /\ syncs = 0 /\ adding["service"].at = "idle" => hub.place = before.place

-----------------------------------------------------------------------------
(* The inductive invariant: Course.                                         *)

\* The payload that was read back is the one on the hub.
BlobOK == blob # << >> /\ Free({"cut", "blind", "twin", "unheard"}) =>
   LET i == Head(plan).at IN i \in DOMAIN hub.cmds /\ blob = <<hub.cmds[i].data>>

\* A step that is still to be made: a command that is saved counts as made.
Pending(k, i) ==
  StepOf(k, i) \in Range(plan)
  /\ ~(k = "add" /\ adding["sync"].at = "saved" /\ adding["sync"].id = i)

\* No trouble that excuses a success from being complete.
Clean == Free({"deaf", "cut", "blind", "twin", "unheard"})

\* With no step called for, the hub is the hub as it was read.
Rest ==
  status \in {"editing", "failed"} /\ Clean /\ Steps = {} =>
    hub.cmds = before.cmds /\ hub.fields = before.fields

\* The cached bytes of the head are those of the hub.
HeadOK == status \in {"reading", "running"} /\ Free({"deaf"}) => cache.head = HeadOf(hub)

\* In the course of a sync the hub is the hub as it was read, with the steps
\* made that are no longer pending.
FieldsOK == status \in {"running", "success"} /\ Clean =>
  \A f \in Fields :
    hub.fields[f] = IF f \in changed /\ ~Pending("field", f) THEN edited.fields[f]
                    ELSE before.fields[f]
CmdsOK == status \in {"running", "success"} /\ Clean =>
  /\ DOMAIN hub.cmds = (DOMAIN before.cmds \ {i \in gone : ~Pending("delete", i)})
                       \cup {i \in new : ~Pending("add", i)}
  /\ \A i \in DOMAIN hub.cmds :
      hub.cmds[i] =
        IF (i \in new /\ ~Pending("add", i)) \/ (i \in mine /\ ~Pending("payload", i))
          THEN Record(edited.cmds[i].name, Payload("user", i))
        ELSE IF i \in named /\ ~Pending("fetch", i)
          THEN Record(edited.cmds[i].name, before.cmds[i].data)
        ELSE before.cmds[i]

-----------------------------------------------------------------------------

Shape  == HubOK /\ CacheOK /\ EditorOK /\ AddingOK /\ PlanOK
Places == ListsOK /\ ClaimsOK /\ PlacesOK /\ BrowseKept
Course == BlobOK /\ Rest /\ HeadOK /\ FieldsOK /\ CmdsOK
DInv   == Bounded /\ Shape /\ Places /\ Course

-----------------------------------------------------------------------------
(* The plan is the steps called for.                                        *)

\* Does makes one step of the kind k for each id of a set.
LEMMA Enumerates ==
  ASSUME NEW N \in Nat, NEW S \in SUBSET (1 .. N), NEW k
  PROVE  Lists(Does(k, S), StepsOf(k, S))
<1> DEFINE below(i) == {j \in S : j <= i}
           rank == [i \in S |-> Cardinality(below(i))]
           c == Cardinality(S)
<1>1. IsFiniteSet(S) /\ c \in Nat
  <2>1. IsFiniteSet(1 .. N)
    BY FS_Interval
  <2>2. IsFiniteSet(S)
    BY <2>1, FS_Subset
  <2> QED
    BY <2>2, FS_CardinalityType
<1>2. ASSUME NEW i \in S
      PROVE  IsFiniteSet(below(i)) /\ Cardinality(below(i)) \in 1 .. c
  <2>1. below(i) \in SUBSET S /\ below(i) # {}
    BY S \subseteq Nat
  <2>2. IsFiniteSet(below(i)) /\ Cardinality(below(i)) <= c /\ Cardinality(below(i)) \in Nat
    BY <1>1, <2>1, FS_Subset, FS_CardinalityType
  <2>3. Cardinality(below(i)) # 0
    BY <2>1, <2>2, FS_EmptySet
  <2> QED
    BY <1>1, <2>2, <2>3
<1>3. ASSUME NEW i \in S, NEW j \in S, i < j
      PROVE  Cardinality(below(i)) < Cardinality(below(j))
  <2>0. i \in Nat /\ j \in Nat /\ \A x \in S : x \in Nat
    OBVIOUS
  <2>1. below(i) \in SUBSET below(j) /\ j \in below(j) /\ j \notin below(i)
    <3>1. \A x \in S : x <= i => x <= j
      BY <1>3, <2>0
    <3>2. j <= j /\ ~(j <= i)
      BY <1>3, <2>0
    <3> QED
      BY <3>1, <3>2
  <2>2. IsFiniteSet(below(j)) /\ Cardinality(below(i)) \in Nat /\ Cardinality(below(j)) \in Nat
    BY <1>1, <1>2
  <2> HIDE DEF below
  <2>3. Cardinality(below(i)) <= Cardinality(below(j))
    BY <2>1, <2>2, FS_Subset
  <2>4. Cardinality(below(i)) # Cardinality(below(j))
    BY <2>1, <2>2, FS_Subset
  <2> QED
    BY <2>2, <2>3, <2>4
<1>4. rank \in [S -> 1 .. c]
  BY <1>2
<1> HIDE DEF below
<1>5. \A i, j \in S : rank[i] = rank[j] => i = j
  <2> SUFFICES ASSUME NEW i \in S, NEW j \in S, i # j PROVE rank[i] # rank[j]
    OBVIOUS
  <2>1. i < j \/ j < i
    OBVIOUS
  <2>2. rank[i] \in Nat /\ rank[j] \in Nat
    BY <1>1, <1>4
  <2>3. rank[i] < rank[j] \/ rank[j] < rank[i]
    BY <1>3, <2>1
  <2> QED
    BY <2>2, <2>3
<1>6. \A n \in 1 .. c : \E i \in S : rank[i] = n
  <2>1. rank \in Injection(S, 1 .. c)
    BY <1>4, <1>5 DEF Injection, IsInjective
  <2>2. IsFiniteSet(1 .. c) /\ Cardinality(1 .. c) = c
    BY <1>1, FS_Interval
  <2>3. rank \in Surjection(S, 1 .. c)
    BY <2>1, <2>2, FS_Injection
  <2> QED
    BY <2>3 DEF Surjection
<1> DEFINE at(n) == CHOOSE i \in S : Cardinality(below(i)) = n
<1>7. \A n \in 1 .. c : at(n) \in S /\ rank[at(n)] = n
  <2> SUFFICES ASSUME NEW n \in 1 .. c PROVE at(n) \in S /\ rank[at(n)] = n
    OBVIOUS
  <2>1. \E i \in S : Cardinality(below(i)) = n
    BY <1>6
  <2>2. at(n) \in S /\ Cardinality(below(at(n))) = n
    BY <2>1
  <2> QED
    BY <2>2
<1>8. \A i \in S : rank[i] \in 1 .. c /\ at(rank[i]) = i
  BY <1>4, <1>5, <1>7
<1> DEFINE d == [n \in 1 .. c |-> StepOf(k, at(n))]
<1>9. Does(k, S) = d
  BY DEF Does, StepOf, below
<1> HIDE DEF rank, at, c
<1>10. DOMAIN d = 1 .. c /\ \A n \in 1 .. c : d[n] = StepOf(k, at(n)) /\ d[n] \in StepsOf(k, S)
  BY <1>7 DEF StepsOf
<1>11. \A m, n \in 1 .. c : d[m] = d[n] => m = n
  <2> SUFFICES ASSUME NEW m \in 1 .. c, NEW n \in 1 .. c, d[m] = d[n] PROVE m = n
    OBVIOUS
  <2>1. at(m) = at(n)
    BY <1>10 DEF StepOf
  <2> QED
    BY <1>7, <2>1
<1>12. d \in Seq(StepsOf(k, S))
  BY <1>1, <1>10, SeqDef
<1>13. StepsOf(k, S) \subseteq Range(d)
  BY <1>8, <1>10 DEF StepsOf, Range
<1>14. Range(d) \subseteq StepsOf(k, S)
  BY <1>10 DEF Range
<1> HIDE DEF d
<1> QED
  BY <1>9, <1>10, <1>11, <1>12, <1>13, <1>14 DEF Lists

\* Lists of different steps, one after the other.
LEMMA JoinedLists ==
  ASSUME NEW S, NEW T, NEW s, NEW t, Lists(s, S), Lists(t, T), S \cap T = {}
  PROVE  Lists(s \o t, S \cup T)
<1> DEFINE U == S \cup T
           u == s \o t
<1>1. s \in Seq(U) /\ t \in Seq(U) /\ s \in Seq(S) /\ t \in Seq(T)
  BY SeqMonotonic DEF Lists
<1>2. /\ DOMAIN s = 1 .. Len(s) /\ DOMAIN t = 1 .. Len(t) /\ Len(s) \in Nat /\ Len(t) \in Nat
      /\ \A m \in 1 .. Len(s) : s[m] \in S
      /\ \A m \in 1 .. Len(t) : t[m] \in T
  BY <1>1, LenProperties
<1>3. /\ u \in Seq(U) /\ DOMAIN u = 1 .. Len(s) + Len(t)
      /\ \A m \in 1 .. Len(s) + Len(t) : u[m] = IF m <= Len(s) THEN s[m] ELSE t[m - Len(s)]
  BY <1>1, ConcatProperties, LenProperties
<1> HIDE DEF u
<1>4. ASSUME NEW m \in DOMAIN u
      PROVE  \/ m \in DOMAIN s /\ u[m] = s[m] /\ u[m] \in S
             \/ m - Len(s) \in DOMAIN t /\ u[m] = t[m - Len(s)] /\ u[m] \in T /\ m \in Int
  BY <1>2, <1>3
<1>5. \A m \in DOMAIN s : m \in DOMAIN u /\ u[m] = s[m]
  BY <1>2, <1>3
<1>6. \A m \in DOMAIN t : m + Len(s) \in DOMAIN u /\ u[m + Len(s)] = t[m]
  <2> SUFFICES ASSUME NEW m \in DOMAIN t
               PROVE m + Len(s) \in DOMAIN u /\ u[m + Len(s)] = t[m]
    OBVIOUS
  <2>1. m + Len(s) \in 1 .. Len(s) + Len(t) /\ ~(m + Len(s) <= Len(s)) /\ m + Len(s) - Len(s) = m
    BY <1>2
  <2> QED
    BY <1>3, <2>1
<1>7. Range(u) = U
  <2>1. Range(u) \subseteq U
    BY <1>4 DEF Range
  <2>2. S \subseteq Range(u)
    BY <1>5 DEF Range, Lists
  <2>3. T \subseteq Range(u)
    BY <1>6 DEF Range, Lists
  <2> QED
    BY <2>1, <2>2, <2>3
<1>8. ASSUME NEW m \in DOMAIN u, NEW n \in DOMAIN u, u[m] = u[n] PROVE m = n
  <2>1. \/ m \in DOMAIN s /\ n \in DOMAIN s /\ s[m] = s[n]
        \/ /\ m - Len(s) \in DOMAIN t /\ n - Len(s) \in DOMAIN t /\ m \in Int /\ n \in Int
           /\ t[m - Len(s)] = t[n - Len(s)]
    BY <1>4, <1>8
  <2>2. m = n \/ (m - Len(s) = n - Len(s) /\ m \in Int /\ n \in Int)
    BY <2>1 DEF Lists
  <2> QED
    BY <1>2, <2>2
<1> QED
  BY <1>3, <1>7, <1>8 DEF Lists, u

\* The step of a field, if it changed.
LEMMA OneOrNone ==
  ASSUME NEW k, NEW i, NEW S, S = {} \/ S = {i}
  PROVE  Lists(IF S = {} THEN << >> ELSE <<[do |-> k, at |-> i]>>, StepsOf(k, S))
<1>1. CASE S = {}
  BY <1>1 DEF Lists, StepsOf, Range
<1>2. CASE S = {i}
  <2>1. StepsOf(k, S) = {StepOf(k, i)} /\ S # {}
    BY <1>2 DEF StepsOf
  <2> DEFINE e == StepOf(k, i)
             s == <<e>>
  <2>2. DOMAIN s = {1} /\ s[1] = e /\ s \in Seq({e})
    OBVIOUS
  <2> HIDE DEF s, e
  <2>3. Lists(s, {e})
    BY <2>2 DEF Lists, Range
  <2> QED
    BY <2>1, <2>3 DEF s, e, StepOf
<1> QED
  BY <1>1, <1>2

\* A plan without its head.
LEMMA TailLists ==
  ASSUME NEW S, NEW s \in Seq(S), s # << >>, \A m, n \in DOMAIN s : s[m] = s[n] => m = n
  PROVE  /\ Tail(s) \in Seq(S) /\ Head(s) \in S /\ Head(s) \in Range(s)
         /\ Range(Tail(s)) = Range(s) \ {Head(s)}
         /\ \A m, n \in DOMAIN Tail(s) : Tail(s)[m] = Tail(s)[n] => m = n
<1> DEFINE t == Tail(s)
           l == Len(t)
<1>1. /\ t \in Seq(S) /\ Head(s) = s[1] /\ Head(s) \in S /\ l \in Nat /\ Len(s) = l + 1
      /\ \A m \in 1 .. l : t[m] = s[m + 1]
      /\ DOMAIN s = 1 .. l + 1 /\ DOMAIN t = 1 .. l
  BY HeadTailProperties, LenProperties, EmptySeq
<1> HIDE DEF t, l
<1>2. \A m \in DOMAIN t : m \in Nat /\ m + 1 \in DOMAIN s /\ m + 1 # 1 /\ t[m] = s[m + 1]
  BY <1>1
<1>3. 1 \in DOMAIN s /\ \A m \in DOMAIN s \ {1} : m - 1 \in DOMAIN t /\ t[m - 1] = s[m]
  <2> SUFFICES ASSUME NEW m \in DOMAIN s \ {1} PROVE m - 1 \in DOMAIN t /\ t[m - 1] = s[m]
    BY <1>1
  <2>1. m - 1 \in 1 .. l /\ m - 1 + 1 = m
    BY <1>1
  <2> QED
    BY <1>1, <2>1
<1>4. Range(t) = Range(s) \ {Head(s)}
  <2>1. ASSUME NEW m \in DOMAIN t PROVE t[m] \in Range(s) \ {Head(s)}
    <3>1. m + 1 \in DOMAIN s /\ t[m] = s[m + 1] /\ s[m + 1] # s[1]
      BY <1>2, <1>3
    <3> QED
      BY <1>1, <3>1 DEF Range
  <2>2. ASSUME NEW x \in Range(s) \ {Head(s)} PROVE x \in Range(t)
    <3>1. PICK m \in DOMAIN s : x = s[m]
      BY DEF Range
    <3>2. m \in DOMAIN s \ {1}
      BY <1>1, <3>1
    <3> QED
      BY <1>3, <3>1, <3>2 DEF Range
  <2> QED
    BY <2>1, <2>2 DEF Range
<1>5. \A m, n \in DOMAIN t : t[m] = t[n] => m = n
  <2> SUFFICES ASSUME NEW m \in DOMAIN t, NEW n \in DOMAIN t, t[m] = t[n] PROVE m = n
    OBVIOUS
  <2>1. m \in Nat /\ n \in Nat /\ m + 1 = n + 1
    BY <1>2
  <2> QED
    BY <2>1
<1>6. Head(s) \in Range(s)
  BY <1>1, <1>3 DEF Range
<1> QED
  BY <1>1, <1>4, <1>5, <1>6 DEF t

\* build_device_sync_plan plans the steps called for, each once.
LEMMA PlanLists ==
  ASSUME MaxId \in Nat, DOMAIN baseline.names \subseteq Ids, DOMAIN edited.cmds \subseteq Ids
  PROVE  Lists(Plan(baseline, edited), Steps)
<1> DEFINE F(f) == IF baseline.fields[f] = edited.fields[f] THEN << >> ELSE <<[do |-> "field", at |-> f]>>
           C(f) == {g \in {f} : edited.fields[f] # baseline.fields[f]}
           A == StepsOf("add", new)
           B == StepsOf("payload", mine)
           D == StepsOf("fetch", named)
           G == StepsOf("delete", gone)
           H(f) == StepsOf("field", C(f))
<1>1. Plan(baseline, edited) =
        Does("add", new) \o Does("payload", mine) \o Does("fetch", named)
        \o F("keys") \o F("name") \o F("ip") \o Does("delete", gone)
  BY DEF Plan, new, mine, named, gone, both
<1>2. new \in SUBSET (1 .. MaxId) /\ mine \in SUBSET (1 .. MaxId) /\ named \in SUBSET (1 .. MaxId)
      /\ gone \in SUBSET (1 .. MaxId)
  BY DEF new, mine, named, gone, both, Ids
<1>3. Lists(Does("add", new), A) /\ Lists(Does("payload", mine), B)
      /\ Lists(Does("fetch", named), D) /\ Lists(Does("delete", gone), G)
  BY <1>2, Enumerates
<1>4. ASSUME NEW f PROVE Lists(F(f), H(f))
  <2>1. C(f) = {} \/ C(f) = {f}
    OBVIOUS
  <2>2. F(f) = IF C(f) = {} THEN << >> ELSE <<[do |-> "field", at |-> f]>>
    OBVIOUS
  <2> HIDE DEF F, C
  <2> QED
    BY <2>1, <2>2, OneOrNone
<1>5. /\ A \cap B = {} /\ (A \cup B) \cap D = {} /\ (A \cup B \cup D) \cap H("keys") = {}
      /\ (A \cup B \cup D \cup H("keys")) \cap H("name") = {}
      /\ (A \cup B \cup D \cup H("keys") \cup H("name")) \cap H("ip") = {}
      /\ (A \cup B \cup D \cup H("keys") \cup H("name") \cup H("ip")) \cap G = {}
  BY DEF StepsOf, StepOf
<1>6. Steps = A \cup B \cup D \cup H("keys") \cup H("name") \cup H("ip") \cup G
  <2>1. StepsOf("field", changed) = H("keys") \cup H("name") \cup H("ip")
    BY DEF StepsOf, changed, Fields, HeadFields
  <2> HIDE DEF A, B, D, G, H
  <2> QED
    BY <2>1 DEF Steps, A, B, D, G
<1> HIDE DEF A, B, D, G, H, F
<1>7. Lists(Does("add", new) \o Does("payload", mine), A \cup B)
  BY <1>3, <1>5, JoinedLists
<1>8. Lists(Does("add", new) \o Does("payload", mine) \o Does("fetch", named), A \cup B \cup D)
  BY <1>3, <1>5, <1>7, JoinedLists
<1>9. Lists(Does("add", new) \o Does("payload", mine) \o Does("fetch", named) \o F("keys"),
            A \cup B \cup D \cup H("keys"))
  BY <1>4, <1>5, <1>8, JoinedLists
<1>10. Lists(Does("add", new) \o Does("payload", mine) \o Does("fetch", named) \o F("keys")
              \o F("name"), A \cup B \cup D \cup H("keys") \cup H("name"))
  BY <1>4, <1>5, <1>9, JoinedLists
<1>11. Lists(Does("add", new) \o Does("payload", mine) \o Does("fetch", named) \o F("keys")
              \o F("name") \o F("ip"), A \cup B \cup D \cup H("keys") \cup H("name") \cup H("ip"))
  BY <1>4, <1>5, <1>10, JoinedLists
<1>12. Lists(Does("add", new) \o Does("payload", mine) \o Does("fetch", named) \o F("keys")
              \o F("name") \o F("ip") \o Does("delete", gone),
             A \cup B \cup D \cup H("keys") \cup H("name") \cup H("ip") \cup G)
  BY <1>3, <1>5, <1>11, JoinedLists
<1> QED
  BY <1>1, <1>6, <1>12

-----------------------------------------------------------------------------
(* Functions, and what a read of the hub makes of them.                     *)

LEMMA UpdAt ==
  ASSUME NEW f, NEW x, NEW y
  PROVE  /\ DOMAIN Upd(f, x, y) = DOMAIN f \cup {x} /\ Upd(f, x, y)[x] = y
         /\ \A z \in DOMAIN f \ {x} : Upd(f, x, y)[z] = f[z]
BY DEF Upd

LEMMA UpdOver ==
  ASSUME NEW R, NEW f, Over(R, f), NEW x \in Ids, NEW y \in R
  PROVE  Over(R, Upd(f, x, y))
<1> DEFINE g == Upd(f, x, y)
<1>1. DOMAIN g = DOMAIN f \cup {x} /\ \A z \in DOMAIN g : g[z] = IF z = x THEN y ELSE f[z]
  BY DEF Upd
<1>2. g = [z \in DOMAIN g |-> g[z]]
  BY DEF Upd
<1> HIDE DEF g
<1>3. \A z \in DOMAIN g : g[z] \in R
  BY <1>1 DEF Over
<1>4. g \in [DOMAIN g -> R]
  BY <1>2, <1>3
<1> QED
  BY <1>1, <1>4 DEF Over, g

LEMMA RestrictOver ==
  ASSUME NEW R, NEW f, Over(R, f), NEW S \in SUBSET DOMAIN f
  PROVE  /\ Over(R, Restrict(f, S)) /\ DOMAIN Restrict(f, S) = S
         /\ \A z \in S : Restrict(f, S)[z] = f[z]
BY DEF Over, Restrict

LEMMA WithoutAt ==
  ASSUME NEW f, NEW x
  PROVE  /\ DOMAIN Without(f, x) = DOMAIN f \ {x}
         /\ \A z \in DOMAIN f \ {x} : Without(f, x)[z] = f[z]
BY DEF Without, Restrict

LEMMA WithoutOver ==
  ASSUME NEW R, NEW f, Over(R, f), NEW x
  PROVE  Over(R, Without(f, x))
BY RestrictOver DEF Without

LEMMA OverFrom ==
  ASSUME NEW R, NEW S \in SUBSET Ids, NEW f, f \in [S -> R]
  PROVE  Over(R, f) /\ DOMAIN f = S
BY DEF Over

ReadOf(c, h, head) ==
  /\ DOMAIN c = {"listed", "names", "place", "head"} /\ c.listed = TRUE /\ c.head = head
  /\ Over(Nat, c.names) /\ Over(Nat, c.place)
  /\ DOMAIN c.names = DOMAIN h.cmds /\ DOMAIN c.place = DOMAIN h.cmds
  /\ \A i \in DOMAIN h.place : c.place[i] = h.place[i]

LEMMA ListedOver ==
  ASSUME NEW h, IsDevice(h), DOMAIN h.place \subseteq DOMAIN h.cmds,
         NEW head \in [HeadFields -> Nat]
  PROVE  ReadOf(Listed(h, head), h, head)
<1>1. DOMAIN h.cmds \subseteq Ids /\ h.cmds \in [DOMAIN h.cmds -> CmdRec]
      /\ h.place \in [DOMAIN h.place -> Nat \ {0}]
  BY DEF IsDevice, Over
<1> DEFINE names == [i \in DOMAIN h.cmds |-> h.cmds[i].name]
           place == [i \in DOMAIN h.cmds |-> Place(h.place, i)]
<1>2. Listed(h, head) = [listed |-> TRUE, names |-> names, place |-> place, head |-> head]
  BY DEF Listed, NamesOf
<1>3. names \in [DOMAIN h.cmds -> Nat]
  BY <1>1 DEF CmdRec
<1>4. place \in [DOMAIN h.cmds -> Nat] /\ \A i \in DOMAIN h.place : place[i] = h.place[i]
  BY <1>1 DEF Place
<1> HIDE DEF names, place
<1>5. Over(Nat, names) /\ Over(Nat, place) /\ DOMAIN names = DOMAIN h.cmds
      /\ DOMAIN place = DOMAIN h.cmds
  BY <1>1, <1>3, <1>4 DEF Over
<1> QED
  BY <1>2, <1>4, <1>5 DEF ReadOf

LEMMA HeadOver ==
  ASSUME NEW h, h.fields \in [Fields -> Nat]
  PROVE  HeadOf(h) \in [HeadFields -> Nat]
BY DEF HeadOf, Fields

LEMMA AsFoundOver ==
  ASSUME HubOK
  PROVE  /\ IsDevice(AsFound(hub)) /\ AsFound(hub).cmds = hub.cmds /\ AsFound(hub).fields = hub.fields
         /\ DOMAIN AsFound(hub).place \subseteq DOMAIN hub.place
         /\ \A i \in DOMAIN AsFound(hub).place :
              /\ AsFound(hub).place[i] = hub.place[i]
              /\ \A w \in Writers : adding[w].id # i
<1> DEFINE S == {i \in DOMAIN hub.place : \A w \in Writers : adding[w].id # i}
           b == AsFound(hub)
<1>1. b = [hub EXCEPT !.place = Restrict(hub.place, S)]
  BY DEF AsFound
<1>2. DOMAIN hub = {"cmds", "place", "fields"} /\ Over(Nat \ {0}, hub.place)
  BY DEF HubOK, IsDevice
<1>3. /\ Over(Nat \ {0}, Restrict(hub.place, S)) /\ DOMAIN Restrict(hub.place, S) = S
      /\ \A i \in S : Restrict(hub.place, S)[i] = hub.place[i]
  BY <1>2, RestrictOver
<1>4. DOMAIN b = DOMAIN hub /\ b.cmds = hub.cmds /\ b.fields = hub.fields
      /\ b.place = Restrict(hub.place, S)
  BY <1>1, <1>2
<1> HIDE DEF b
<1>5. IsDevice(b)
  BY <1>3, <1>4 DEF HubOK, IsDevice
<1> QED
  BY <1>3, <1>4, <1>5 DEF b

-----------------------------------------------------------------------------
(* What a step leaves alone.                                                *)

LEMMA BoundedStays == ASSUME Bounded PROVE Bounded'
BY DEF Bounded, Ids

\* The steps called for depend on baseline and working copy alone.
LEMMA StepsRest ==
  ASSUME baseline' = baseline, edited' = edited
  PROVE  /\ Steps' = Steps /\ gone' = gone /\ new' = new /\ both' = both /\ mine' = mine
         /\ named' = named /\ changed' = changed
BY DEF Steps, gone, new, both, mine, named, changed

LEMMA EditorRests ==
  ASSUME EditorOK, UNCHANGED <<events, baseline, edited>>, syncs' = syncs \/ syncs' = syncs + 1,
         DOMAIN hub.cmds \ gone \subseteq DOMAIN hub'.cmds
  PROVE  EditorOK'
<1>1. /\ events' = events /\ baseline' = baseline /\ edited' = edited
      /\ gone' = gone /\ new' = new /\ both' = both
  BY StepsRest
<1>2. both \subseteq DOMAIN hub'.cmds
  BY DEF EditorOK, both, gone
<1>3. syncs' \in Nat
  BY DEF EditorOK
<1> QED
  BY <1>1, <1>2, <1>3 DEF EditorOK

LEMMA AddingRests ==
  ASSUME AddingOK, adding' = adding, events' = events, "foreign" \in odd' => "foreign" \in odd
  PROVE  AddingOK'
BY DEF AddingOK

SameTurn  == adding'["sync"].at = adding["sync"].at /\ adding'["sync"].id = adding["sync"].id
SameLists == /\ cache'.listed = cache.listed /\ DOMAIN cache'.names = DOMAIN cache.names
             /\ cache'.place = cache.place

LEMMA PlanRests ==
  ASSUME PlanOK, UNCHANGED <<plan, status, blob, syncs, baseline, edited>>,
         SameTurn
  PROVE  PlanOK'
<1>1. Steps' = Steps
  BY StepsRest
<1>2. /\ plan' = plan /\ status' = status /\ blob' = blob /\ syncs' = syncs
      /\ adding'["sync"].at = adding["sync"].at /\ adding'["sync"].id = adding["sync"].id
  BY DEF SameTurn
<1> QED
  BY <1>1, <1>2 DEF PlanOK, Syncing

Turning == status = "running" /\ plan # << >> /\ adding["sync"] = Idle
Goes1   == plan' = Tail(plan) /\ status' = status
Stops1  == plan' = << >> /\ status' = "failed"

\* The head of a plan is one of the steps; ...
LEMMA Turned ==
  ASSUME PlanOK, plan # << >>
  PROVE  /\ Tail(plan) \in Seq(Steps) /\ Head(plan) \in Steps /\ Head(plan) \in Range(plan)
         /\ Range(Tail(plan)) = Range(plan) \ {Head(plan)}
         /\ \A m, n \in DOMAIN Tail(plan) : Tail(plan)[m] = Tail(plan)[n] => m = n
<1>1. plan \in Seq(Steps) /\ \A m, n \in DOMAIN plan : plan[m] = plan[n] => m = n
  BY DEF PlanOK
<1> QED
  BY <1>1, TailLists

\* ... and when it is made, the rest is still a plan.
LEMMA PlanGoes ==
  ASSUME PlanOK, Goes1 \/ Stops1, status = "running", plan # << >>, adding'["sync"].at = "idle",
         blob' = << >>, UNCHANGED <<syncs, baseline, edited>>
  PROVE  PlanOK'
<1>1. Steps' = Steps /\ syncs' = syncs
  BY StepsRest
<1>2. /\ Tail(plan) \in Seq(Steps) /\ << >> \in Seq(Steps)
      /\ \A m, n \in DOMAIN Tail(plan) : Tail(plan)[m] = Tail(plan)[n] => m = n
      /\ DOMAIN << >> = {}
  BY Turned
<1>3. Steps # {} /\ syncs # 0
  BY DEF PlanOK, Syncing
<1>4. CASE Goes1
  BY <1>1, <1>2, <1>3, <1>4 DEF PlanOK, Goes1, Syncing
<1>5. CASE Stops1
  BY <1>1, <1>2, <1>3, <1>5 DEF PlanOK, Stops1, Syncing
<1> QED
  BY <1>4, <1>5

LEMMA ListsRest ==
  ASSUME ListsOK, events' = events, SameLists, DOMAIN hub'.cmds = DOMAIN hub.cmds,
         DOMAIN before'.place \subseteq DOMAIN before.place, odd \subseteq odd',
         \A w \in Writers : adding'[w].at = "saved" =>
                              adding[w].at = "saved" /\ adding'[w].id = adding[w].id,
         status \in {"editing", "clearing", "success"} => status' \in {"editing", "clearing", "success"}
  PROVE  ListsOK'
<1>1. Free({"unheard"})' => Free({"unheard"})
  BY DEF Free
<1>2. "foreign" \in odd => "foreign" \in odd'
  OBVIOUS
<1> QED
  BY <1>1, <1>2 DEF ListsOK, SameLists

LEMMA ClaimsRest ==
  ASSUME ClaimsOK, DOMAIN hub'.cmds \subseteq DOMAIN hub.cmds, odd \subseteq odd' \cup {"deaf", "cut"},
         \A w \in Writers : adding'[w].at = "claimed" =>
                              adding[w].at = "claimed" /\ adding'[w].id = adding[w].id
  PROVE  ClaimsOK'
<1>1. Free({"blind", "twin", "unheard"})' => Free({"blind", "twin", "unheard"})
  BY DEF Free
<1>2. Free({"twin"})' => Free({"twin"})
  BY DEF Free
<1>3. "sync" \in Writers
  BY DEF Writers
<1> QED
  BY <1>1, <1>2, <1>3 DEF ClaimsOK

LEMMA PlacesRest ==
  ASSUME PlacesOK, events' = events, SameLists, odd \subseteq odd' \cup {"deaf", "cut"},
         DOMAIN before'.place \subseteq DOMAIN before.place,
         syncs' = 0 /\ adding'["service"].at = "idle" => hub'.place = before'.place,
         \A j \in DOMAIN before'.place : j \in DOMAIN hub.place =>
            j \in DOMAIN hub'.place /\ hub'.place[j] = hub.place[j],
         \A w \in Writers : adding'[w].at \in {"claimed", "saved"} =>
                              /\ adding[w].at \in {"claimed", "saved"}
                              /\ adding'[w].id = adding[w].id
  PROVE  PlacesOK'
<1>1. Free({"blind", "unheard"})' => Free({"blind", "unheard"})
  BY DEF Free
<1> QED
  BY <1>1 DEF PlacesOK, SameLists

LEMMA BrowseRests ==
  ASSUME BrowseKept, odd \subseteq odd' \cup {"deaf", "cut"},
         DOMAIN before'.place \subseteq DOMAIN before.place,
         \A j \in DOMAIN before'.place : before'.place[j] = before.place[j],
         DOMAIN before'.place \cap DOMAIN hub'.cmds \subseteq DOMAIN hub.cmds,
         \A j \in DOMAIN before'.place \cap DOMAIN hub'.cmds : j \in DOMAIN hub.place =>
            j \in DOMAIN hub'.place /\ hub'.place[j] = hub.place[j]
  PROVE  BrowseKept'
<1>1. odd' \cap {"blind", "unheard"} = {} => odd \cap {"blind", "unheard"} = {}
  OBVIOUS
<1> SUFFICES ASSUME odd' \cap {"blind", "unheard"} = {},
                    NEW i \in DOMAIN before'.place \cap DOMAIN hub'.cmds,
                    NEW j \in DOMAIN before'.place \cap DOMAIN hub'.cmds
             PROVE  /\ i \in DOMAIN hub'.place
                    /\ j \in DOMAIN hub'.place /\ before'.place[i] < before'.place[j]
                         => hub'.place[i] < hub'.place[j]
  BY DEF BrowseKept
<1>2. /\ i \in DOMAIN before.place \cap DOMAIN hub.cmds
      /\ j \in DOMAIN before.place \cap DOMAIN hub.cmds
  OBVIOUS
<1>3. /\ i \in DOMAIN hub.place /\ j \in DOMAIN hub.place
      /\ before.place[i] < before.place[j] => hub.place[i] < hub.place[j]
  BY <1>1, <1>2 DEF BrowseKept
<1> QED
  BY <1>2, <1>3

\* The lists, when no step touches the hub, the cache or who adds.
LEMMA PlacesKept ==
  ASSUME HubOK, PlanOK, Places, UNCHANGED <<events, adding>>, SameLists, odd \subseteq odd',
         syncs' = syncs,
         DOMAIN hub'.cmds = DOMAIN hub.cmds, hub'.place = hub.place, before' = before,
         status \in {"editing", "clearing", "success"} => status' \in {"editing", "clearing", "success"}
  PROVE  Places'
<1>1. ListsOK'
  BY ListsRest DEF Places
<1>2. ClaimsOK'
  BY ClaimsRest DEF Places
<1>3. PlacesOK'
  <2>1. syncs' = 0 /\ adding'["service"].at = "idle" => hub'.place = before'.place
    BY DEF Places, PlacesOK
  <2> QED
    BY <2>1, PlacesRest DEF Places
<1>4. BrowseKept'
  <2>1. DOMAIN hub.place \subseteq DOMAIN hub.cmds
    BY DEF HubOK
  <2> QED
    BY <2>1, BrowseRests DEF Places
<1> QED
  BY <1>1, <1>2, <1>3, <1>4 DEF Places

-----------------------------------------------------------------------------
(* The course of a sync.                                                    *)

LEMMA PendingRests ==
  ASSUME plan' = plan, SameTurn, NEW k, NEW i
  PROVE  Pending(k, i)' <=> Pending(k, i)
BY DEF Pending, SameTurn

LEMMA CourseRests ==
  ASSUME Course, UNCHANGED <<plan, status, blob, baseline, edited, before>>,
         SameTurn, odd \subseteq odd',
         hub'.cmds = hub.cmds, hub'.fields = hub.fields, cache'.head = cache.head
  PROVE  Course'
<1>1. /\ Steps' = Steps /\ gone' = gone /\ new' = new /\ both' = both /\ mine' = mine
      /\ named' = named /\ changed' = changed
  BY StepsRest
<1>2. /\ plan' = plan /\ status' = status /\ blob' = blob /\ edited' = edited /\ before' = before
      /\ \A S : Free(S)' => Free(S)
  BY DEF Free
<1>3. BlobOK'
  BY <1>2 DEF Course, BlobOK
<1>4. Rest'
  BY <1>1, <1>2 DEF Course, Rest, Clean
<1>5. HeadOK'
  <2>1. HeadOf(hub)' = HeadOf(hub)
    BY DEF HeadOf
  <2> QED
    BY <1>2, <2>1 DEF Course, HeadOK
<1>6. \A k, i : Pending(k, i)' <=> Pending(k, i)
  BY PendingRests
<1>7. FieldsOK'
  BY <1>1, <1>2, <1>6 DEF Course, FieldsOK, Clean
<1>8. CmdsOK'
  BY <1>1, <1>2, <1>6 DEF Course, CmdsOK, Clean
<1> QED
  BY <1>3, <1>4, <1>5, <1>7, <1>8 DEF Course

\* A sync that ends owes nothing but Rest.
LEMMA CourseStops ==
  ASSUME PlanOK, Syncing, status' = "failed", blob' = << >>, UNCHANGED <<baseline, edited>>
  PROVE  Course'
<1>1. Steps' = Steps /\ Steps # {}
  BY StepsRest DEF PlanOK
<1> QED
  BY <1>1 DEF Course, BlobOK, Rest, HeadOK, FieldsOK, CmdsOK

\* Nothing is to be done where nothing is changed.
LEMMA NoSteps ==
  Steps = {} <=> new = {} /\ mine = {} /\ named = {} /\ changed = {} /\ gone = {}
<1>1. \A k, S : StepsOf(k, S) = {} <=> S = {}
  BY DEF StepsOf
<1> QED
  BY <1>1 DEF Steps

LEMMA NoStepsThen ==
  (Steps = {})' <=> (new = {} /\ mine = {} /\ named = {} /\ changed = {} /\ gone = {})'
BY NoSteps, PTL

-----------------------------------------------------------------------------
(* The steps that only decide.                                              *)

LEMMA Idles ==
  ASSUME AddingOK, adding["sync"] = Idle
  PROVE  adding["sync"].at = "idle" /\ adding["sync"].id = 0 /\ adding["sync"].loose = FALSE
BY DEF Idle

LEMMA StopsKeep ==
  ASSUME DInv, UNCHANGED <<events, hub, cache, baseline, edited, adding, syncs, before>>,
         status = "running", plan # << >>, adding["sync"] = Idle,
         plan' = << >>, status' = "failed", blob' = << >>,
         odd \subseteq odd', "foreign" \in odd' => "foreign" \in odd
  PROVE  DInv'
<1>1. HubOK' /\ CacheOK'
  BY DEF DInv, Shape, HubOK, CacheOK
<1>2. EditorOK'
  BY EditorRests DEF DInv, Shape
<1>3. AddingOK'
  BY AddingRests DEF DInv, Shape
<1>4. PlanOK'
  BY PlanGoes, Idles DEF DInv, Shape, Stops1
<1>5. Places'
  BY PlacesKept DEF DInv, Shape, SameLists
<1>6. Course'
  BY CourseStops DEF DInv, Shape, Syncing
<1> QED
  BY <1>1, <1>2, <1>3, <1>4, <1>5, <1>6, BoundedStays DEF DInv, Shape

LEMMA RefusedKeeps == ASSUME DInv, Refused PROVE DInv'
<1>1. odd \subseteq odd' /\ ("foreign" \in odd' => "foreign" \in odd)
  BY DEF Refused, Trouble
<1> QED
  BY <1>1, StopsKeep DEF Refused, Stops

LEMMA FetchKeeps == ASSUME DInv, FetchPayload PROVE DInv'
<1> DEFINE i == Head(plan).at
<1>1. /\ UNCHANGED <<events, hub, cache, baseline, edited, adding, syncs, before>>
      /\ status = "running" /\ plan # << >> /\ adding["sync"] = Idle /\ Head(plan).do = "fetch"
      /\ blob = << >>
      /\ odd \subseteq odd' /\ ("foreign" \in odd' => "foreign" \in odd)
  BY DEF FetchPayload, Turn, Trouble, Calm
<1>2. \/ /\ i \in DOMAIN hub.cmds /\ UNCHANGED <<status, plan>>
         /\ blob' = <<hub.cmds[i].data>>
      \/ /\ i \in DOMAIN hub.cmds /\ UNCHANGED <<status, plan>>
         /\ blob' = <<Payload("cut", i)>> /\ "cut" \in odd'
      \/ plan' = << >> /\ status' = "failed" /\ blob' = << >>
  BY <1>1 DEF FetchPayload, Trouble, ReadBack, BrokenOff, Stops
<1> HIDE DEF i
<1>3. CASE plan' = << >> /\ status' = "failed" /\ blob' = << >>
  BY <1>1, <1>3, StopsKeep
<1>4. CASE i \in DOMAIN hub.cmds /\ UNCHANGED <<status, plan>>
           /\ \/ blob' = <<hub.cmds[i].data>>
              \/ blob' = <<Payload("cut", i)>> /\ "cut" \in odd'
  <2>1. HubOK' /\ CacheOK'
    BY <1>1 DEF DInv, Shape, HubOK, CacheOK
  <2>2. EditorOK'
    BY <1>1, EditorRests DEF DInv, Shape
  <2>3. AddingOK'
    BY <1>1, AddingRests DEF DInv, Shape
  <2>4. hub.cmds[i] \in CmdRec /\ i \in Ids
    BY <1>4 DEF DInv, Shape, HubOK, IsDevice, Over
  <2>5. \E d \in CmdRec : blob' = <<d.data>>
    <3> DEFINE d == [name |-> 0, data |-> Payload("cut", i)]
    <3>1. d.data = Payload("cut", i) /\ Payload("cut", i) \in [by : Makers, of : Ids]
      BY <2>4 DEF Payload, Makers
    <3>2. d \in CmdRec
      BY <3>1 DEF CmdRec
    <3> HIDE DEF d
    <3> QED
      BY <1>4, <2>4, <3>1, <3>2
  <2>6. PlanOK'
    <3>1. Steps' = Steps
      BY <1>1, StepsRest
    <3>2. plan' = plan /\ status' = status /\ syncs' = syncs /\ adding' = adding
      BY <1>1, <1>4
    <3> QED
      BY <1>1, <2>5, <3>1, <3>2 DEF DInv, Shape, PlanOK, Syncing
  <2>7. Places'
    BY <1>1, <1>4, PlacesKept DEF DInv, Shape, SameLists
  <2>8. Course'
    <3>1. /\ Steps' = Steps /\ gone' = gone /\ new' = new /\ both' = both /\ mine' = mine
          /\ named' = named /\ changed' = changed
      BY <1>1, StepsRest
    <3>2. /\ plan' = plan /\ status' = status /\ edited' = edited /\ before' = before
          /\ hub' = hub /\ cache' = cache
          /\ \A S : Free(S)' => Free(S)
      BY <1>1, <1>4 DEF Free
    <3>3. BlobOK'
      <4>1. "cut" \in odd' => ~Free({"cut", "blind", "twin", "unheard"})'
        BY DEF Free
      <4> QED
        BY <1>4, <3>2, <4>1 DEF BlobOK, i
    <3>4. Rest'
      BY <1>1, <3>2 DEF Rest
    <3>5. HeadOK'
      BY <3>2 DEF DInv, Course, HeadOK, HeadOf
    <3>6. \A k, j : Pending(k, j)' <=> Pending(k, j)
      BY <1>1, <1>4, PendingRests DEF SameTurn
    <3>7. FieldsOK'
      BY <3>1, <3>2, <3>6 DEF DInv, Course, FieldsOK, Clean
    <3>8. CmdsOK'
      BY <3>1, <3>2, <3>6 DEF DInv, Course, CmdsOK, Clean
    <3> QED
      BY <3>3, <3>4, <3>5, <3>7, <3>8 DEF Course
  <2> QED
    BY <2>1, <2>2, <2>3, <2>6, <2>7, <2>8, BoundedStays DEF DInv, Shape
<1> QED
  BY <1>2, <1>3, <1>4

-----------------------------------------------------------------------------
(* The steps that write what is there already.                              *)

LEMMA HeadStep ==
  ASSUME Head(plan) \in Steps
  PROVE  LET k == Head(plan).do  i == Head(plan).at
         IN /\ Head(plan) = StepOf(k, i)
            /\ (k = "add" => i \in new) /\ (k = "payload" => i \in mine)
            /\ (k = "fetch" => i \in named) /\ (k = "field" => i \in changed)
            /\ (k = "delete" => i \in gone)
<1>1. \A a, b : StepOf(a, b).do = a /\ StepOf(a, b).at = b
  BY DEF StepOf
<1>2. \/ \E b \in new : Head(plan) = StepOf("add", b)
      \/ \E b \in mine : Head(plan) = StepOf("payload", b)
      \/ \E b \in named : Head(plan) = StepOf("fetch", b)
      \/ \E b \in changed : Head(plan) = StepOf("field", b)
      \/ \E b \in gone : Head(plan) = StepOf("delete", b)
  BY DEF Steps, StepsOf
<1> HIDE DEF StepOf
<1> QED
  BY <1>1, <1>2

\* With its head made, a plan has every other step pending still.
LEMMA PendingGoes ==
  ASSUME PlanOK, plan # << >>, plan' = Tail(plan), adding["sync"].at # "saved",
         adding'["sync"].at # "saved"
  PROVE  /\ \A k, i : Pending(k, i)' <=> Pending(k, i) /\ StepOf(k, i) # Head(plan)
         /\ Pending(Head(plan).do, Head(plan).at)
<1>1. Head(plan) \in Range(plan) /\ Range(plan') = Range(plan) \ {Head(plan)} /\ Head(plan) \in Steps
  BY Turned
<1>2. Head(plan) = StepOf(Head(plan).do, Head(plan).at)
  BY <1>1, HeadStep
<1> QED
  BY <1>1, <1>2 DEF Pending

LEMMA StepsDiffer ==
  ASSUME NEW k, NEW i, NEW l, NEW j
  PROVE  StepOf(k, i) = StepOf(l, j) <=> k = l /\ i = j
<1>1. StepOf(k, i).do = k /\ StepOf(k, i).at = i /\ StepOf(l, j).do = l /\ StepOf(l, j).at = j
  BY DEF StepOf
<1> QED
  BY <1>1

\* A step that writes: what holds of the state around the course of the sync.
LEMMA WritesKeep ==
  ASSUME DInv, UNCHANGED <<events, baseline, edited, adding, syncs, before>>,
         status = "running", plan # << >>, adding["sync"] = Idle, blob' = << >>,
         IsDevice(hub'), DOMAIN hub'.cmds = DOMAIN hub.cmds, hub'.place = hub.place,
         CacheOK', SameLists,
         odd \subseteq odd', "foreign" \in odd' => "foreign" \in odd,
         \/ Goes1 /\ Course'
         \/ Stops1
  PROVE  DInv'
<1>1. HubOK'
  BY DEF DInv, Shape, HubOK
<1>2. EditorOK'
  BY EditorRests DEF DInv, Shape
<1>3. AddingOK'
  BY AddingRests DEF DInv, Shape
<1>4. PlanOK'
  <2>1. adding'["sync"].at = "idle"
    BY DEF Idle
  <2>2. Goes1 \/ Stops1
    OBVIOUS
  <2> QED
    BY <2>1, <2>2, PlanGoes DEF DInv, Shape
<1>5. Places'
  <2>1. status \notin {"editing", "clearing", "success"}
    OBVIOUS
  <2> QED
    BY <2>1, PlacesKept DEF DInv, Shape
<1>6. Course'
  <2>1. CASE Stops1
    BY <2>1, CourseStops DEF DInv, Shape, Syncing, Stops1
  <2> QED
    BY <2>1
<1> QED
  BY <1>1, <1>2, <1>3, <1>4, <1>5, <1>6, BoundedStays DEF DInv, Shape

LEMMA FieldKeeps == ASSUME DInv, WriteField PROVE DInv'
<1> DEFINE f == Head(plan).at
           h == [hub EXCEPT !.fields = [g \in Fields |-> IF g \in HeadFields THEN HeadWith(f)[g] ELSE @[g]]]
           c == [cache EXCEPT !.head = HeadWith(f)]
           k == [hub EXCEPT !.fields[f] = edited.fields[f]]
<1>1. /\ UNCHANGED <<events, baseline, edited, blob, adding, syncs, before>>
      /\ status = "running" /\ plan # << >> /\ adding["sync"] = Idle /\ Head(plan).do = "field"
      /\ IF f \in HeadFields THEN Write(h, c) ELSE Write(k, cache)
  BY DEF WriteField, Turn
<1>2. f \in changed /\ f \in Fields /\ Head(plan) = StepOf("field", f)
  <2>1. Head(plan) \in Steps
    BY <1>1, Turned DEF DInv, Shape
  <2> QED
    BY <1>1, <2>1, HeadStep DEF changed
<1>3. /\ DOMAIN hub = {"cmds", "place", "fields"} /\ hub.fields \in [Fields -> Nat]
      /\ DOMAIN cache = {"listed", "names", "place", "head"} /\ cache.head \in [HeadFields -> Nat]
      /\ edited.fields \in [Fields -> Nat]
  BY DEF DInv, Shape, HubOK, IsDevice, CacheOK, EditorOK
<1>4. HeadWith(f) \in [HeadFields -> Nat]
  BY <1>2, <1>3 DEF HeadWith
<1>5. /\ h.fields = [g \in Fields |-> IF g \in HeadFields THEN HeadWith(f)[g] ELSE hub.fields[g]]
      /\ h.cmds = hub.cmds /\ h.place = hub.place /\ DOMAIN h = DOMAIN hub
  BY <1>3
<1>6. /\ c.head = HeadWith(f) /\ c.listed = cache.listed /\ c.names = cache.names
      /\ c.place = cache.place /\ DOMAIN c = DOMAIN cache
  BY <1>3
<1>7. /\ k.fields = [hub.fields EXCEPT ![f] = edited.fields[f]]
      /\ k.cmds = hub.cmds /\ k.place = hub.place /\ DOMAIN k = DOMAIN hub
  BY <1>3
<1>8. PICK hh, cc : /\ Write(hh, cc)
                    /\ IF f \in HeadFields THEN hh = h /\ cc = c ELSE hh = k /\ cc = cache
  BY <1>1
<1> HIDE DEF h, c, k, f
<1>9. /\ hh.cmds = hub.cmds /\ hh.place = hub.place /\ DOMAIN hh = DOMAIN hub
      /\ hh.fields \in [Fields -> Nat]
  <2>1. CASE f \in HeadFields
    <3>1. h.fields \in [Fields -> Nat]
      BY <1>3, <1>4, <1>5
    <3> QED
      BY <1>5, <1>8, <2>1, <3>1
  <2>2. CASE f \notin HeadFields
    <3>1. k.fields \in [Fields -> Nat]
      BY <1>2, <1>3, <1>7
    <3> QED
      BY <1>7, <1>8, <2>2, <3>1
  <2> QED
    BY <2>1, <2>2
<1>10. /\ cc.listed = cache.listed /\ cc.names = cache.names /\ cc.place = cache.place
       /\ DOMAIN cc = DOMAIN cache /\ cc.head \in [HeadFields -> Nat]
  BY <1>3, <1>4, <1>6, <1>8
<1>11. /\ hub' = hh /\ (cache' = cc \/ cache' = cache)
       /\ odd \subseteq odd' /\ ("foreign" \in odd' => "foreign" \in odd)
       /\ \/ Goes1 /\ cache' = cc /\ odd' = odd
          \/ Stops1
  BY <1>8 DEF Write, Goes, Stops, Goes1, Stops1, Trouble, Calm
<1>12. blob = << >>
  BY <1>1 DEF DInv, Shape, PlanOK
<1>13. IsDevice(hub') /\ CacheOK' /\ SameLists
  BY <1>9, <1>10, <1>11 DEF DInv, Shape, HubOK, CacheOK, IsDevice, SameLists
<1>14. ASSUME Goes1, cache' = cc, odd' = odd PROVE Course'
  <2>0. /\ Steps' = Steps /\ gone' = gone /\ new' = new /\ both' = both /\ mine' = mine
        /\ named' = named /\ changed' = changed
    BY <1>1, StepsRest
  <2>1. /\ plan' = Tail(plan) /\ status' = status /\ edited' = edited /\ before' = before
        /\ adding' = adding /\ \A S : Free(S)' <=> Free(S)
    BY <1>1, <1>14 DEF Goes1, Free
  <2>2. \A a, b : Pending(a, b)' <=> Pending(a, b) /\ ~(a = "field" /\ b = f)
    <3>1. adding["sync"].at = "idle" /\ adding'["sync"].at = "idle"
      BY <1>1 DEF Idle
    <3> QED
      BY <1>1, <1>2, <2>1, <3>1, PendingGoes, StepsDiffer DEF DInv, Shape
  <2>3. \A g \in HeadFields : g \in Fields /\ HeadOf(hub)[g] = hub.fields[g]
                              /\ HeadOf(hub')[g] = hub'.fields[g]
    BY DEF HeadOf, Fields
  <2>4. HeadOK'
    <3>1. CASE f \in HeadFields
      <4>1. \A g \in HeadFields : hub'.fields[g] = HeadWith(f)[g]
        BY <1>5, <1>8, <1>11, <2>3, <3>1
      <4>2. HeadOf(hub') = HeadWith(f)
        BY <1>4, <4>1 DEF HeadOf
      <4> QED
        BY <1>6, <1>8, <1>14, <3>1, <4>2 DEF HeadOK, HeadOf
    <3>2. CASE f \notin HeadFields
      <4>1. \A g \in HeadFields : hub'.fields[g] = hub.fields[g]
        BY <1>2, <1>3, <1>7, <1>8, <1>11, <2>3, <3>2
      <4>2. HeadOf(hub') = HeadOf(hub)
        BY <4>1 DEF HeadOf
      <4> QED
        BY <1>1, <1>8, <1>14, <2>1, <3>2, <4>2 DEF DInv, Course, HeadOK, HeadOf
    <3> QED
      BY <3>1, <3>2
  <2>5. Clean => hub'.fields = [hub.fields EXCEPT ![f] = edited.fields[f]]
    <3> SUFFICES ASSUME Clean PROVE hub'.fields = [hub.fields EXCEPT ![f] = edited.fields[f]]
      OBVIOUS
    <3>1. CASE f \in HeadFields
      <4>1. cache.head = HeadOf(hub)
        BY <1>1 DEF DInv, Course, HeadOK, Clean, Free
      <4>2. \A g \in HeadFields : HeadWith(f)[g] = IF g = f THEN edited.fields[f] ELSE hub.fields[g]
        BY <1>3, <2>3, <4>1 DEF HeadWith
      <4>3. hub'.fields = h.fields
        BY <1>8, <1>11, <3>1
      <4>4. \A g \in Fields : h.fields[g] = [hub.fields EXCEPT ![f] = edited.fields[f]][g]
        BY <1>2, <1>3, <1>5, <3>1, <4>2
      <4>5. h.fields \in [Fields -> Nat] /\ [hub.fields EXCEPT ![f] = edited.fields[f]] \in [Fields -> Nat]
        BY <1>2, <1>3, <1>9, <1>11, <4>3
      <4> QED
        BY <4>3, <4>4, <4>5
    <3>2. CASE f \notin HeadFields
      BY <1>7, <1>8, <1>11, <3>2
    <3> QED
      BY <3>1, <3>2
  <2>6. FieldsOK'
    <3> SUFFICES ASSUME Clean, NEW g \in Fields
                 PROVE  hub'.fields[g] = IF g \in changed /\ ~Pending("field", g)' THEN edited.fields[g]
                                         ELSE before.fields[g]
      BY <2>0, <2>1 DEF FieldsOK, Clean
    <3>1. hub.fields[g] = IF g \in changed /\ ~Pending("field", g) THEN edited.fields[g]
                          ELSE before.fields[g]
      BY <1>1 DEF DInv, Course, FieldsOK
    <3>2. hub'.fields[g] = IF g = f THEN edited.fields[f] ELSE hub.fields[g]
      BY <1>2, <1>3, <2>5
    <3> QED
      BY <1>2, <2>2, <3>1, <3>2
  <2>7. CmdsOK'
    <3>1. hub'.cmds = hub.cmds
      BY <1>9, <1>11
    <3>2. \A i : /\ Pending("delete", i)' <=> Pending("delete", i)
                 /\ Pending("add", i)' <=> Pending("add", i)
                 /\ Pending("payload", i)' <=> Pending("payload", i)
                 /\ Pending("fetch", i)' <=> Pending("fetch", i)
      BY <2>2
    <3> QED
      BY <2>0, <2>1, <3>1, <3>2 DEF DInv, Course, CmdsOK, Clean
  <2> QED
    BY <1>1, <1>12, <2>1, <2>4, <2>6, <2>7 DEF Course, BlobOK, Rest
<1> QED
  BY <1>1, <1>9, <1>11, <1>12, <1>13, <1>14, WritesKeep

\* The record of a command is replaced by one with the payload d.
LEMMA OverwriteKeeps ==
  ASSUME DInv, NEW i, Head(plan).at = i, NEW d,
         UNCHANGED <<events, baseline, edited, adding, syncs, before>>,
         status = "running", plan # << >>, adding["sync"] = Idle, blob' = << >>,
         i \in both, d \in [by : Makers, of : Ids], Overwrite(i, d),
         \/ Head(plan).do = "payload" /\ d = Payload("user", i)
         \/ Head(plan).do = "fetch" /\ blob = <<d>>
  PROVE  DInv'
<1> DEFINE r == Record(edited.cmds[i].name, d)
           h == [hub EXCEPT !.cmds = Upd(@, i, r)]
           c == [cache EXCEPT !.names[i] = edited.cmds[i].name]
<1>1. CASE Stops /\ Calm /\ UNCHANGED <<hub, cache>>
  BY <1>1, StopsKeep DEF Stops, Calm
<1>2. CASE i \in DOMAIN cache.names /\ Write(h, c)
  <2>1. /\ DOMAIN hub = {"cmds", "place", "fields"} /\ Over(CmdRec, hub.cmds)
        /\ hub.fields \in [Fields -> Nat] /\ Over(Nat \ {0}, hub.place)
        /\ DOMAIN cache = {"listed", "names", "place", "head"} /\ Over(Nat, cache.names)
        /\ i \in DOMAIN hub.cmds /\ i \in Ids
    BY DEF DInv, Shape, HubOK, IsDevice, CacheOK, EditorOK, Over
  <2>2. edited.cmds[i].name \in Nat /\ i \in DOMAIN edited.cmds
    BY DEF DInv, Shape, EditorOK, EditRec, Over, both
  <2>3. r \in CmdRec
    BY <2>2 DEF Record, CmdRec
  <2> HIDE DEF r
  <2>4. /\ Over(CmdRec, Upd(hub.cmds, i, r)) /\ DOMAIN Upd(hub.cmds, i, r) = DOMAIN hub.cmds
        /\ Upd(hub.cmds, i, r)[i] = r
        /\ \A j \in DOMAIN hub.cmds \ {i} : Upd(hub.cmds, i, r)[j] = hub.cmds[j]
    <3>1. DOMAIN hub.cmds \cup {i} = DOMAIN hub.cmds
      BY <2>1
    <3>2. Over(CmdRec, Upd(hub.cmds, i, r))
      BY <2>1, <2>3, UpdOver
    <3>4. /\ DOMAIN Upd(hub.cmds, i, r) = DOMAIN hub.cmds \cup {i}
          /\ Upd(hub.cmds, i, r)[i] = r
          /\ \A j \in DOMAIN hub.cmds \ {i} : Upd(hub.cmds, i, r)[j] = hub.cmds[j]
      BY DEF Upd
    <3> QED
      BY <3>1, <3>2, <3>4
  <2>5. /\ h.cmds = Upd(hub.cmds, i, r) /\ h.fields = hub.fields /\ h.place = hub.place
        /\ DOMAIN h = DOMAIN hub
    BY <2>1
  <2>6. /\ c.names = [cache.names EXCEPT ![i] = edited.cmds[i].name] /\ c.listed = cache.listed
        /\ c.place = cache.place /\ c.head = cache.head /\ DOMAIN c = DOMAIN cache
    BY <2>1
  <2>7. Over(Nat, c.names) /\ DOMAIN c.names = DOMAIN cache.names
    BY <1>2, <2>1, <2>2, <2>6 DEF Over
  <2> HIDE DEF h, c
  <2>8. /\ hub' = h /\ (cache' = c \/ cache' = cache)
        /\ odd \subseteq odd' /\ ("foreign" \in odd' => "foreign" \in odd)
        /\ \/ Goes1 /\ cache' = c /\ odd' = odd
           \/ Stops1
    BY <1>2 DEF Write, Goes, Stops, Goes1, Stops1, Trouble, Calm
  <2>9. IsDevice(hub') /\ CacheOK' /\ SameLists
    BY <2>1, <2>4, <2>5, <2>6, <2>7, <2>8 DEF DInv, Shape, CacheOK, IsDevice, SameLists
  <2>10. ASSUME Goes1, cache' = c, odd' = odd PROVE Course'
    <3>0. /\ Steps' = Steps /\ gone' = gone /\ new' = new /\ both' = both /\ mine' = mine
          /\ named' = named /\ changed' = changed
      BY StepsRest
    <3>1. /\ plan' = Tail(plan) /\ status' = status /\ edited' = edited /\ before' = before
          /\ adding' = adding /\ \A S : Free(S)' <=> Free(S)
      BY <2>10 DEF Goes1, Free
    <3>2. \A a, b : Pending(a, b)' <=> Pending(a, b) /\ ~(a = Head(plan).do /\ b = i)
      <4>1. adding["sync"].at = "idle" /\ adding'["sync"].at = "idle"
        BY DEF Idle
      <4>2. Head(plan) = StepOf(Head(plan).do, i)
        BY Turned, HeadStep DEF DInv, Shape
      <4> QED
        BY <3>1, <4>1, <4>2, PendingGoes, StepsDiffer DEF DInv, Shape
    <3>3. Pending(Head(plan).do, i)
      <4>1. adding["sync"].at = "idle" /\ adding'["sync"].at = "idle"
        BY DEF Idle
      <4> QED
        BY <3>1, <4>1, PendingGoes DEF DInv, Shape
    <3>4. HeadOK'
      BY <2>5, <2>6, <2>8, <2>10, <3>1 DEF DInv, Course, HeadOK, HeadOf
    <3>5. FieldsOK'
      <4>1. hub'.fields = hub.fields
        BY <2>5, <2>8
      <4>2. \A g : Pending("field", g)' <=> Pending("field", g)
        BY <3>2
      <4> QED
        BY <3>0, <3>1, <4>1, <4>2 DEF DInv, Course, FieldsOK, Clean
    <3>6. CmdsOK'
      <4> SUFFICES ASSUME Clean PROVE CmdsOK'
        BY <3>1 DEF CmdsOK, Clean
      <4>1. /\ DOMAIN hub'.cmds = DOMAIN hub.cmds /\ hub'.cmds[i] = r
            /\ \A j \in DOMAIN hub.cmds \ {i} : hub'.cmds[j] = hub.cmds[j]
        BY <2>4, <2>5, <2>8
      <4>2. \A j : /\ Pending("delete", j)' <=> Pending("delete", j)
                   /\ Pending("add", j)' <=> Pending("add", j)
                   /\ j # i => (Pending("payload", j)' <=> Pending("payload", j))
                   /\ j # i => (Pending("fetch", j)' <=> Pending("fetch", j))
        BY <3>2
      <4>3. /\ DOMAIN hub.cmds = (DOMAIN before.cmds \ {j \in gone : ~Pending("delete", j)})
                                  \cup {j \in new : ~Pending("add", j)}
            /\ \A j \in DOMAIN hub.cmds :
                  hub.cmds[j] = IF \/ j \in new /\ ~Pending("add", j)
                                   \/ j \in mine /\ ~Pending("payload", j)
                                THEN Record(edited.cmds[j].name, Payload("user", j))
                                ELSE IF j \in named /\ ~Pending("fetch", j)
                                THEN Record(edited.cmds[j].name, before.cmds[j].data)
                                ELSE before.cmds[j]
        BY DEF DInv, Course, CmdsOK
      <4>4. i \notin new
        BY DEF both, new
      <4>5. hub'.cmds[i] = IF \/ i \in new /\ ~Pending("add", i)'
                              \/ i \in mine /\ ~Pending("payload", i)'
                           THEN Record(edited.cmds[i].name, Payload("user", i))
                           ELSE IF i \in named /\ ~Pending("fetch", i)'
                           THEN Record(edited.cmds[i].name, before.cmds[i].data)
                           ELSE before.cmds[i]
        <5>1. CASE Head(plan).do = "payload" /\ d = Payload("user", i)
          <6>1. i \in mine
            BY <5>1, Turned, HeadStep DEF DInv, Shape
          <6>2. ~Pending("payload", i)'
            BY <3>2, <5>1
          <6> QED
            BY <4>1, <5>1, <6>1, <6>2 DEF r
        <5>2. CASE Head(plan).do = "fetch" /\ blob = <<d>>
          <6>1. i \in named /\ i \notin mine
            BY <5>2, Turned, HeadStep DEF DInv, Shape, named
          <6>2. ~Pending("fetch", i)' /\ Pending("fetch", i)
            BY <3>2, <3>3, <5>2
          <6>3. <<d>> = <<hub.cmds[i].data>>
            BY <5>2 DEF DInv, Course, BlobOK, Clean, Free
          <6>4. d = hub.cmds[i].data
            BY <6>3
          <6>5. hub.cmds[i] = before.cmds[i]
            BY <2>1, <4>3, <4>4, <6>1, <6>2
          <6> QED
            BY <4>1, <4>4, <6>1, <6>2, <6>4, <6>5 DEF r
        <5> QED
          BY <5>1, <5>2
      <4>6. \A j \in DOMAIN hub.cmds \ {i} :
                  hub'.cmds[j] = IF \/ j \in new /\ ~Pending("add", j)'
                                    \/ j \in mine /\ ~Pending("payload", j)'
                                 THEN Record(edited.cmds[j].name, Payload("user", j))
                                 ELSE IF j \in named /\ ~Pending("fetch", j)'
                                 THEN Record(edited.cmds[j].name, before.cmds[j].data)
                                 ELSE before.cmds[j]
        BY <4>1, <4>2, <4>3
      <4>7. DOMAIN hub'.cmds = (DOMAIN before.cmds \ {j \in gone : ~Pending("delete", j)'})
                                  \cup {j \in new : ~Pending("add", j)'}
        BY <4>1, <4>2, <4>3
      <4> QED
        BY <3>0, <3>1, <4>1, <4>5, <4>6, <4>7 DEF CmdsOK
    <3> QED
      BY <3>1, <3>4, <3>5, <3>6 DEF Course, BlobOK, Rest
  <2>11. DOMAIN hub'.cmds = DOMAIN hub.cmds /\ hub'.place = hub.place
    BY <2>4, <2>5, <2>8
  <2> QED
    BY <2>8, <2>9, <2>10, <2>11, WritesKeep
<1> QED
  BY <1>1, <1>2 DEF Overwrite

LEMMA RenameKeeps == ASSUME DInv, RenameCommand PROVE DInv'
<1>1. /\ UNCHANGED <<events, baseline, edited, adding, syncs, before>>
      /\ status = "running" /\ plan # << >> /\ adding["sync"] = Idle /\ Head(plan).do = "fetch"
      /\ blob # << >> /\ blob' = << >> /\ Overwrite(Head(plan).at, blob[1])
  BY DEF RenameCommand, Turn
<1>2. PICK e \in CmdRec : blob = <<e.data>>
  BY <1>1 DEF DInv, Shape, PlanOK
<1>3. e.data \in [by : Makers, of : Ids] /\ blob[1] = e.data
  BY <1>2 DEF CmdRec
<1>4. Head(plan).at \in both
  BY <1>1, Turned, HeadStep DEF DInv, Shape, named
<1> QED
  BY <1>1, <1>2, <1>3, <1>4, OverwriteKeeps

LEMMA PayloadKeeps == ASSUME DInv, WritePayload PROVE DInv'
<1> DEFINE i == Head(plan).at
<1>1. /\ UNCHANGED <<events, baseline, edited, adding, syncs, before, blob>>
      /\ status = "running" /\ plan # << >> /\ adding["sync"] = Idle /\ Head(plan).do = "payload"
      /\ Overwrite(i, Payload("user", i))
  BY DEF WritePayload, Turn
<1>2. blob' = << >>
  BY <1>1 DEF DInv, Shape, PlanOK
<1>3. i \in both
  BY <1>1, Turned, HeadStep DEF DInv, Shape, mine
<1>4. i \in Ids
  BY <1>3 DEF DInv, Shape, EditorOK, Over, both
<1> HIDE DEF i
<1>5. Payload("user", i) \in [by : Makers, of : Ids]
  BY <1>4 DEF Payload, Makers
<1> QED
  BY <1>1, <1>2, <1>3, <1>5, OverwriteKeeps DEF i

LEMMA DeleteKeeps == ASSUME DInv, DeleteCommand PROVE DInv'
<1> DEFINE i == Head(plan).at
           h == [hub EXCEPT !.cmds = Without(@, i), !.place = Without(@, i)]
<1>1. /\ UNCHANGED <<events, baseline, edited, adding, syncs, before, blob>>
      /\ status = "running" /\ plan # << >> /\ adding["sync"] = Idle /\ Head(plan).do = "delete"
      /\ Write(h, cache)
  BY DEF DeleteCommand, Turn
<1>2. blob' = << >> /\ blob = << >>
  BY <1>1 DEF DInv, Shape, PlanOK
<1>3. i \in gone
  BY <1>1, Turned, HeadStep DEF DInv, Shape
<1>4. events
  BY <1>3 DEF DInv, Shape, EditorOK
<1>5. /\ DOMAIN hub = {"cmds", "place", "fields"} /\ Over(CmdRec, hub.cmds)
      /\ hub.fields \in [Fields -> Nat] /\ Over(Nat \ {0}, hub.place)
      /\ DOMAIN hub.place \subseteq DOMAIN hub.cmds
  BY DEF DInv, Shape, HubOK, IsDevice
<1>6. /\ h.cmds = Without(hub.cmds, i) /\ h.place = Without(hub.place, i)
      /\ h.fields = hub.fields /\ DOMAIN h = DOMAIN hub
  BY <1>5
<1>7. /\ hub' = h /\ cache' = cache
      /\ odd \subseteq odd' /\ ("foreign" \in odd' => "foreign" \in odd)
      /\ \/ Goes1 /\ odd' = odd
         \/ Stops1
  BY <1>1 DEF Write, Goes, Stops, Goes1, Stops1, Trouble, Calm
<1> HIDE DEF h, i
<1>8. /\ Over(CmdRec, hub'.cmds) /\ DOMAIN hub'.cmds = DOMAIN hub.cmds \ {i}
      /\ \A j \in DOMAIN hub.cmds \ {i} : hub'.cmds[j] = hub.cmds[j]
  <2>1. /\ Over(CmdRec, Without(hub.cmds, i)) /\ DOMAIN Without(hub.cmds, i) = DOMAIN hub.cmds \ {i}
        /\ \A j \in DOMAIN hub.cmds \ {i} : Without(hub.cmds, i)[j] = hub.cmds[j]
    BY <1>5, WithoutAt, WithoutOver
  <2> QED
    BY <1>6, <1>7, <2>1
<1>9. /\ Over(Nat \ {0}, hub'.place) /\ DOMAIN hub'.place = DOMAIN hub.place \ {i}
      /\ \A j \in DOMAIN hub.place \ {i} : hub'.place[j] = hub.place[j]
  <2>1. /\ Over(Nat \ {0}, Without(hub.place, i))
        /\ DOMAIN Without(hub.place, i) = DOMAIN hub.place \ {i}
        /\ \A j \in DOMAIN hub.place \ {i} : Without(hub.place, i)[j] = hub.place[j]
    BY <1>5, WithoutAt, WithoutOver
  <2> QED
    BY <1>6, <1>7, <2>1
<1>10. HubOK'
  BY <1>1, <1>5, <1>6, <1>7, <1>8, <1>9 DEF DInv, Shape, HubOK, IsDevice
<1>11. CacheOK'
  BY <1>7 DEF DInv, Shape, CacheOK
<1>12. EditorOK'
  BY <1>1, <1>3, <1>8, EditorRests DEF DInv, Shape
<1>13. AddingOK'
  BY <1>1, <1>7, AddingRests DEF DInv, Shape
<1>14. PlanOK'
  <2>1. adding'["sync"].at = "idle"
    BY <1>1 DEF Idle
  <2> QED
    BY <1>1, <1>2, <1>7, <2>1, PlanGoes DEF DInv, Shape
<1>15. Places'
  <2>1. ListsOK'
    BY <1>1, <1>4 DEF ListsOK
  <2>2. ClaimsOK'
    BY <1>1, <1>7, <1>8, ClaimsRest DEF DInv, Places
  <2>3. PlacesOK'
    <3>1. Free({"blind", "unheard"})' => Free({"blind", "unheard"})
      BY <1>7 DEF Free
    <3>2. syncs' # 0
      BY <1>1 DEF DInv, Shape, PlanOK
    <3> QED
      BY <1>1, <1>4, <3>1, <3>2 DEF DInv, Places, PlacesOK
  <2>4. BrowseKept'
    <3>1. \A j \in DOMAIN before'.place \cap DOMAIN hub'.cmds : j \in DOMAIN hub.place =>
             j \in DOMAIN hub'.place /\ hub'.place[j] = hub.place[j]
      BY <1>8, <1>9
    <3> QED
      BY <1>1, <1>7, <1>8, <3>1, BrowseRests DEF DInv, Places
  <2> QED
    BY <2>1, <2>2, <2>3, <2>4 DEF Places
<1>16. Course'
  <2>1. CASE Stops1
    BY <1>1, <1>2, <2>1, CourseStops DEF DInv, Shape, Syncing, Stops1
  <2>2. CASE Goes1 /\ odd' = odd
    <3>0. /\ Steps' = Steps /\ gone' = gone /\ new' = new /\ both' = both /\ mine' = mine
          /\ named' = named /\ changed' = changed
      BY <1>1, StepsRest
    <3>1. /\ plan' = Tail(plan) /\ status' = status /\ edited' = edited /\ before' = before
          /\ adding' = adding /\ \A S : Free(S)' <=> Free(S)
      BY <1>1, <2>2 DEF Goes1, Free
    <3>2. \A a, b : Pending(a, b)' <=> Pending(a, b) /\ ~(a = "delete" /\ b = i)
      <4>1. adding["sync"].at = "idle" /\ adding'["sync"].at = "idle"
        BY <1>1 DEF Idle
      <4>2. Head(plan) = StepOf("delete", i)
        BY <1>1, Turned, HeadStep DEF DInv, Shape, i
      <4> QED
        BY <1>1, <3>1, <4>1, <4>2, PendingGoes, StepsDiffer DEF DInv, Shape
    <3>3. HeadOK'
      BY <1>6, <1>7, <3>1 DEF DInv, Course, HeadOK, HeadOf
    <3>4. FieldsOK'
      <4>1. hub'.fields = hub.fields
        BY <1>6, <1>7
      <4>2. \A g : Pending("field", g)' <=> Pending("field", g)
        BY <3>2
      <4> QED
        BY <3>0, <3>1, <4>1, <4>2 DEF DInv, Course, FieldsOK, Clean
    <3>5. CmdsOK'
      <4> SUFFICES ASSUME Clean PROVE CmdsOK'
        BY <3>1 DEF CmdsOK, Clean
      <4>1. \A j : /\ Pending("add", j)' <=> Pending("add", j)
                   /\ Pending("payload", j)' <=> Pending("payload", j)
                   /\ Pending("fetch", j)' <=> Pending("fetch", j)
                   /\ j # i => (Pending("delete", j)' <=> Pending("delete", j))
        BY <3>2
      <4>0. PICK k : k = i
        OBVIOUS
      <4>2. ~Pending("delete", k)'
        BY <3>2, <4>0
      <4>3. i \notin new
        BY <1>3 DEF gone, new
      <4>4. DOMAIN hub'.cmds = (DOMAIN before.cmds \ {j \in gone : ~Pending("delete", j)'})
                                  \cup {j \in new : ~Pending("add", j)'}
        <5>1. DOMAIN hub.cmds = (DOMAIN before.cmds \ {j \in gone : ~Pending("delete", j)})
                                  \cup {j \in new : ~Pending("add", j)}
          BY <1>1 DEF DInv, Course, CmdsOK
        <5> QED
          BY <1>3, <1>8, <4>0, <4>1, <4>2, <4>3, <5>1
      <4> QED
        BY <1>1, <1>8, <3>0, <3>1, <4>1, <4>4 DEF DInv, Course, CmdsOK
    <3> QED
      BY <1>1, <1>2, <3>1, <3>3, <3>4, <3>5 DEF Course, BlobOK, Rest
  <2> QED
    BY <1>7, <2>1, <2>2
<1> QED
  BY <1>10, <1>11, <1>12, <1>13, <1>14, <1>15, <1>16, BoundedStays DEF DInv, Shape

-----------------------------------------------------------------------------
(* New commands.                                                            *)

\* Who has claimed an id: the sync for the step it is at, or the service.
LEMMA Adders ==
  ASSUME Shape, NEW w \in Writers, adding[w].at \in {"claimed", "saved"}
  PROVE  /\ ~events /\ gone = {} /\ adding[w].id \in Ids
         /\ w = "sync" => /\ status = "running" /\ plan # << >> /\ blob = << >>
                          /\ Head(plan) = StepOf("add", adding["sync"].id)
                          /\ adding["sync"].id \in new
         /\ w = "service" => "foreign" \notin odd
         /\ w = "sync" \/ w = "service"
<1>1. w = "sync" \/ w = "service"
  BY DEF Writers
<1>2. adding[w].id \in Ids
  BY DEF Shape, AddingOK, Adder, Ids
<1>3. ASSUME w = "sync"
      PROVE  /\ status = "running" /\ plan # << >> /\ blob = << >>
             /\ Head(plan) = StepOf("add", adding["sync"].id)
             /\ adding["sync"].id \in new
  <2>1. /\ status = "running" /\ plan # << >>
        /\ Head(plan) = StepOf("add", adding["sync"].id)
    BY <1>3 DEF Shape, PlanOK
  <2>2. Head(plan).do = "add" /\ Head(plan).at = adding["sync"].id
    BY <2>1 DEF StepOf
  <2>3. Head(plan) \in Steps
    BY <2>1, Turned DEF Shape
  <2>4. adding["sync"].id \in new
    BY <2>2, <2>3, HeadStep
  <2>5. blob = << >>
    BY <2>2 DEF Shape, PlanOK
  <2> QED
    BY <2>1, <2>4, <2>5
<1>4. w = "service" => "foreign" \notin odd /\ ~events
  BY DEF Shape, AddingOK
<1>5. ~events /\ gone = {}
  BY <1>1, <1>3, <1>4 DEF Shape, EditorOK
<1> QED
  BY <1>1, <1>2, <1>3, <1>4, <1>5

LEMMA AddingSet ==
  ASSUME AddingOK, NEW w \in Writers, NEW x \in Adder, adding' = [adding EXCEPT ![w] = x],
         IF x.at \in {"claimed", "saved"} THEN x.id # 0 ELSE x.id = 0 /\ ~x.loose,
         w = "sync" => x.at \in {"idle", "claimed", "saved"}, events' = events,
         w = "service" => adding[w].at # "idle", "foreign" \in odd' => "foreign" \in odd
  PROVE  AddingOK' /\ adding'[w] = x /\ \A v \in Writers \ {w} : adding'[v] = adding[v]
<1>1. adding'[w] = x /\ \A v \in Writers \ {w} : adding'[v] = adding[v]
  BY DEF AddingOK
<1>2. adding' \in [Writers -> Adder]
  BY DEF AddingOK
<1>3. "sync" \in Writers /\ "service" \in Writers
  BY DEF Writers
<1> QED
  BY <1>1, <1>2, <1>3 DEF AddingOK

LEMMA ClaimKeeps == ASSUME DInv, ClaimForSync PROVE DInv'
<1> DEFINE i == Head(plan).at
           x == [at |-> "claimed", id |-> i, loose |-> ~cache.listed]
<1>1. /\ UNCHANGED <<events, hub, cache, baseline, edited, blob, syncs, before>>
      /\ status = "running" /\ plan # << >> /\ adding["sync"] = Idle /\ Head(plan).do = "add"
  BY DEF ClaimForSync, Turn
<1>2. \/ Stops /\ Calm /\ UNCHANGED adding
      \/ /\ adding' = [adding EXCEPT !["sync"] = x]
         /\ odd' = odd \cup Risks("sync", i, cache.listed)
         /\ UNCHANGED <<plan, status>>
  BY DEF ClaimForSync
<1>3. blob = << >> /\ syncs # 0
  BY <1>1 DEF DInv, Shape, PlanOK
<1>4. i \in new /\ Head(plan) = StepOf("add", i)
  BY <1>1, Turned, HeadStep DEF DInv, Shape
<1>5. i \in Ids /\ i \in 0 .. MaxId /\ i # 0
  BY <1>4 DEF DInv, Bounded, Shape, EditorOK, Over, new, Ids
<1>6. ~events
  BY <1>4 DEF DInv, Shape, EditorOK
<1>7. CASE Stops /\ Calm /\ UNCHANGED adding
  BY <1>1, <1>3, <1>7, StopsKeep DEF Stops, Calm
<1>8. CASE /\ adding' = [adding EXCEPT !["sync"] = x]
           /\ odd' = odd \cup Risks("sync", i, cache.listed)
           /\ UNCHANGED <<plan, status>>
  <2>1. /\ "foreign" \in odd' => "foreign" \in odd
        /\ odd \subseteq odd'
        /\ "blind" \notin odd' => cache.listed
        /\ "twin" \notin odd' => ~(adding["service"].at = "claimed" /\ adding["service"].id = i)
    BY <1>8 DEF Risks, Writers
  <2>2. x \in Adder /\ x.at = "claimed" /\ x.id = i
    BY <1>5 DEF Adder, DInv, Shape, CacheOK
  <2> HIDE DEF x, i
  <2>3. AddingOK' /\ adding'["sync"] = x /\ adding'["service"] = adding["service"]
    BY <1>1, <1>5, <1>8, <2>1, <2>2, AddingSet DEF DInv, Shape, Writers
  <2>4. HubOK' /\ CacheOK'
    BY <1>1 DEF DInv, Shape, HubOK, CacheOK
  <2>5. EditorOK'
    BY <1>1, EditorRests DEF DInv, Shape
  <2>6. PlanOK'
    <3>1. Steps' = Steps
      BY <1>1, StepsRest
    <3>2. plan' = plan /\ status' = status /\ blob' = blob /\ syncs' = syncs
      BY <1>1, <1>8
    <3> QED
      BY <1>1, <1>4, <2>2, <2>3, <3>1, <3>2 DEF DInv, Shape, PlanOK, Syncing
  <2>7. Free({"blind", "unheard"})' => i \notin DOMAIN hub.cmds
    <3>1. Free({"blind", "unheard"})' => cache.listed /\ Free({"unheard"})
      BY <2>1 DEF Free
    <3>2. cache.listed /\ Free({"unheard"}) => DOMAIN cache.names = DOMAIN hub.cmds
      BY <1>1, <1>6 DEF DInv, Places, ListsOK
    <3>3. i \notin DOMAIN cache.names
      <4>1. ~Taken(i)
        <5>1. Stops => plan' # plan
          BY <1>1 DEF Stops
        <5> QED
          BY <1>8, <5>1 DEF ClaimForSync, i
      <4> QED
        BY <4>1 DEF Taken
    <3> QED
      BY <3>1, <3>2, <3>3
  <2>8. Places'
    <3>1. ListsOK'
      <4>1. \A v \in Writers : adding'[v].at = "saved" =>
                                 adding[v].at = "saved" /\ adding'[v].id = adding[v].id
        BY <2>2, <2>3 DEF Writers
      <4> QED
        BY <1>1, <1>8, <2>1, <4>1, ListsRest DEF DInv, Places, SameLists
    <3>2. ClaimsOK'
      <4>1. Free({"blind", "twin", "unheard"})' =>
               Free({"blind", "twin", "unheard"}) /\ Free({"blind", "unheard"})'
        BY <2>1 DEF Free
      <4>2. Free({"twin"})' => "twin" \notin odd'
        BY DEF Free
      <4>3. \A v \in Writers : v = "sync" \/ v = "service"
        BY DEF Writers
      <4>4. "service" \in Writers
        BY DEF Writers
      <4> QED
        BY <1>1, <2>1, <2>2, <2>3, <2>7, <4>1, <4>2, <4>3, <4>4 DEF DInv, Places, ClaimsOK
    <3>3. PlacesOK'
      <4>1. Free({"blind", "unheard"})' => Free({"blind", "unheard"})
        BY <2>1 DEF Free
      <4>2. DOMAIN before.place \subseteq DOMAIN hub.cmds
        BY <1>6 DEF DInv, Places, ListsOK
      <4>3. \A v \in Writers : v = "sync" \/ v = "service"
        BY DEF Writers
      <4> QED
        BY <1>1, <1>3, <2>2, <2>3, <2>7, <4>1, <4>2, <4>3 DEF DInv, Places, PlacesOK
    <3>4. BrowseKept'
      BY <1>1, <2>1, BrowseRests DEF DInv, Shape, HubOK, Places
    <3> QED
      BY <3>1, <3>2, <3>3, <3>4 DEF Places
  <2>9. Course'
    <3>0. /\ Steps' = Steps /\ gone' = gone /\ new' = new /\ both' = both /\ mine' = mine
          /\ named' = named /\ changed' = changed
      BY <1>1, StepsRest
    <3>1. /\ plan' = plan /\ status' = status /\ edited' = edited /\ before' = before
          /\ hub' = hub /\ cache' = cache /\ blob' = blob /\ \A S : Free(S)' => Free(S)
      BY <1>1, <1>8, <2>1 DEF Free
    <3>2. \A k, j : Pending(k, j)' <=> Pending(k, j)
      <4>1. adding["sync"].at # "saved" /\ adding'["sync"].at # "saved"
        BY <1>1, <2>2, <2>3 DEF Idle
      <4> QED
        BY <3>1, <4>1 DEF Pending
    <3>3. BlobOK' /\ Rest'
      BY <1>1, <1>3, <3>1 DEF BlobOK, Rest
    <3>4. HeadOK'
      BY <3>1 DEF DInv, Course, HeadOK, HeadOf
    <3>5. FieldsOK'
      BY <3>0, <3>1, <3>2 DEF DInv, Course, FieldsOK, Clean
    <3>6. CmdsOK'
      BY <3>0, <3>1, <3>2 DEF DInv, Course, CmdsOK, Clean
    <3> QED
      BY <3>3, <3>4, <3>5, <3>6 DEF Course
  <2> QED
    BY <2>3, <2>4, <2>5, <2>6, <2>8, <2>9, BoundedStays DEF DInv, Shape
<1> QED
  BY <1>2, <1>7, <1>8

LEMMA MadeOf ==
  ASSUME Shape, NEW w \in Writers, adding[w].at \in {"claimed", "saved"}
  PROVE  Made(w, adding[w].id) \in CmdRec
<1>1. PICK i : i = adding[w].id
  OBVIOUS
<1>2. i \in Ids /\ (w = "sync" => i \in new)
  BY <1>1, Adders
<1>3. CASE w = "sync"
  <2>1. edited.cmds[i].name \in Nat
    BY <1>2, <1>3 DEF Shape, EditorOK, Over, EditRec, new
  <2>2. Payload("user", i) \in [by : Makers, of : Ids]
    BY <1>2 DEF Payload, Makers
  <2> QED
    BY <1>1, <1>3, <2>1, <2>2 DEF Made, Record, CmdRec
<1>4. CASE w # "sync"
  <2>1. Payload("service", i) \in [by : Makers, of : Ids]
    BY <1>2 DEF Payload, Makers
  <2> QED
    BY <1>1, <1>4, <2>1 DEF Made, Record, CmdRec
<1> QED
  BY <1>3, <1>4

SavedAt(w, i) == [hub EXCEPT !.cmds = Upd(@, i, Made(w, i))]

\* A record is saved: what becomes of the hub, and of what others did to it.
LEMMA SavedHub ==
  ASSUME DInv, NEW w \in Writers, adding[w].at = "claimed", NEW i, i = adding[w].id,
         NEW h, h = SavedAt(w, i)
  PROVE  /\ IsDevice(h) /\ h.place = hub.place /\ h.fields = hub.fields
         /\ h.cmds = Upd(hub.cmds, i, Made(w, i))
         /\ DOMAIN h.cmds = DOMAIN hub.cmds \cup {i}
         /\ IsDevice(Meanwhile(w, i)) /\ Meanwhile(w, i).fields = before.fields
         /\ w = "sync" => Meanwhile(w, i) = before
         /\ w = "service" => /\ Meanwhile(w, i).cmds = Upd(before.cmds, i, Made(w, i))
                             /\ DOMAIN Meanwhile(w, i).place = DOMAIN before.place \ {i}
         /\ DOMAIN Meanwhile(w, i).place \subseteq DOMAIN before.place
         /\ \A j \in DOMAIN Meanwhile(w, i).place : Meanwhile(w, i).place[j] = before.place[j]
<1> DEFINE r == Made(w, i)
           b == [before EXCEPT !.cmds = Upd(@, i, r), !.place = Without(@, i)]
<1>1. i \in Ids /\ r \in CmdRec /\ (w = "sync" \/ w = "service")
  BY Adders, MadeOf DEF DInv
<1> HIDE DEF r
<1>2. /\ DOMAIN hub = {"cmds", "place", "fields"} /\ Over(CmdRec, hub.cmds)
      /\ hub.fields \in [Fields -> Nat] /\ Over(Nat \ {0}, hub.place)
      /\ DOMAIN before = {"cmds", "place", "fields"} /\ Over(CmdRec, before.cmds)
      /\ before.fields \in [Fields -> Nat] /\ Over(Nat \ {0}, before.place)
  BY DEF DInv, Shape, HubOK, IsDevice
<1>3. h.cmds = Upd(hub.cmds, i, r) /\ h.place = hub.place /\ h.fields = hub.fields
      /\ DOMAIN h = DOMAIN hub
  BY <1>2 DEF r, SavedAt
<1>4. Over(CmdRec, Upd(hub.cmds, i, r)) /\ DOMAIN Upd(hub.cmds, i, r) = DOMAIN hub.cmds \cup {i}
  <2>1. Over(CmdRec, Upd(hub.cmds, i, r))
    BY <1>1, <1>2, UpdOver
  <2>2. DOMAIN Upd(hub.cmds, i, r) = DOMAIN hub.cmds \cup {i}
    BY DEF Upd
  <2> QED
    BY <2>1, <2>2
<1>5. Over(CmdRec, Upd(before.cmds, i, r)) /\ Over(Nat \ {0}, Without(before.place, i))
      /\ DOMAIN Without(before.place, i) = DOMAIN before.place \ {i}
      /\ \A j \in DOMAIN before.place \ {i} : Without(before.place, i)[j] = before.place[j]
  <2>1. Over(CmdRec, Upd(before.cmds, i, r)) /\ Over(Nat \ {0}, Without(before.place, i))
    BY <1>1, <1>2, UpdOver, WithoutOver
  <2>2. /\ DOMAIN Without(before.place, i) = DOMAIN before.place \ {i}
        /\ \A j \in DOMAIN before.place \ {i} : Without(before.place, i)[j] = before.place[j]
    BY DEF Without, Restrict
  <2> QED
    BY <2>1, <2>2
<1>6. /\ b.cmds = Upd(before.cmds, i, r) /\ b.place = Without(before.place, i)
      /\ b.fields = before.fields /\ DOMAIN b = DOMAIN before
  BY <1>2
<1>7. Meanwhile(w, i) = IF w = "sync" THEN before ELSE b
  BY DEF Meanwhile, r
<1> HIDE DEF b
<1>8. IsDevice(h) /\ IsDevice(b)
  BY <1>2, <1>3, <1>4, <1>5, <1>6 DEF IsDevice
<1>9. CASE w = "sync"
  BY <1>2, <1>3, <1>4, <1>7, <1>8, <1>9 DEF r, DInv, Shape, HubOK
<1>10. CASE w = "service"
  <2>1. Meanwhile(w, i) = b
    BY <1>7, <1>10
  <2>2. /\ DOMAIN b.place = DOMAIN before.place \ {i}
        /\ \A j \in DOMAIN b.place : b.place[j] = before.place[j]
    BY <1>5, <1>6
  <2> QED
    BY <1>3, <1>4, <1>6, <1>8, <1>10, <2>1, <2>2 DEF r
<1> QED
  BY <1>1, <1>9, <1>10

\* The plan goes on, or the sync was at this step and stops.
LEMMA PlanSaved ==
  ASSUME Shape, NEW w \in Writers, adding[w].at = "claimed",
         UNCHANGED <<blob, syncs, baseline, edited>>, NEW x, x \in Adder,
         adding'[w] = x, \A v \in Writers \ {w} : adding'[v] = adding[v],
         \/ UNCHANGED <<plan, status>> /\ (w = "sync" => x.at = "saved" /\ x.id = adding[w].id)
         \/ w = "sync" /\ Stops1 /\ x.at = "idle"
  PROVE  PlanOK'
<1>1. w = "sync" \/ w = "service"
  BY Adders
<1>2. CASE UNCHANGED <<plan, status>> /\ (w = "sync" => x.at = "saved" /\ x.id = adding[w].id)
  <2>1. Steps' = Steps
    BY StepsRest
  <2>2. plan' = plan /\ status' = status /\ blob' = blob /\ syncs' = syncs
    BY <1>2
  <2>3. adding'["sync"].at # "idle" => adding["sync"].at # "idle" /\ adding'["sync"].id = adding["sync"].id
    BY <1>1, <1>2 DEF Writers
  <2> QED
    BY <2>1, <2>2, <2>3 DEF Shape, PlanOK, Syncing
<1>3. CASE w = "sync" /\ Stops1 /\ x.at = "idle"
  <2>1. status = "running" /\ plan # << >> /\ blob' = << >> /\ adding'["sync"].at = "idle"
    BY <1>3, Adders
  <2> QED
    BY <1>3, <2>1, PlanGoes DEF Shape
<1> QED
  BY <1>2, <1>3

LEMMA SaveKeeps == ASSUME DInv, NEW w \in Writers, Save(w) PROVE DInv'
<1>1. PICK i, r : i = adding[w].id /\ r = Made(w, i)
  OBVIOUS
<1>2. PICK h : h = SavedAt(w, i)
  OBVIOUS
<1>3. adding[w].at = "claimed" /\ UNCHANGED <<events, baseline, edited, blob, syncs>>
  BY DEF Save
<1> DEFINE A == /\ hub' = h /\ before' = Meanwhile(w, i)
                /\ adding' = [adding EXCEPT ![w].at = "saved"]
                /\ cache' = IF adding[w].loose THEN cache ELSE [cache EXCEPT !.names = Upd(@, i, 1)]
                /\ odd' = odd \cup {k \in {"unheard"} : adding[w].loose}
                /\ UNCHANGED <<status, plan>>
           B == /\ (hub' = h /\ before' = Meanwhile(w, i)) \/ UNCHANGED <<hub, before>>
                /\ adding' = [adding EXCEPT ![w] = Ended(w)] /\ odd' = odd \cup {"unheard"}
                /\ cache' = cache
                /\ IF w = "sync" THEN Stops1 ELSE UNCHANGED <<status, plan>>
<1>4. A \/ B
  <2>1. UNCHANGED cache <=> cache' = cache
    OBVIOUS
  <2> QED
    BY <1>1, <1>2, <2>1 DEF Save, Trouble, Stops, Stops1, SavedAt
<1>5. /\ ~events /\ gone = {} /\ i \in Ids /\ (w = "sync" \/ w = "service")
      /\ w = "sync" => /\ status = "running" /\ plan # << >> /\ blob = << >>
                       /\ Head(plan) = StepOf("add", i) /\ i \in new
      /\ w = "service" => "foreign" \notin odd
  BY <1>1, <1>3, Adders DEF DInv
<1>6. /\ IsDevice(h) /\ h.place = hub.place /\ h.fields = hub.fields
      /\ h.cmds = Upd(hub.cmds, i, r)
      /\ DOMAIN h.cmds = DOMAIN hub.cmds \cup {i}
      /\ IsDevice(Meanwhile(w, i)) /\ Meanwhile(w, i).fields = before.fields
      /\ w = "sync" => Meanwhile(w, i) = before
      /\ w = "service" => /\ Meanwhile(w, i).cmds = Upd(before.cmds, i, r)
                          /\ DOMAIN Meanwhile(w, i).place = DOMAIN before.place \ {i}
      /\ DOMAIN Meanwhile(w, i).place \subseteq DOMAIN before.place
      /\ \A j \in DOMAIN Meanwhile(w, i).place : Meanwhile(w, i).place[j] = before.place[j]
  BY <1>1, <1>2, <1>3, SavedHub
<1>7. /\ HubOK'
      /\ hub'.place = hub.place /\ hub'.fields = hub.fields /\ before'.fields = before.fields
      /\ DOMAIN hub.cmds \subseteq DOMAIN hub'.cmds
      /\ DOMAIN hub'.cmds \subseteq DOMAIN hub.cmds \cup {i}
      /\ DOMAIN before'.place \subseteq DOMAIN before.place
      /\ \A j \in DOMAIN before'.place : before'.place[j] = before.place[j]
      /\ odd \subseteq odd' /\ ("foreign" \in odd' => "foreign" \in odd)
      /\ cache'.listed = cache.listed /\ cache'.place = cache.place /\ cache'.head = cache.head
      /\ CacheOK'
  <2>1. /\ DOMAIN cache = {"listed", "names", "place", "head"} /\ Over(Nat, cache.names)
    BY DEF DInv, Shape, CacheOK
  <2>2. PICK c : c = [cache EXCEPT !.names = Upd(cache.names, i, 1)]
    OBVIOUS
  <2>3. /\ c.names = Upd(cache.names, i, 1) /\ c.listed = cache.listed /\ c.place = cache.place
        /\ c.head = cache.head /\ DOMAIN c = DOMAIN cache
    BY <2>1, <2>2
  <2>4. Over(Nat, Upd(cache.names, i, 1))
    BY <1>5, <2>1, UpdOver
  <2>5. cache' = c \/ cache' = cache
    BY <1>4, <2>2
  <2>6. CacheOK' /\ cache'.listed = cache.listed /\ cache'.place = cache.place /\ cache'.head = cache.head
    BY <2>3, <2>4, <2>5 DEF DInv, Shape, CacheOK
  <2>7. (hub' = h /\ before' = Meanwhile(w, i)) \/ (hub' = hub /\ before' = before)
    BY <1>4
  <2>8. HubOK'
    BY <1>6, <2>7 DEF DInv, Shape, HubOK
  <2>9. odd \subseteq odd' /\ ("foreign" \in odd' => "foreign" \in odd)
    BY <1>4
  <2> HIDE DEF A, B
  <2> QED
    BY <1>6, <2>6, <2>7, <2>8, <2>9
<1>8. PICK x : /\ x \in Adder /\ adding' = [adding EXCEPT ![w] = x]
               /\ \/ A /\ x.at = "saved" /\ x.id = i
                  \/ B /\ x.id = 0 /\ ~x.loose /\ (w = "sync" => x.at = "idle") /\ x.at \in {"idle", "done"}
  <2>1. adding[w] \in Adder /\ 0 \in 0 .. MaxId
    BY DEF DInv, Bounded, Shape, AddingOK
  <2>2. CASE A
    <3>1. PICK x : x = [adding[w] EXCEPT !.at = "saved"]
      OBVIOUS
    <3>2. x \in Adder /\ x.at = "saved" /\ x.id = i
      BY <1>1, <2>1, <3>1 DEF Adder
    <3> QED
      BY <2>2, <3>1, <3>2
  <2>3. CASE B
    <3>1. PICK x : x = Ended(w)
      OBVIOUS
    <3>2. x \in Adder /\ x.id = 0 /\ x.loose = FALSE /\ (w = "sync" => x.at = "idle") /\ x.at \in {"idle", "done"}
      BY <1>5, <2>1, <3>1 DEF Adder, Ended, Idle
    <3> QED
      BY <2>3, <3>1, <3>2
  <2> QED
    BY <1>4, <2>2, <2>3
<1> HIDE DEF A, B
<1>9. AddingOK' /\ adding'[w] = x /\ \A v \in Writers \ {w} : adding'[v] = adding[v]
  <2>1. IF x.at \in {"claimed", "saved"} THEN x.id # 0 ELSE x.id = 0 /\ ~x.loose
    <3>1. i # 0
      BY <1>5 DEF Ids
    <3> QED
      BY <1>8, <3>1
  <2>2. w = "sync" => x.at \in {"idle", "claimed", "saved"}
    BY <1>8
  <2> QED
    BY <1>3, <1>7, <1>8, <2>1, <2>2, AddingSet DEF DInv, Shape
<1>10. EditorOK'
  BY <1>3, <1>7, EditorRests DEF DInv, Shape
<1>11. PlanOK'
  <2>1. \/ UNCHANGED <<plan, status>> /\ (w = "sync" => x.at = "saved" /\ x.id = adding[w].id)
        \/ w = "sync" /\ Stops1 /\ x.at = "idle"
    BY <1>1, <1>5, <1>8 DEF A, B
  <2> QED
    BY <1>3, <1>8, <1>9, <2>1, PlanSaved DEF DInv
<1>12. B => "unheard" \in odd'
  BY DEF B
<1>13. A => /\ hub' = h /\ before' = Meanwhile(w, i)
            /\ ("unheard" \notin odd' => DOMAIN cache'.names = DOMAIN cache.names \cup {i})
            /\ DOMAIN cache'.names \subseteq DOMAIN cache.names \cup {i}
            /\ status' = status /\ plan' = plan
  <2> SUFFICES ASSUME A PROVE /\ hub' = h /\ before' = Meanwhile(w, i)
            /\ ("unheard" \notin odd' => DOMAIN cache'.names = DOMAIN cache.names \cup {i})
            /\ DOMAIN cache'.names \subseteq DOMAIN cache.names \cup {i}
            /\ status' = status /\ plan' = plan
    OBVIOUS
  <2>1. PICK c : c = [cache EXCEPT !.names = Upd(cache.names, i, 1)]
    OBVIOUS
  <2>2. DOMAIN c.names = DOMAIN cache.names \cup {i}
    <3>1. c.names = Upd(cache.names, i, 1)
      BY <2>1 DEF DInv, Shape, CacheOK
    <3> QED
      BY <3>1 DEF Upd
  <2>3. cache' = IF adding[w].loose THEN cache ELSE c
    BY <2>1 DEF A
  <2>4. adding[w].loose => "unheard" \in odd'
    BY DEF A
  <2> QED
    BY <2>2, <2>3, <2>4 DEF A
<1>14. B => DOMAIN cache'.names = DOMAIN cache.names
  BY DEF B
<1>15. Places'
  <2>1. ListsOK'
    <3>1. DOMAIN hub.place \subseteq DOMAIN hub.cmds
      BY DEF DInv, Shape, HubOK
    <3>2. /\ DOMAIN cache.names \subseteq DOMAIN hub.cmds
          /\ DOMAIN cache.place \subseteq DOMAIN hub.cmds
          /\ DOMAIN before.place \subseteq DOMAIN hub.cmds
          /\ \A v \in Writers : adding[v].at = "saved" => adding[v].id \in DOMAIN hub.cmds
          /\ cache.listed /\ Free({"unheard"}) =>
                 \/ DOMAIN cache.names = DOMAIN hub.cmds
                 \/ "foreign" \in odd /\ status \in {"editing", "clearing", "success"}
      BY <1>5 DEF DInv, Places, ListsOK
    <3>3. \A v \in Writers : adding'[v].at = "saved" => adding'[v].id \in DOMAIN hub'.cmds
      <4>1. A => i \in DOMAIN hub'.cmds
        BY <1>6, <1>13
      <4> QED
        BY <1>7, <1>8, <1>9, <3>2, <4>1
    <3>4. DOMAIN cache'.names \subseteq DOMAIN hub'.cmds
      BY <1>6, <1>7, <1>8, <1>13, <1>14, <3>2
    <3>5. cache'.listed /\ Free({"unheard"})' =>
                 \/ DOMAIN cache'.names = DOMAIN hub'.cmds
                 \/ "foreign" \in odd' /\ status' \in {"editing", "clearing", "success"}
      <4> SUFFICES ASSUME cache'.listed, Free({"unheard"})'
                   PROVE  \/ DOMAIN cache'.names = DOMAIN hub'.cmds
                          \/ "foreign" \in odd' /\ status' \in {"editing", "clearing", "success"}
        OBVIOUS
      <4>1. "unheard" \notin odd' /\ A
        BY <1>8, <1>12 DEF Free
      <4>2. cache.listed /\ Free({"unheard"})
        BY <1>7 DEF Free
      <4> QED
        BY <1>6, <1>7, <1>13, <3>2, <4>1, <4>2
    <3> QED
      BY <1>7, <3>2, <3>3, <3>4, <3>5 DEF ListsOK
  <2>2. ClaimsOK'
    <3>1. Free({"twin"})' => Free({"twin"})
      BY <1>7 DEF Free
    <3>2. ~(x.at = "claimed")
      BY <1>8
    <3>3. ASSUME Free({"blind", "twin", "unheard"})', NEW v \in Writers, adding'[v].at = "claimed"
          PROVE  adding'[v].id \notin DOMAIN hub'.cmds
      <4>1. v # w /\ adding'[v] = adding[v]
        BY <1>9, <3>2, <3>3
      <4>2. Free({"blind", "twin", "unheard"}) /\ Free({"twin"})
        BY <1>7, <3>3 DEF Free
      <4>3. adding[v].id \notin DOMAIN hub.cmds
        BY <3>3, <4>1, <4>2 DEF DInv, Places, ClaimsOK
      <4>4. adding[v].id # i
        <5>1. ~(\A u \in Writers : adding[u].at = "claimed" /\ adding[u].id = adding["sync"].id)
          BY <4>2 DEF DInv, Places, ClaimsOK
        <5>2. \A u \in Writers : u = v \/ u = w
          BY <1>5, <4>1 DEF Writers
        <5> QED
          BY <1>1, <1>3, <1>5, <3>3, <4>1, <5>1, <5>2 DEF Writers
      <4> QED
        BY <1>7, <4>1, <4>3, <4>4
    <3>4. ~(\A v \in Writers : adding'[v].at = "claimed" /\ adding'[v].id = adding'["sync"].id)
      BY <1>9, <3>2
    <3> QED
      BY <3>3, <3>4 DEF ClaimsOK
  <2>3. PlacesOK'
    <3>1. Free({"blind", "unheard"})' => Free({"blind", "unheard"})
      BY <1>7 DEF Free
    <3>2. \A v \in Writers : adding'[v].at \in {"claimed", "saved"} =>
             adding[v].at \in {"claimed", "saved"} /\ adding'[v].id = adding[v].id
      BY <1>1, <1>3, <1>8, <1>9
    <3>3. ~(syncs' = 0 /\ adding'["service"].at = "idle")
      <4>1. CASE w = "sync"
        BY <1>3, <1>5, <4>1 DEF DInv, Shape, PlanOK
      <4>2. CASE w = "service"
        <5>1. B => x.at = "done"
          <6>1. B => adding' = [adding EXCEPT ![w] = Ended(w)]
            BY DEF B
          <6>2. w \in Writers /\ adding \in [Writers -> Adder]
            BY DEF DInv, Shape, AddingOK
          <6>3. Ended(w).at = "done"
            BY <4>2 DEF Ended, Idle
          <6> QED
            BY <1>9, <6>1, <6>2, <6>3
        <5> QED
          BY <1>8, <1>9, <4>2, <5>1
      <4> QED
        BY <1>5, <4>1, <4>2
    <3> QED
      BY <1>3, <1>7, <3>1, <3>2, <3>3 DEF DInv, Places, PlacesOK
  <2>4. BrowseKept'
    <3>1. CASE odd' \cap {"blind", "unheard"} = {}
      <4>1. Free({"blind", "unheard"}) /\ A
        BY <1>7, <1>8, <1>12, <3>1 DEF Free
      <4>2. i \notin DOMAIN before.place
        BY <1>1, <1>3, <4>1 DEF DInv, Places, PlacesOK
      <4> QED
        BY <1>7, <4>2, BrowseRests DEF DInv, Places
    <3>2. CASE odd' \cap {"blind", "unheard"} # {}
      BY <3>2 DEF BrowseKept
    <3> QED
      BY <3>1, <3>2
  <2> QED
    BY <2>1, <2>2, <2>3, <2>4 DEF Places
<1>16. Course'
  <2>0. /\ Steps' = Steps /\ gone' = gone /\ new' = new /\ both' = both /\ mine' = mine
        /\ named' = named /\ changed' = changed
    BY <1>3, StepsRest
  <2>1. CASE w = "sync" /\ B
    BY <1>3, <1>5, <2>1, CourseStops DEF DInv, Shape, Syncing, Stops1, B
  <2>2. CASE w = "service" \/ (A /\ x.at = "saved" /\ x.id = i)
    <3>1. plan' = plan /\ status' = status /\ edited' = edited /\ blob' = blob
      BY <1>3, <1>5, <1>8, <2>2 DEF A, B
    <3>2. \A S : Free(S)' => Free(S)
      BY <1>7 DEF Free
    <3>3. HeadOK'
      <4>1. HeadOf(hub)' = HeadOf(hub)
        BY <1>7 DEF HeadOf
      <4> QED
        BY <1>7, <3>1, <3>2, <4>1 DEF DInv, Course, HeadOK
    <3>4. \A k, j : ~(k = "add" /\ j = i) => (Pending(k, j)' <=> Pending(k, j))
      <4>1. \/ adding'["sync"] = adding["sync"]
            \/ adding["sync"].id = i /\ adding'["sync"].id = i /\ adding["sync"].at = "claimed"
        <5>1. CASE w = "service"
          BY <1>9, <5>1 DEF Writers
        <5>2. CASE w = "sync" /\ x.id = i
          BY <1>1, <1>3, <1>9, <5>2
        <5> QED
          BY <1>5, <2>2, <5>1, <5>2
      <4> QED
        BY <3>1, <4>1 DEF Pending
    <3>5. w = "service" => \A k, j : Pending(k, j)' <=> Pending(k, j)
      <4>1. w = "service" => adding'["sync"] = adding["sync"]
        BY <1>9 DEF Writers
      <4> QED
        BY <3>1, <4>1 DEF Pending
    <3>6. FieldsOK'
      <4>1. \A f : Pending("field", f)' <=> Pending("field", f)
        BY <3>4
      <4> QED
        BY <1>7, <2>0, <3>1, <3>2, <4>1 DEF DInv, Course, FieldsOK, Clean
    <3>7. Clean' \/ Free({"cut", "blind", "twin", "unheard"})' => A /\ i \notin DOMAIN hub.cmds
      <4>1. Clean' \/ Free({"cut", "blind", "twin", "unheard"})' =>
               "unheard" \notin odd' /\ Free({"blind", "twin", "unheard"})
        BY <1>7 DEF Clean, Free
      <4> QED
        BY <1>1, <1>3, <1>8, <1>12, <4>1 DEF DInv, Places, ClaimsOK
    <3>8. BlobOK'
      <4> SUFFICES ASSUME blob # << >>, Free({"cut", "blind", "twin", "unheard"})'
                   PROVE  Head(plan).at \in DOMAIN hub'.cmds /\ blob = <<hub'.cmds[Head(plan).at].data>>
        BY <3>1 DEF BlobOK
      <4>1. Head(plan).at \in DOMAIN hub.cmds /\ blob = <<hub.cmds[Head(plan).at].data>>
        BY <3>2 DEF DInv, Course, BlobOK
      <4>2. A /\ Head(plan).at # i
        BY <3>7, <4>1
      <4>3. hub'.cmds = Upd(hub.cmds, i, r)
        BY <1>6, <1>13, <4>2
      <4>4. hub'.cmds[Head(plan).at] = hub.cmds[Head(plan).at] /\ Head(plan).at \in DOMAIN hub'.cmds
        BY <4>1, <4>2, <4>3 DEF Upd
      <4> QED
        BY <4>1, <4>4
    <3>9. Rest'
      <4> SUFFICES ASSUME status \in {"editing", "failed"}, Clean', Steps = {}
                   PROVE  hub'.cmds = before'.cmds /\ hub'.fields = before'.fields
        BY <2>0, <3>1 DEF Rest
      <4>1. hub.cmds = before.cmds /\ hub.fields = before.fields
        BY <3>2 DEF DInv, Course, Rest, Clean
      <4>2. A /\ w = "service"
        BY <1>5, <3>7
      <4> QED
        BY <1>6, <1>7, <1>13, <4>1, <4>2
    <3>10. CmdsOK'
      <4> SUFFICES ASSUME status \in {"running", "success"}, Clean'
                   PROVE  CmdsOK'
        BY <3>1 DEF CmdsOK
      <4>1. A /\ i \notin DOMAIN hub.cmds
        BY <3>7
      <4>2. /\ hub'.cmds = Upd(hub.cmds, i, r) /\ DOMAIN hub'.cmds = DOMAIN hub.cmds \cup {i}
            /\ hub'.cmds[i] = r
            /\ \A j \in DOMAIN hub.cmds : hub'.cmds[j] = hub.cmds[j]
        BY <1>6, <1>13, <4>1 DEF Upd
      <4>3. /\ DOMAIN hub.cmds = (DOMAIN before.cmds \ {j \in gone : ~Pending("delete", j)})
                                    \cup {j \in new : ~Pending("add", j)}
            /\ \A j \in DOMAIN hub.cmds :
                  hub.cmds[j] = IF \/ j \in new /\ ~Pending("add", j)
                                   \/ j \in mine /\ ~Pending("payload", j)
                                THEN Record(edited.cmds[j].name, Payload("user", j))
                                ELSE IF j \in named /\ ~Pending("fetch", j)
                                THEN Record(edited.cmds[j].name, before.cmds[j].data)
                                ELSE before.cmds[j]
        BY <3>2 DEF DInv, Course, CmdsOK, Clean
      <4>4. /\ DOMAIN hub'.cmds = (DOMAIN before'.cmds \ {j \in gone : ~Pending("delete", j)'})
                                    \cup {j \in new : ~Pending("add", j)'}
            /\ \A j \in DOMAIN hub'.cmds :
                  hub'.cmds[j] = IF \/ j \in new /\ ~Pending("add", j)'
                                    \/ j \in mine /\ ~Pending("payload", j)'
                                 THEN Record(edited.cmds[j].name, Payload("user", j))
                                 ELSE IF j \in named /\ ~Pending("fetch", j)'
                                 THEN Record(edited.cmds[j].name, before'.cmds[j].data)
                                 ELSE before'.cmds[j]
        <5>1. CASE w = "sync"
          <6>1. before' = before /\ i \in new /\ r = Record(edited.cmds[i].name, Payload("user", i))
            BY <1>1, <1>5, <1>6, <1>13, <4>1, <5>1 DEF Made
          <6>2. PICK k : k = i
            OBVIOUS
          <6>3. ~Pending("add", k)'
            <7>1. adding'["sync"].at = "saved" /\ adding'["sync"].id = k
              BY <1>9, <2>2, <5>1, <6>2
            <7> QED
              BY <7>1 DEF Pending
          <6>4. \A j : /\ Pending("delete", j)' <=> Pending("delete", j)
                       /\ j # k => (Pending("add", j)' <=> Pending("add", j))
                       /\ Pending("payload", j)' <=> Pending("payload", j)
                       /\ Pending("fetch", j)' <=> Pending("fetch", j)
            BY <3>4, <6>2
          <6>5. \A j \in DOMAIN hub.cmds : j # k
            BY <4>1, <6>2
          <6>6. DOMAIN hub'.cmds = (DOMAIN before'.cmds \ {j \in gone : ~Pending("delete", j)'})
                                    \cup {j \in new : ~Pending("add", j)'}
            BY <4>2, <4>3, <6>1, <6>2, <6>3, <6>4, <6>5
          <6> QED
            BY <4>2, <4>3, <6>1, <6>2, <6>3, <6>4, <6>5, <6>6
        <5>2. CASE w = "service"
          <6>1. before'.cmds = Upd(before.cmds, i, r)
            BY <1>6, <1>13, <4>1, <5>2
          <6>2. /\ DOMAIN before'.cmds = DOMAIN before.cmds \cup {i} /\ before'.cmds[i] = r
                /\ \A j \in DOMAIN before.cmds \ {i} : before'.cmds[j] = before.cmds[j]
            BY <6>1 DEF Upd
          <6>3. gone = {}
            BY <1>5
          <6>4. i \notin both /\ i \notin mine /\ i \notin named
            BY <4>1 DEF DInv, Shape, EditorOK, mine, named
          <6>5. ~(i \in new /\ ~Pending("add", i))
            BY <4>1, <4>3
          <6>6. \A j : /\ Pending("delete", j)' <=> Pending("delete", j)
                       /\ Pending("add", j)' <=> Pending("add", j)
                       /\ Pending("payload", j)' <=> Pending("payload", j)
                       /\ Pending("fetch", j)' <=> Pending("fetch", j)
            BY <3>5, <5>2
          <6>7. DOMAIN hub'.cmds = (DOMAIN before'.cmds \ {j \in gone : ~Pending("delete", j)'})
                                    \cup {j \in new : ~Pending("add", j)'}
            BY <4>2, <4>3, <6>2, <6>3, <6>6
          <6>8. hub'.cmds[i] = IF \/ i \in new /\ ~Pending("add", i)'
                                  \/ i \in mine /\ ~Pending("payload", i)'
                               THEN Record(edited.cmds[i].name, Payload("user", i))
                               ELSE IF i \in named /\ ~Pending("fetch", i)'
                               THEN Record(edited.cmds[i].name, before'.cmds[i].data)
                               ELSE before'.cmds[i]
            BY <4>2, <6>2, <6>4, <6>5, <6>6
          <6>9. \A j \in DOMAIN hub.cmds : j \in DOMAIN before.cmds \ {i} \/ (j \in new /\ ~Pending("add", j))
            BY <4>1, <4>3
          <6>10. \A j \in DOMAIN hub.cmds :
                  hub'.cmds[j] = IF \/ j \in new /\ ~Pending("add", j)'
                                    \/ j \in mine /\ ~Pending("payload", j)'
                                 THEN Record(edited.cmds[j].name, Payload("user", j))
                                 ELSE IF j \in named /\ ~Pending("fetch", j)'
                                 THEN Record(edited.cmds[j].name, before'.cmds[j].data)
                                 ELSE before'.cmds[j]
            BY <4>2, <4>3, <6>2, <6>6, <6>9
          <6> QED
            BY <4>2, <6>7, <6>8, <6>10
        <5> QED
          BY <1>5, <5>1, <5>2
      <4> QED
        BY <2>0, <3>1, <4>4 DEF CmdsOK
    <3> QED
      BY <3>3, <3>6, <3>8, <3>9, <3>10 DEF Course
  <2> QED
    BY <1>5, <1>8, <2>1, <2>2
<1> QED
  BY <1>7, <1>9, <1>10, <1>11, <1>15, <1>16, BoundedStays DEF DInv, Shape

-----------------------------------------------------------------------------
(* The display order.                                                       *)

\* The last place of a table is a number.
LEMMA LastPlace ==
  ASSUME Bounded, NEW place, Over(Nat, place), NEW P \in SUBSET DOMAIN place
  PROVE  Max({0} \cup {place[j] : j \in P}) \in Nat
<1> DEFINE under(n, N) == \A j \in DOMAIN place : j <= n => place[j] <= N
           S == {n \in 0 .. MaxId : \E N \in Nat : under(n, N)}
<1>1. MaxId \in Nat /\ DOMAIN place \subseteq 1 .. MaxId /\ \A j \in DOMAIN place : place[j] \in Nat
  BY DEF Bounded, Over, Ids
<1>2. 0 \in S
  <2>1. under(0, 0)
    BY <1>1
  <2> HIDE DEF under
  <2> QED
    BY <1>1, <2>1
<1>3. ASSUME NEW n \in 1 .. MaxId, n - 1 \in S PROVE n \in S
  <2>1. PICK N \in Nat : under(n - 1, N)
    BY <1>3
  <2>2. PICK M : M = IF n \in DOMAIN place /\ place[n] > N THEN place[n] ELSE N
    OBVIOUS
  <2>3. M \in Nat /\ M >= N /\ (n \in DOMAIN place => place[n] <= M)
    BY <1>1, <2>2
  <2>4. under(n, M)
    <3> SUFFICES ASSUME NEW j \in DOMAIN place, j <= n PROVE place[j] <= M
      OBVIOUS
    <3>1. CASE j = n
      BY <2>3, <3>1
    <3>2. CASE j # n
      <4>1. j <= n - 1 /\ place[j] \in Nat
        BY <1>1, <3>2
      <4>2. place[j] <= N
        BY <2>1, <4>1
      <4> QED
        BY <2>3, <4>1, <4>2
    <3> QED
      BY <3>1, <3>2
  <2> HIDE DEF under
  <2>5. n \in 0 .. MaxId
    BY <1>1
  <2> QED
    BY <2>3, <2>4, <2>5
<1>4. S \in SUBSET (0 .. MaxId)
  OBVIOUS
<1> HIDE DEF S, under
<1>5. S = 0 .. MaxId
  BY <1>1, <1>2, <1>3, <1>4, InductUpTo
<1>6. PICK N \in Nat : under(MaxId, N)
  <2>1. MaxId \in S
    BY <1>1, <1>5
  <2> QED
    BY <2>1 DEF S
<1> DEFINE V == {0} \cup {place[j] : j \in P}
<1>7. V \in SUBSET (0 .. N) /\ V # {}
  <2>1. \A j \in P : place[j] \in 0 .. N
    <3> SUFFICES ASSUME NEW j \in P PROVE place[j] \in 0 .. N
      OBVIOUS
    <3>1. j \in DOMAIN place /\ j <= MaxId /\ place[j] \in Nat
      BY <1>1
    <3> QED
      BY <1>6, <3>1 DEF under
  <2> QED
    BY <1>6, <2>1
<1> HIDE DEF V
<1>8. \E n \in V : \A m \in V : n >= m
  BY <1>6, <1>7, GreatestOf
<1>9. Max(V) \in V
  BY <1>8 DEF Max
<1> QED
  BY <1>7, <1>9 DEF V

Keeps(t, known, place, i) ==
  /\ Over(Nat \ {0}, t) /\ DOMAIN t = known \cup {i}
  /\ \A j \in known \ {i} : j \in DOMAIN place /\ place[j] > 0 => t[j] = place[j]

LEMMA TableOver ==
  ASSUME Bounded, NEW place, Over(Nat, place), NEW known \in SUBSET Ids, NEW i \in Ids
  PROVE  Keeps(Table(known, place, i), known, place, i)
<1>0. PICK t : t = Table(known, place, i)
  OBVIOUS
<1> DEFINE placed == {j \in known \ {i} : Place(place, j) > 0}
           others == known \ (placed \cup {i})
           last   == Max({0} \cup {place[j] : j \in placed})
           upto(j) == {k \in others : k <= j}
<1>1. t = [j \in known \cup {i} |->
             IF j \in placed THEN place[j]
             ELSE IF j = i THEN last + Cardinality(others) + 1
             ELSE last + Cardinality(upto(j))]
  BY <1>0 DEF Table
<1>2. \A j \in placed : j \in DOMAIN place /\ place[j] \in Nat \ {0}
  BY DEF Place, Over
<1>3. last \in Nat
  <2>1. placed \in SUBSET DOMAIN place
    BY <1>2
  <2> HIDE DEF placed
  <2> QED
    BY <2>1, LastPlace
<1>4. IsFiniteSet(others) /\ Cardinality(others) \in Nat
  <2>1. IsFiniteSet(1 .. MaxId)
    BY FS_Interval DEF Bounded
  <2>2. others \subseteq 1 .. MaxId
    BY DEF Ids
  <2>3. IsFiniteSet(others)
    BY <2>1, <2>2, FS_Subset
  <2> QED
    BY <2>3, FS_CardinalityType
<1>5. ASSUME NEW j \in others PROVE Cardinality(upto(j)) \in Nat \ {0}
  <2>1. upto(j) \subseteq others /\ j \in upto(j)
    <3>1. j \in 1 .. MaxId
      BY DEF Ids
    <3> QED
      BY <3>1
  <2> HIDE DEF upto, others
  <2>2. IsFiniteSet(upto(j)) /\ Cardinality(upto(j)) \in Nat
    BY <1>4, <2>1, FS_Subset, FS_CardinalityType
  <2>3. Cardinality(upto(j)) # 0
    BY <2>1, <2>2, FS_EmptySet
  <2> QED
    BY <2>2, <2>3
<1>6. \A j \in known \ {i} : j \in DOMAIN place /\ place[j] > 0 => j \in placed
  BY DEF Place
<1>7. \A j \in known \cup {i} : j \in placed \/ j = i \/ j \in others
  OBVIOUS
<1>8. i \notin placed
  OBVIOUS
<1> HIDE DEF placed, others, last, upto
<1>9. \A j \in known \cup {i} : t[j] \in Nat \ {0}
  BY <1>1, <1>2, <1>3, <1>4, <1>5, <1>7
<1>10. DOMAIN t = known \cup {i} /\ t = [j \in known \cup {i} |-> t[j]]
  BY <1>1
<1>11. Over(Nat \ {0}, t)
  <2>1. known \cup {i} \subseteq Ids
    OBVIOUS
  <2>2. t \in [known \cup {i} -> Nat \ {0}]
    BY <1>9, <1>10
  <2> QED
    BY <1>10, <2>1, <2>2 DEF Over
<1>12. \A j \in known \ {i} : j \in DOMAIN place /\ place[j] > 0 => t[j] = place[j]
  BY <1>1, <1>6
<1> QED
  BY <1>0, <1>10, <1>11, <1>12 DEF Keeps

LEMMA RegisterKeeps == ASSUME DInv, NEW w \in Writers, Register(w) PROVE DInv'
<1>1. PICK i : i = adding[w].id
  OBVIOUS
<1>2. PICK known : known = DOMAIN cache.names \cup DOMAIN cache.place
  OBVIOUS
<1>3. PICK t : t = Table(known, cache.place, i)
  OBVIOUS
<1>4. /\ adding[w].at = "saved"
      /\ UNCHANGED <<events, baseline, edited, status, blob, syncs, before>>
      /\ odd' = odd \cup {k \in {"blind"} : ~cache.listed}
      /\ adding' = [adding EXCEPT ![w] = Ended(w)]
      /\ plan' = IF w = "sync" THEN Tail(plan) ELSE plan
      /\ \/ /\ hub' = [hub EXCEPT !.place = t]
            /\ cache' = [cache EXCEPT !.place = Upd(@, i, t[i])]
         \/ hub' \in {hub, [hub EXCEPT !.place = t]} /\ UNCHANGED cache
  BY <1>1, <1>2, <1>3 DEF Register
<1>5. /\ ~events /\ gone = {} /\ i \in Ids /\ (w = "sync" \/ w = "service")
      /\ w = "sync" => /\ status = "running" /\ plan # << >> /\ blob = << >>
                       /\ Head(plan) = StepOf("add", i) /\ i \in new
      /\ w = "service" => "foreign" \notin odd
  BY <1>1, <1>4, Adders DEF DInv
<1>6. /\ DOMAIN hub = {"cmds", "place", "fields"} /\ Over(CmdRec, hub.cmds)
      /\ hub.fields \in [Fields -> Nat] /\ Over(Nat \ {0}, hub.place)
      /\ DOMAIN cache = {"listed", "names", "place", "head"} /\ Over(Nat, cache.names)
      /\ Over(Nat, cache.place)
      /\ DOMAIN hub.place \subseteq DOMAIN hub.cmds
  BY DEF DInv, Shape, HubOK, IsDevice, CacheOK
<1>7. /\ DOMAIN cache.names \subseteq DOMAIN hub.cmds /\ DOMAIN cache.place \subseteq DOMAIN hub.cmds
      /\ i \in DOMAIN hub.cmds /\ DOMAIN before.place \subseteq DOMAIN hub.cmds
  BY <1>1, <1>4, <1>5 DEF DInv, Places, ListsOK
<1>8. /\ Over(Nat \ {0}, t) /\ DOMAIN t = known \cup {i}
      /\ \A j \in known \ {i} : j \in DOMAIN cache.place /\ cache.place[j] > 0 => t[j] = cache.place[j]
  <2>1. known \in SUBSET Ids
    BY <1>2, <1>6 DEF Over
  <2>2. PICK place : place = cache.place
    OBVIOUS
  <2>3. Over(Nat, place) /\ t = Table(known, place, i)
    BY <1>3, <1>6, <2>2
  <2>4. /\ Over(Nat \ {0}, t) /\ DOMAIN t = known \cup {i}
        /\ \A j \in known \ {i} : j \in DOMAIN place /\ place[j] > 0 => t[j] = place[j]
    <3>1. Bounded /\ i \in Ids
      BY <1>5 DEF DInv
    <3>2. Keeps(t, known, place, i)
      BY <2>1, <2>3, <3>1, TableOver
    <3> QED
      BY <3>2 DEF Keeps
  <2> QED
    BY <2>2, <2>4
<1>9. PICK h : /\ h.place = t /\ h.cmds = hub.cmds /\ h.fields = hub.fields /\ DOMAIN h = DOMAIN hub
               /\ h = [hub EXCEPT !.place = t]
  <2>1. PICK h : h = [hub EXCEPT !.place = t]
    OBVIOUS
  <2> QED
    BY <1>6, <2>1
<1>10. PICK c : /\ c.place = Upd(cache.place, i, t[i]) /\ c.names = cache.names
                /\ c.listed = cache.listed /\ c.head = cache.head /\ DOMAIN c = DOMAIN cache
                /\ c = [cache EXCEPT !.place = Upd(@, i, t[i])]
  <2>1. PICK c : c = [cache EXCEPT !.place = Upd(@, i, t[i])]
    OBVIOUS
  <2> QED
    BY <1>6, <2>1
<1>11. /\ hub' = h \/ hub' = hub
       /\ (cache' = c /\ hub' = h) \/ cache' = cache
  BY <1>4, <1>9, <1>10
<1>12. /\ Over(Nat, c.place) /\ DOMAIN c.place = DOMAIN cache.place \cup {i} /\ c.place[i] = t[i]
       /\ \A j \in DOMAIN cache.place \ {i} : c.place[j] = cache.place[j]
  <2>1. t[i] \in Nat
    BY <1>8 DEF Over
  <2>2. Over(Nat, Upd(cache.place, i, t[i]))
    BY <1>5, <1>6, <2>1, UpdOver
  <2> QED
    BY <1>10, <2>2 DEF Upd
<1>13. /\ hub'.cmds = hub.cmds /\ hub'.fields = hub.fields /\ HubOK'
       /\ cache'.names = cache.names /\ cache'.listed = cache.listed /\ cache'.head = cache.head
       /\ CacheOK' /\ DOMAIN cache'.place \subseteq DOMAIN cache.place \cup {i}
  <2>1. DOMAIN t \subseteq DOMAIN hub.cmds
    BY <1>2, <1>7, <1>8
  <2>2. HubOK'
    BY <1>4, <1>6, <1>8, <1>9, <1>11, <2>1 DEF DInv, Shape, HubOK, IsDevice
  <2>3. CacheOK'
    BY <1>10, <1>11, <1>12 DEF DInv, Shape, CacheOK
  <2> QED
    BY <1>9, <1>10, <1>11, <1>12, <2>2, <2>3
<1>14. /\ odd \subseteq odd' /\ ("foreign" \in odd' => "foreign" \in odd)
       /\ "blind" \notin odd' => cache.listed
  BY <1>4
<1>15. PICK x \in Adder : /\ x = Ended(w) /\ x.id = 0 /\ x.loose = FALSE /\ x.at \in {"idle", "done"}
                          /\ (w = "sync" <=> x.at = "idle")
  <2>1. PICK x : x = Ended(w)
    OBVIOUS
  <2>2. 0 \in 0 .. MaxId
    BY DEF DInv, Bounded
  <2>3. CASE w = "sync"
    <3>1. x = [at |-> "idle", id |-> 0, loose |-> FALSE]
      BY <2>1, <2>3 DEF Ended, Idle
    <3>2. x.id = 0 /\ x.loose = FALSE /\ x.at = "idle" /\ x \in Adder
      BY <2>2, <3>1 DEF Adder
    <3> QED
      BY <2>1, <2>3, <3>2
  <2>4. CASE w = "service"
    <3>1. x = [at |-> "done", id |-> 0, loose |-> FALSE]
      BY <2>1, <2>4 DEF Ended, Idle
    <3>2. x.id = 0 /\ x.loose = FALSE /\ x.at = "done" /\ x \in Adder
      BY <2>2, <3>1 DEF Adder
    <3> QED
      BY <2>1, <2>4, <3>2
  <2> QED
    BY <1>5, <2>3, <2>4
<1>16. AddingOK' /\ adding'[w] = x /\ \A v \in Writers \ {w} : adding'[v] = adding[v]
  BY <1>4, <1>14, <1>15, AddingSet DEF DInv, Shape
<1>17. EditorOK'
  BY <1>4, <1>13, EditorRests DEF DInv, Shape
<1>18. PlanOK'
  <2>1. CASE w = "sync"
    <3>1. Goes1 /\ adding'["sync"].at = "idle" /\ blob' = << >>
      BY <1>4, <1>5, <1>15, <1>16, <2>1 DEF Goes1
    <3> QED
      BY <1>4, <1>5, <2>1, <3>1, PlanGoes DEF DInv, Shape
  <2>2. CASE w = "service"
    <3>1. SameTurn /\ plan' = plan
      BY <1>4, <1>16, <2>2 DEF SameTurn, Writers
    <3> QED
      BY <1>4, <3>1, PlanRests DEF DInv, Shape
  <2> QED
    BY <1>5, <2>1, <2>2
<1>19. \A v \in Writers : adding'[v].at \in {"claimed", "saved"} =>
          /\ v # w /\ adding[v].at = adding'[v].at /\ adding'[v].id = adding[v].id
  BY <1>15, <1>16
<1>20. ASSUME Free({"blind", "unheard"})', NEW j \in DOMAIN before.place
       PROVE  /\ j \in DOMAIN hub.place /\ j \in DOMAIN hub'.place /\ j \in DOMAIN cache'.place
              /\ hub'.place[j] = hub.place[j] /\ cache'.place[j] = hub'.place[j]
  <2>1. Free({"blind", "unheard"}) /\ cache.listed
    BY <1>14, <1>20 DEF Free
  <2>2. j \in DOMAIN hub.place /\ j \in DOMAIN cache.place /\ cache.place[j] = hub.place[j]
    BY <1>5, <2>1 DEF DInv, Places, PlacesOK
  <2>3. i # j
    BY <1>1, <1>4, <2>1 DEF DInv, Places, PlacesOK
  <2>4. j \in known \ {i} /\ cache.place[j] > 0
    <3>1. hub.place[j] \in Nat \ {0}
      BY <1>6, <2>2 DEF Over
    <3> QED
      BY <1>2, <2>2, <2>3, <3>1
  <2>5. t[j] = hub.place[j] /\ j \in DOMAIN t
    BY <1>8, <2>2, <2>4
  <2>6. j \in DOMAIN c.place /\ c.place[j] = hub.place[j]
    BY <1>12, <2>2, <2>3
  <2>7. j \in DOMAIN hub'.place /\ hub'.place[j] = hub.place[j]
    BY <1>9, <1>11, <2>2, <2>5
  <2>8. j \in DOMAIN cache'.place /\ cache'.place[j] = hub.place[j]
    BY <1>11, <2>2, <2>6
  <2> QED
    BY <2>2, <2>7, <2>8
<1>21. Places'
  <2>1. ListsOK'
    <3>1. /\ cache.listed /\ Free({"unheard"}) =>
                 \/ DOMAIN cache.names = DOMAIN hub.cmds
                 \/ "foreign" \in odd /\ status \in {"editing", "clearing", "success"}
          /\ \A v \in Writers : adding[v].at = "saved" => adding[v].id \in DOMAIN hub.cmds
      BY <1>5 DEF DInv, Places, ListsOK
    <3>2. Free({"unheard"})' => Free({"unheard"})
      BY <1>14 DEF Free
    <3>3. /\ DOMAIN cache'.names \subseteq DOMAIN hub'.cmds
          /\ DOMAIN cache'.place \subseteq DOMAIN hub'.cmds
          /\ DOMAIN before'.place \subseteq DOMAIN hub'.cmds
      BY <1>4, <1>7, <1>13
    <3>4. \A v \in Writers : adding'[v].at = "saved" => adding'[v].id \in DOMAIN hub'.cmds
      BY <1>13, <1>19, <3>1
    <3>5. cache'.listed /\ Free({"unheard"})' =>
                 \/ DOMAIN cache'.names = DOMAIN hub'.cmds
                 \/ "foreign" \in odd' /\ status' \in {"editing", "clearing", "success"}
      BY <1>4, <1>13, <1>14, <3>1, <3>2
    <3> QED
      BY <3>3, <3>4, <3>5 DEF ListsOK
  <2>2. ClaimsOK'
    <3>1. \A v \in Writers : adding'[v].at = "claimed" =>
             adding[v].at = "claimed" /\ adding'[v].id = adding[v].id
      BY <1>19
    <3> QED
      BY <1>13, <1>14, <3>1, ClaimsRest DEF DInv, Places
  <2>3. PlacesOK'
    <3>1. Free({"blind", "unheard"})' => Free({"blind", "unheard"})
      BY <1>14 DEF Free
    <3>2. ~(syncs' = 0 /\ adding'["service"].at = "idle")
      <4>1. CASE w = "sync"
        BY <1>4, <1>5, <4>1 DEF DInv, Shape, PlanOK
      <4>2. CASE w = "service"
        BY <1>15, <1>16, <4>2
      <4> QED
        BY <1>5, <4>1, <4>2
    <3>3. Free({"blind", "unheard"})' =>
            \A v \in Writers : adding'[v].at \in {"claimed", "saved"} => adding'[v].id \notin DOMAIN before'.place
      BY <1>4, <1>19, <3>1 DEF DInv, Places, PlacesOK
    <3> QED
      BY <1>4, <1>20, <3>2, <3>3 DEF PlacesOK
  <2>4. BrowseKept'
    <3>1. CASE Free({"blind", "unheard"})'
      BY <1>4, <1>13, <1>14, <1>20, <3>1, BrowseRests DEF DInv, Places
    <3>2. CASE ~Free({"blind", "unheard"})'
      BY <3>2 DEF BrowseKept, Free
    <3> QED
      BY <3>1, <3>2
  <2> QED
    BY <2>1, <2>2, <2>3, <2>4 DEF Places
<1>22. Course'
  <2>1. CASE w = "service"
    <3>1. SameTurn /\ plan' = plan
      BY <1>4, <1>16, <2>1 DEF SameTurn, Writers
    <3> QED
      BY <1>4, <1>13, <1>14, <3>1, CourseRests DEF DInv
  <2>2. CASE w = "sync"
    <3>0. /\ Steps' = Steps /\ gone' = gone /\ new' = new /\ both' = both /\ mine' = mine
          /\ named' = named /\ changed' = changed
      BY <1>4, StepsRest
    <3>1. /\ plan' = Tail(plan) /\ status' = status /\ edited' = edited /\ before' = before
          /\ blob' = << >> /\ \A S : Free(S)' => Free(S)
      BY <1>4, <1>5, <1>14, <2>2 DEF Free
    <3>2. \A k, j : Pending(k, j)' <=> Pending(k, j)
      <4>1. adding'["sync"].at = "idle" /\ adding["sync"].at = "saved" /\ adding["sync"].id = i
        BY <1>1, <1>4, <1>15, <1>16, <2>2
      <4>2. Range(Tail(plan)) = Range(plan) \ {StepOf("add", i)} /\ StepOf("add", i) \in Range(plan)
        BY <1>5, <2>2, Turned DEF DInv, Shape
      <4> QED
        BY <3>1, <4>1, <4>2, StepsDiffer DEF Pending
    <3>3. BlobOK' /\ Rest'
      BY <1>5, <2>2, <3>1 DEF BlobOK, Rest
    <3>4. HeadOK'
      <4>1. HeadOf(hub)' = HeadOf(hub)
        BY <1>13 DEF HeadOf
      <4> QED
        BY <1>13, <3>1, <4>1 DEF DInv, Course, HeadOK
    <3>5. FieldsOK'
      BY <1>13, <3>0, <3>1, <3>2 DEF DInv, Course, FieldsOK, Clean
    <3>6. CmdsOK'
      BY <1>13, <3>0, <3>1, <3>2 DEF DInv, Course, CmdsOK, Clean
    <3> QED
      BY <3>3, <3>4, <3>5, <3>6 DEF Course
  <2> QED
    BY <1>5, <2>1, <2>2
<1> QED
  BY <1>13, <1>16, <1>17, <1>18, <1>21, <1>22, BoundedStays DEF DInv, Shape

-----------------------------------------------------------------------------
(* The editor.                                                              *)

\* The lowest free id is free.
LEMMA LowestFreeIsFree ==
  ASSUME Bounded, NEW S, Ids \ S # {}
  PROVE  LowestFree(S) \in Ids \ S
<1>1. Ids \ S \in SUBSET Nat
  BY DEF Ids, Bounded
<1>2. \E i \in Ids \ S : \A j \in Ids \ S : i <= j
  BY <1>1, LeastOf
<1> QED
  BY <1>2 DEF LowestFree

\* An edit changes what is there, takes a command out, or puts one in.
Alters(e) ==
  /\ DOMAIN e.cmds = DOMAIN edited.cmds
  /\ \A j \in DOMAIN e.cmds :
       /\ e.cmds[j].name \in {edited.cmds[j].name, 1}
       /\ e.cmds[j].is = edited.cmds[j].is \/ (edited.cmds[j].is = "same" /\ e.cmds[j].is = "mine")
  /\ \A f \in Fields : e.fields[f] \in {edited.fields[f], 1}
Drops(e) ==
  /\ events /\ e.fields = edited.fields
  /\ \E i \in DOMAIN edited.cmds : DOMAIN e.cmds = DOMAIN edited.cmds \ {i}
  /\ \A j \in DOMAIN e.cmds : e.cmds[j] = edited.cmds[j]
Puts(e) ==
  /\ ~events /\ e.fields = edited.fields
  /\ \E i \in Ids \ DOMAIN edited.cmds :
       /\ DOMAIN e.cmds = DOMAIN edited.cmds \cup {i} /\ e.cmds[i] = [name |-> 1, is |-> "new"]
       /\ \A j \in DOMAIN edited.cmds : e.cmds[j] = edited.cmds[j]
IsCopy(e) ==
  DOMAIN e = {"cmds", "fields"} /\ Over(EditRec, e.cmds) /\ e.fields \in [Fields -> Nat]

LEMMA Changed ==
  ASSUME NEW f, NEW S, f \in [S -> EditRec], S \subseteq Ids, NEW i \in S, NEW r \in EditRec
  PROVE  /\ [f EXCEPT ![i] = r] \in [S -> EditRec] /\ DOMAIN [f EXCEPT ![i] = r] = S
         /\ [f EXCEPT ![i] = r][i] = r /\ \A j \in S \ {i} : [f EXCEPT ![i] = r][j] = f[j]
OBVIOUS

LEMMA EditsAre ==
  ASSUME EditorOK, NEW e \in Edits(edited)
  PROVE  IsCopy(e) /\ (Alters(e) \/ Drops(e) \/ Puts(e))
<1>1. /\ DOMAIN edited = {"cmds", "fields"} /\ Over(EditRec, edited.cmds)
      /\ edited.fields \in [Fields -> Nat]
      /\ DOMAIN edited.cmds \subseteq Ids /\ edited.cmds \in [DOMAIN edited.cmds -> EditRec]
  BY DEF EditorOK, Over
<1>2. \A j \in DOMAIN edited.cmds : /\ edited.cmds[j] \in EditRec /\ DOMAIN edited.cmds[j] = {"name", "is"}
                                    /\ edited.cmds[j].is \in {"same", "mine", "new"}
                                    /\ edited.cmds[j].name \in Nat
  BY <1>1 DEF EditRec
<1>3. ASSUME NEW i \in DOMAIN edited.cmds, NEW r \in EditRec,
             r.name \in {edited.cmds[i].name, 1},
             r.is = edited.cmds[i].is \/ (edited.cmds[i].is = "same" /\ r.is = "mine"),
             DOMAIN e = DOMAIN edited, e.fields = edited.fields,
             e.cmds = [edited.cmds EXCEPT ![i] = r]
      PROVE  IsCopy(e) /\ Alters(e)
  <2>1. /\ e.cmds \in [DOMAIN edited.cmds -> EditRec] /\ DOMAIN e.cmds = DOMAIN edited.cmds
        /\ e.cmds[i] = r /\ \A j \in DOMAIN edited.cmds \ {i} : e.cmds[j] = edited.cmds[j]
    BY <1>1, <1>3
  <2>2. IsCopy(e)
    BY <1>1, <1>3, <2>1 DEF IsCopy, Over
  <2>3. \A j \in DOMAIN e.cmds :
           /\ e.cmds[j].name \in {edited.cmds[j].name, 1}
           /\ e.cmds[j].is = edited.cmds[j].is \/ (edited.cmds[j].is = "same" /\ e.cmds[j].is = "mine")
    BY <1>3, <2>1
  <2> QED
    BY <1>3, <2>1, <2>2, <2>3 DEF Alters
<1>4. ASSUME NEW i \in DOMAIN edited.cmds, e = [edited EXCEPT !.cmds[i].name = 1]
      PROVE  IsCopy(e) /\ Alters(e)
  <2>1. PICK r : r = [edited.cmds[i] EXCEPT !.name = 1]
    OBVIOUS
  <2>2. r \in EditRec /\ r.name = 1 /\ r.is = edited.cmds[i].is
    BY <1>2, <2>1 DEF EditRec
  <2>3. DOMAIN e = DOMAIN edited /\ e.fields = edited.fields /\ e.cmds = [edited.cmds EXCEPT ![i] = r]
    BY <1>1, <1>4, <2>1
  <2> QED
    BY <1>3, <2>2, <2>3
<1>5. ASSUME NEW i \in DOMAIN edited.cmds, edited.cmds[i].is = "same",
             e = [edited EXCEPT !.cmds[i].is = "mine"]
      PROVE  IsCopy(e) /\ Alters(e)
  <2>1. PICK r : r = [edited.cmds[i] EXCEPT !.is = "mine"]
    OBVIOUS
  <2>2. r \in EditRec /\ r.name = edited.cmds[i].name /\ r.is = "mine"
    BY <1>2, <2>1 DEF EditRec
  <2>3. DOMAIN e = DOMAIN edited /\ e.fields = edited.fields /\ e.cmds = [edited.cmds EXCEPT ![i] = r]
    BY <1>1, <1>5, <2>1
  <2> QED
    BY <1>3, <1>5, <2>2, <2>3
<1>6. ASSUME NEW f \in Fields, e = [edited EXCEPT !.fields[f] = 1]
      PROVE  IsCopy(e) /\ Alters(e)
  <2>1. DOMAIN e = DOMAIN edited /\ e.cmds = edited.cmds /\ e.fields = [edited.fields EXCEPT ![f] = 1]
    BY <1>1, <1>6
  <2>2. e.fields \in [Fields -> Nat] /\ \A g \in Fields : e.fields[g] \in {edited.fields[g], 1}
    BY <1>1, <2>1
  <2> QED
    BY <1>1, <2>1, <2>2 DEF IsCopy, Alters
<1>7. ASSUME NEW i \in DOMAIN edited.cmds, events, e = [edited EXCEPT !.cmds = Without(@, i)]
      PROVE  IsCopy(e) /\ Drops(e)
  <2>1. DOMAIN e = DOMAIN edited /\ e.fields = edited.fields /\ e.cmds = Without(edited.cmds, i)
    BY <1>1, <1>7
  <2>2. Over(EditRec, e.cmds)
    BY <1>1, <2>1, WithoutOver
  <2>3. /\ DOMAIN e.cmds = DOMAIN edited.cmds \ {i}
        /\ \A j \in DOMAIN e.cmds : e.cmds[j] = edited.cmds[j]
    BY <2>1 DEF Without, Restrict
  <2> QED
    BY <1>1, <1>7, <2>1, <2>2, <2>3 DEF IsCopy, Drops
<1>8. ASSUME NEW i \in Ids \ DOMAIN edited.cmds, ~events,
             e = [edited EXCEPT !.cmds = Upd(@, i, [name |-> 1, is |-> "new"])]
      PROVE  IsCopy(e) /\ Puts(e)
  <2>1. PICK r : r = [name |-> 1, is |-> "new"]
    OBVIOUS
  <2>2. DOMAIN e = DOMAIN edited /\ e.fields = edited.fields /\ e.cmds = Upd(edited.cmds, i, r)
    BY <1>1, <1>8, <2>1
  <2>3. r \in EditRec /\ i \in Ids
    BY <2>1 DEF EditRec
  <2>4. Over(EditRec, e.cmds)
    BY <1>1, <2>2, <2>3, UpdOver
  <2>5. /\ DOMAIN e.cmds = DOMAIN edited.cmds \cup {i} /\ e.cmds[i] = r
        /\ \A j \in DOMAIN edited.cmds : e.cmds[j] = edited.cmds[j]
    BY <2>2 DEF Upd
  <2> QED
    BY <1>1, <1>8, <2>1, <2>2, <2>4, <2>5 DEF IsCopy, Puts
<1>9. \/ \E i \in DOMAIN edited.cmds : e = [edited EXCEPT !.cmds[i].name = 1]
      \/ \E i \in DOMAIN edited.cmds : edited.cmds[i].is = "same" /\ e = [edited EXCEPT !.cmds[i].is = "mine"]
      \/ \E f \in Fields : e = [edited EXCEPT !.fields[f] = 1]
      \/ \E i \in DOMAIN edited.cmds : events /\ e = [edited EXCEPT !.cmds = Without(@, i)]
      \/ \E i \in Ids \ DOMAIN edited.cmds :
            ~events /\ e = [edited EXCEPT !.cmds = Upd(@, i, [name |-> 1, is |-> "new"])]
  BY DEF Edits
<1> QED
  BY <1>4, <1>5, <1>6, <1>7, <1>8, <1>9

LEMMA EditKeeps == ASSUME DInv, Edit PROVE DInv'
<1>1. /\ UNCHANGED <<events, hub, cache, baseline, plan, blob, adding, syncs, before, odd>>
      /\ status \in {"editing", "failed"} /\ status' = "editing"
      /\ edited' \in Edits(edited)
  BY DEF Edit, Syncing, DInv, Shape, PlanOK
<1>2. IsCopy(edited') /\ (Alters(edited') \/ Drops(edited') \/ Puts(edited'))
  BY <1>1, EditsAre DEF DInv, Shape
<1>3. /\ \A i \in DOMAIN edited.cmds : edited.cmds[i].is = "new" <=> i \in new
      /\ \A i \in both : edited.cmds[i].name \in {baseline.names[i], 1}
      /\ \A f \in Fields : edited.fields[f] \in {baseline.fields[f], 1}
      /\ IF events THEN new = {} ELSE gone = {}
      /\ both \subseteq DOMAIN hub.cmds
  BY DEF DInv, Shape, EditorOK
<1>4. /\ \A i \in DOMAIN edited'.cmds : edited'.cmds[i].is = "new" <=> i \in new'
      /\ \A i \in both' : edited'.cmds[i].name \in {baseline.names[i], 1}
      /\ \A f \in Fields : edited'.fields[f] \in {baseline.fields[f], 1}
      /\ IF events THEN new' = {} ELSE gone' = {}
      /\ both' \subseteq DOMAIN hub.cmds
      /\ new' = {} /\ mine' = {} /\ named' = {} /\ changed' = {} /\ gone' = {}
            => new = {} /\ mine = {} /\ named = {} /\ changed = {} /\ gone = {}
  <2>0. /\ gone' = DOMAIN baseline.names \ DOMAIN edited'.cmds
        /\ new' = DOMAIN edited'.cmds \ DOMAIN baseline.names
        /\ both' = DOMAIN edited'.cmds \cap DOMAIN baseline.names
        /\ mine' = {i \in both' : edited'.cmds[i].is = "mine"}
        /\ named' = {i \in both' \ mine' : edited'.cmds[i].name # baseline.names[i]}
        /\ changed' = {f \in Fields : edited'.fields[f] # baseline.fields[f]}
    BY <1>1 DEF gone, new, both, mine, named, changed
  <2>1. CASE Alters(edited')
    <3>1. gone' = gone /\ new' = new /\ both' = both
      BY <2>0, <2>1 DEF Alters, gone, new, both
    <3>2. \A i \in DOMAIN edited'.cmds : edited'.cmds[i].is = "new" <=> i \in new'
      BY <1>3, <2>1, <3>1 DEF Alters
    <3>3. /\ \A i \in both' : edited'.cmds[i].name \in {baseline.names[i], 1}
          /\ \A f \in Fields : edited'.fields[f] \in {baseline.fields[f], 1}
      <4>1. \A i \in both : i \in DOMAIN edited'.cmds
        BY <2>1 DEF Alters, both
      <4>2. \A i \in both : edited'.cmds[i].name \in {edited.cmds[i].name, 1}
        BY <2>1, <4>1 DEF Alters
      <4>3. \A f \in Fields : edited'.fields[f] \in {edited.fields[f], 1}
        BY <2>1 DEF Alters
      <4> QED
        BY <1>3, <3>1, <4>2, <4>3
    <3>4. ASSUME mine' = {} PROVE mine = {}
      BY <2>0, <2>1, <3>1, <3>4 DEF Alters, mine, both
    <3>5. ASSUME named' = {}, mine' = {} PROVE named = {}
      <4> SUFFICES ASSUME NEW i \in both, edited.cmds[i].name # baseline.names[i] PROVE FALSE
        BY DEF named
      <4>1. edited.cmds[i].name = 1
        BY <1>3
      <4>2. edited'.cmds[i].name = 1
        BY <2>1, <4>1 DEF Alters, both
      <4>3. i \in both' /\ i \notin mine'
        BY <3>1, <3>5
      <4>4. i \in named'
        BY <2>0, <4>1, <4>2, <4>3
      <4> QED
        BY <3>5, <4>4
    <3>6. ASSUME changed' = {} PROVE changed = {}
      <4> SUFFICES ASSUME NEW f \in Fields, edited.fields[f] # baseline.fields[f] PROVE FALSE
        BY DEF changed
      <4>1. edited'.fields[f] # baseline.fields[f]
        BY <1>3, <2>1 DEF Alters
      <4> QED
        BY <2>0, <3>6, <4>1
    <3> QED
      BY <1>3, <3>1, <3>2, <3>3, <3>4, <3>5, <3>6
  <2>2. CASE Drops(edited')
    <3>1. PICK i \in DOMAIN edited.cmds : DOMAIN edited'.cmds = DOMAIN edited.cmds \ {i}
      BY <2>2 DEF Drops
    <3>2. events /\ new = {} /\ i \in DOMAIN baseline.names
      BY <1>3, <2>2 DEF Drops, new
    <3>3. gone' # {} /\ new' = {} /\ both' \subseteq both
      BY <2>0, <3>1, <3>2 DEF new, both
    <3>4. \A j \in DOMAIN edited'.cmds : edited'.cmds[j] = edited.cmds[j] /\ j \in DOMAIN edited.cmds
      BY <2>2, <3>1 DEF Drops
    <3> QED
      BY <1>3, <2>2, <3>2, <3>3, <3>4, <2>0 DEF Drops, both
  <2>3. CASE Puts(edited')
    <3>1. PICK i \in Ids \ DOMAIN edited.cmds :
             /\ DOMAIN edited'.cmds = DOMAIN edited.cmds \cup {i}
             /\ edited'.cmds[i] = [name |-> 1, is |-> "new"]
             /\ \A j \in DOMAIN edited.cmds : edited'.cmds[j] = edited.cmds[j]
      BY <2>3 DEF Puts
    <3>2. ~events /\ gone = {} /\ i \notin DOMAIN baseline.names
      BY <1>3, <2>3 DEF Puts, gone
    <3>3. gone' = {} /\ new' = new \cup {i} /\ both' = both
      BY <2>0, <3>1, <3>2 DEF new, both, gone
    <3>4. edited'.cmds[i].is = "new"
      BY <3>1
    <3>5. \A j \in both : j \in DOMAIN edited.cmds
      BY DEF both
    <3> QED
      BY <1>3, <2>3, <3>1, <3>2, <3>3, <3>4, <3>5 DEF Puts
  <2> QED
    BY <1>2, <2>1, <2>2, <2>3
<1>5. HubOK' /\ CacheOK'
  BY <1>1 DEF DInv, Shape, HubOK, CacheOK
<1>6. EditorOK'
  <2>1. /\ events' \in BOOLEAN /\ syncs' \in Nat /\ DOMAIN baseline' = {"names", "fields"}
        /\ Over(Nat, baseline'.names) /\ baseline'.fields \in [Fields -> Nat]
        /\ baseline' = baseline /\ events' = events /\ hub' = hub
    BY <1>1 DEF DInv, Shape, EditorOK
  <2> QED
    BY <1>2, <1>4, <2>1 DEF EditorOK, IsCopy
<1>7. AddingOK'
  BY <1>1, AddingRests DEF DInv, Shape
<1>8. plan = << >> /\ blob = << >> /\ adding["sync"].at = "idle"
  BY <1>1 DEF DInv, Shape, PlanOK, Syncing
<1>9. PlanOK'
  BY <1>1, <1>8 DEF PlanOK, Syncing
<1>10. Places'
  BY <1>1, PlacesKept DEF DInv, Shape, SameLists
<1>11. Course'
  <2>1. Rest'
    <3> SUFFICES ASSUME Clean', Steps' = {} PROVE hub'.cmds = before'.cmds /\ hub'.fields = before'.fields
      BY DEF Rest
    <3>1. new' = {} /\ mine' = {} /\ named' = {} /\ changed' = {} /\ gone' = {}
      BY NoStepsThen
    <3>2. Steps = {}
      BY <1>4, <3>1, NoSteps
    <3>3. Clean
      BY <1>1 DEF Clean, Free
    <3> QED
      BY <1>1, <3>2, <3>3 DEF DInv, Course, Rest
  <2> QED
    BY <1>1, <1>8, <2>1 DEF Course, BlobOK, HeadOK, FieldsOK, CmdsOK
<1> QED
  BY <1>5, <1>6, <1>7, <1>9, <1>10, <1>11, BoundedStays DEF DInv, Shape

-----------------------------------------------------------------------------
(* Others at the hub, and a sync up to its first step.                      *)

LEMMA ForeignKeeps == ASSUME DInv, Foreign PROVE DInv'
<1>1. /\ ~Syncing /\ status # "success" /\ syncs = 0 /\ before' = hub' /\ hub' \in Others(hub)
      /\ adding["service"] = Idle /\ odd' = odd \cup {"foreign"}
      /\ UNCHANGED <<events, cache, baseline, edited, status, plan, blob, adding, syncs>>
  BY DEF Foreign, Undisturbed
<1>2. status = "editing" /\ adding["sync"].at = "idle" /\ blob = << >>
  BY <1>1 DEF DInv, Shape, PlanOK
<1>3. /\ DOMAIN hub = {"cmds", "place", "fields"} /\ Over(CmdRec, hub.cmds)
      /\ hub.fields \in [Fields -> Nat] /\ Over(Nat \ {0}, hub.place)
      /\ DOMAIN hub.place \subseteq DOMAIN hub.cmds /\ MaxId \in Nat \ {0}
  BY DEF DInv, Bounded, Shape, HubOK, IsDevice
<1>4. IsDevice(hub') /\ hub'.place = hub.place /\ DOMAIN hub.cmds \subseteq DOMAIN hub'.cmds
  <2>1. \/ \E i \in {1, MaxId} : hub' = [hub EXCEPT !.cmds = Upd(@, i, Record(2, Payload("other", i)))]
        \/ \E f \in {"ip", "keys"} : hub' = [hub EXCEPT !.fields[f] = 2]
    BY <1>1 DEF Others
  <2>2. ASSUME NEW i \in {1, MaxId},
               hub' = [hub EXCEPT !.cmds = Upd(@, i, Record(2, Payload("other", i)))]
        PROVE  IsDevice(hub') /\ hub'.place = hub.place /\ DOMAIN hub.cmds \subseteq DOMAIN hub'.cmds
    <3>1. PICK r : r = Record(2, Payload("other", i))
      OBVIOUS
    <3>2. i \in Ids
      BY <1>3 DEF Ids
    <3>3. r \in CmdRec
      <4>1. Payload("other", i) \in [by : Makers, of : Ids]
        BY <3>2 DEF Payload, Makers
      <4> QED
        BY <3>1, <4>1 DEF Record, CmdRec
    <3>4. /\ hub'.cmds = Upd(hub.cmds, i, r) /\ hub'.place = hub.place /\ hub'.fields = hub.fields
          /\ DOMAIN hub' = DOMAIN hub
      BY <1>3, <2>2, <3>1
    <3>5. Over(CmdRec, Upd(hub.cmds, i, r))
      BY <1>3, <3>2, <3>3, UpdOver
    <3>6. DOMAIN hub'.cmds = DOMAIN hub.cmds \cup {i}
      BY <3>4 DEF Upd
    <3> QED
      BY <1>3, <3>4, <3>5, <3>6 DEF IsDevice
  <2>3. ASSUME NEW f \in {"ip", "keys"}, hub' = [hub EXCEPT !.fields[f] = 2]
        PROVE  IsDevice(hub') /\ hub'.place = hub.place /\ DOMAIN hub.cmds \subseteq DOMAIN hub'.cmds
    <3>1. /\ hub'.cmds = hub.cmds /\ hub'.place = hub.place /\ DOMAIN hub' = DOMAIN hub
          /\ hub'.fields = [hub.fields EXCEPT ![f] = 2]
      BY <1>3, <2>3
    <3>2. hub'.fields \in [Fields -> Nat]
      <4>1. f \in Fields
        BY DEF Fields, HeadFields
      <4> QED
        BY <1>3, <3>1, <4>1
    <3> QED
      BY <1>3, <3>1, <3>2 DEF IsDevice
  <2> QED
    BY <2>1, <2>2, <2>3
<1>5. HubOK' /\ CacheOK'
  BY <1>1, <1>3, <1>4 DEF DInv, Shape, HubOK, CacheOK
<1>6. EditorOK'
  BY <1>1, <1>4, EditorRests DEF DInv, Shape
<1>7. AddingOK'
  <2>1. adding' = adding /\ events' = events
    BY <1>1
  <2>2. adding["service"].at = "idle"
    BY <1>1 DEF Idle
  <2> QED
    BY <2>1, <2>2 DEF DInv, Shape, AddingOK
<1>8. PlanOK'
  BY <1>1, PlanRests DEF DInv, Shape, SameTurn
<1>9. Places'
  <2>0. adding' = adding /\ adding["service"].at = "idle" /\ adding["sync"].at = "idle"
    BY <1>1, <1>2 DEF Idle
  <2>1. \A v \in Writers : adding'[v].at = "idle"
    BY <2>0 DEF Writers
  <2>2. ListsOK'
    BY <1>1, <1>2, <1>3, <1>4, <2>1 DEF DInv, Places, ListsOK
  <2>3. ClaimsOK'
    BY <2>1 DEF ClaimsOK, Writers
  <2>4. PlacesOK'
    <3>1. hub.place = before.place
      BY <1>1, <2>0 DEF DInv, Places, PlacesOK
    <3>2. Free({"blind", "unheard"})' => Free({"blind", "unheard"})
      BY <1>1 DEF Free
    <3>3. hub'.place = before.place /\ before'.place = before.place
      BY <1>1, <1>4, <3>1
    <3> QED
      BY <1>1, <2>1, <3>1, <3>2, <3>3 DEF DInv, Places, PlacesOK
  <2>5. BrowseKept'
    <3>1. \A j \in DOMAIN hub'.place : hub'.place[j] \in Nat
      BY <1>4 DEF IsDevice, Over
    <3> QED
      BY <1>1, <3>1 DEF BrowseKept
  <2> QED
    BY <2>2, <2>3, <2>4, <2>5 DEF Places
<1>10. Course'
  BY <1>1, <1>2 DEF Course, BlobOK, Rest, HeadOK, FieldsOK, CmdsOK
<1> QED
  BY <1>5, <1>6, <1>7, <1>8, <1>9, <1>10, BoundedStays DEF DInv, Shape

LEMMA RequestKeeps == ASSUME DInv, RequestSync PROVE DInv'
<1>1. /\ UNCHANGED <<events, hub, cache, baseline, edited, adding, before, odd>>
      /\ status \in {"editing", "failed"} /\ syncs' = syncs + 1 /\ plan' = Plan(baseline, edited)
      /\ status' = (IF plan' = << >> THEN "success" ELSE "clearing")
      /\ blob' = << >>
  BY DEF RequestSync
<1>2. adding["sync"].at = "idle" /\ syncs \in Nat
  BY <1>1 DEF DInv, Shape, PlanOK, EditorOK
<1>3. Lists(plan', Steps)
  BY <1>1, PlanLists DEF DInv, Bounded, Shape, EditorOK, Over
<1>4. plan' = << >> => Steps = {}
  BY <1>3 DEF Lists, Range
<1>5. Steps' = Steps
  BY <1>1, StepsRest
<1>6. HubOK' /\ CacheOK'
  BY <1>1 DEF DInv, Shape, HubOK, CacheOK
<1>7. EditorOK'
  BY <1>1, EditorRests DEF DInv, Shape
<1>8. AddingOK'
  BY <1>1, AddingRests DEF DInv, Shape
<1>9. PlanOK'
  <2>1. plan' # << >> => Steps # {}
    <3>1. plan' \in Seq(Steps) /\ Range(plan') = Steps
      BY <1>3 DEF Lists
    <3>2. plan' # << >> => Head(plan') \in Steps
      BY <3>1
    <3> QED
      BY <3>2
  <2>2. syncs' # 0 /\ adding'["sync"].at = "idle"
    BY <1>1, <1>2
  <2> QED
    BY <1>1, <1>3, <1>5, <2>1, <2>2 DEF PlanOK, Lists, Syncing
<1>10. Places'
  <2>1. ListsOK'
    BY <1>1, ListsRest DEF DInv, Places, SameLists
  <2>2. ClaimsOK'
    BY <1>1, ClaimsRest DEF DInv, Places
  <2>3. PlacesOK'
    <3>1. syncs' # 0
      BY <1>1, <1>2
    <3> QED
      BY <1>1, <3>1, PlacesRest DEF DInv, Places, SameLists
  <2>4. BrowseKept'
    BY <1>1, BrowseRests DEF DInv, Places
  <2> QED
    BY <2>1, <2>2, <2>3, <2>4 DEF Places
<1>11. Course'
  <2>1. CASE plan' # << >>
    BY <1>1, <2>1 DEF Course, BlobOK, Rest, HeadOK, FieldsOK, CmdsOK
  <2>2. CASE plan' = << >>
    <3>1. status' = "success" /\ Steps = {}
      BY <1>1, <1>4, <2>2
    <3>2. new = {} /\ mine = {} /\ named = {} /\ changed = {} /\ gone = {}
      BY <3>1, NoSteps
    <3>3. new' = {} /\ mine' = {} /\ named' = {} /\ changed' = {} /\ gone' = {}
      BY <1>1, <3>2, StepsRest
    <3>4. Clean' => hub.cmds = before.cmds /\ hub.fields = before.fields
      <4>1. Clean' => Clean
        BY <1>1 DEF Clean, Free
      <4> QED
        BY <1>1, <3>1, <4>1 DEF DInv, Course, Rest
    <3>5. hub' = hub /\ before' = before
      BY <1>1
    <3> QED
      BY <1>1, <3>1, <3>3, <3>4, <3>5 DEF Course, BlobOK, Rest, HeadOK, FieldsOK, CmdsOK
  <2> QED
    BY <2>1, <2>2
<1> QED
  BY <1>6, <1>7, <1>8, <1>9, <1>10, <1>11, BoundedStays DEF DInv, Shape

LEMMA Loosened ==
  ASSUME AddingOK, adding' = LooseAdds, events' = events, "foreign" \in odd' => "foreign" \in odd
  PROVE  AddingOK' /\ \A w \in Writers : adding'[w].at = adding[w].at /\ adding'[w].id = adding[w].id
<1>1. \A w \in Writers : adding[w] \in Adder
  BY DEF AddingOK
<1>2. adding' = [w \in Writers |-> [adding[w] EXCEPT !.loose = adding[w].at = "claimed"]]
  BY DEF LooseAdds
<1>3. ASSUME NEW w \in Writers
      PROVE  /\ adding'[w] \in Adder
             /\ adding'[w].at = adding[w].at /\ adding'[w].id = adding[w].id
             /\ adding'[w].loose = (adding[w].at = "claimed")
  <2>1. PICK x : x = [adding[w] EXCEPT !.loose = adding[w].at = "claimed"]
    OBVIOUS
  <2>2. x \in Adder /\ x.at = adding[w].at /\ x.id = adding[w].id /\ x.loose = (adding[w].at = "claimed")
    BY <1>1, <2>1 DEF Adder
  <2> QED
    BY <1>2, <2>1, <2>2
<1>4. adding' \in [Writers -> Adder]
  BY <1>2, <1>3
<1>5. "sync" \in Writers /\ "service" \in Writers
  BY DEF Writers
<1>6. \A w \in Writers : IF adding'[w].at \in {"claimed", "saved"} THEN adding'[w].id # 0
                         ELSE adding'[w].id = 0 /\ ~adding'[w].loose
  BY <1>3 DEF AddingOK
<1> QED
  BY <1>3, <1>4, <1>5, <1>6 DEF AddingOK

\* After a read of the lists, or when they are not there.
LEMMA ReadLists ==
  ASSUME ListsOK, events' = events, DOMAIN hub'.cmds = DOMAIN hub.cmds,
         DOMAIN before'.place \subseteq DOMAIN hub'.cmds,
         \A w \in Writers : adding'[w].at = "saved" => adding[w].at = "saved" /\ adding'[w].id = adding[w].id,
         \/ DOMAIN cache'.names = DOMAIN hub.cmds /\ DOMAIN cache'.place = DOMAIN hub.cmds
         \/ cache'.listed = FALSE /\ DOMAIN cache'.names = {} /\ DOMAIN cache'.place = {}
  PROVE  ListsOK'
<1>1. ~events => \A w \in Writers : adding'[w].at = "saved" => adding'[w].id \in DOMAIN hub'.cmds
  BY DEF ListsOK
<1> QED
  BY <1>1 DEF ListsOK

LEMMA ClearedOver ==
  ASSUME CacheOK, NEW head \in [HeadFields -> Nat]
  PROVE  LET c == [Cleared(cache) EXCEPT !.head = head]
         IN /\ DOMAIN c = {"listed", "names", "place", "head"} /\ c.listed = FALSE
            /\ Over(Nat, c.names) /\ Over(Nat, c.place) /\ c.head = head
            /\ DOMAIN c.names = {} /\ DOMAIN c.place = {}
<1>1. DOMAIN << >> = {} /\ << >> \in [{} -> Nat]
  OBVIOUS
<1>2. Over(Nat, << >>)
  BY <1>1 DEF Over
<1> QED
  BY <1>1, <1>2 DEF CacheOK, Cleared

LEMMA ClearKeeps == ASSUME DInv, ClearForSync PROVE DInv'
<1>1. /\ status = "clearing" /\ status' = "reading" /\ adding' = LooseAdds
      /\ UNCHANGED <<events, hub, baseline, edited, plan, blob, syncs, before>>
      /\ \/ cache' = [Cleared(cache) EXCEPT !.head = HeadOf(hub)] /\ odd' = odd
         \/ cache' = Cleared(cache) /\ odd' = odd \cup {"deaf"}
  BY DEF ClearForSync, Calm, Trouble
<1>2. odd \subseteq odd' /\ ("foreign" \in odd' => "foreign" \in odd)
  BY <1>1
<1>3. CacheOK /\ HeadOf(hub) \in [HeadFields -> Nat] /\ cache.head \in [HeadFields -> Nat]
  BY HeadOver DEF DInv, Shape, HubOK, IsDevice, CacheOK
<1>4. PICK head \in [HeadFields -> Nat] :
         /\ cache' = [Cleared(cache) EXCEPT !.head = head]
         /\ head = HeadOf(hub) \/ "deaf" \in odd'
  <2>1. [Cleared(cache) EXCEPT !.head = cache.head] = Cleared(cache)
    BY <1>3 DEF Cleared, CacheOK
  <2> QED
    BY <1>1, <1>3, <2>1
<1>5. /\ CacheOK' /\ cache'.listed = FALSE /\ cache'.head = head
      /\ DOMAIN cache'.names = {} /\ DOMAIN cache'.place = {}
  BY <1>3, <1>4, ClearedOver DEF CacheOK
<1>6. AddingOK' /\ \A w \in Writers : adding'[w].at = adding[w].at /\ adding'[w].id = adding[w].id
  BY <1>1, <1>2, Loosened DEF DInv, Shape
<1>7. HubOK'
  BY <1>1 DEF DInv, Shape, HubOK
<1>8. EditorOK'
  BY <1>1, EditorRests DEF DInv, Shape
<1>9. adding'["sync"].at = "idle" /\ adding["sync"].at = "idle" /\ blob = << >> /\ syncs # 0
  BY <1>1, <1>6 DEF DInv, Shape, PlanOK, Writers
<1>10. PlanOK'
  <2>1. Steps' = Steps /\ plan' = plan /\ blob' = blob /\ syncs' = syncs
    BY <1>1, StepsRest
  <2> QED
    BY <1>1, <1>9, <2>1 DEF DInv, Shape, PlanOK, Syncing
<1>11. Places'
  <2>1. ListsOK'
    <3>1. ~events => DOMAIN before.place \subseteq DOMAIN hub.cmds
      BY DEF DInv, Places, ListsOK
    <3>2. CASE ~events
      BY <1>1, <1>5, <1>6, <3>1, <3>2, ReadLists DEF DInv, Places
    <3>3. CASE events
      BY <1>1, <3>3 DEF ListsOK
    <3> QED
      BY <3>2, <3>3
  <2>2. ClaimsOK'
    BY <1>1, <1>2, <1>6, ClaimsRest DEF DInv, Places
  <2>3. PlacesOK'
    <3>1. Free({"blind", "unheard"})' => Free({"blind", "unheard"})
      BY <1>2 DEF Free
    <3> QED
      BY <1>1, <1>5, <1>6, <1>9, <3>1 DEF DInv, Places, PlacesOK
  <2>4. BrowseKept'
    BY <1>1, <1>2, BrowseRests DEF DInv, Places
  <2> QED
    BY <2>1, <2>2, <2>3, <2>4 DEF Places
<1>12. Course'
  <2>1. HeadOK'
    <3>1. Free({"deaf"})' => head = HeadOf(hub)
      BY <1>4 DEF Free
    <3>2. HeadOf(hub)' = HeadOf(hub)
      BY <1>1 DEF HeadOf
    <3> QED
      BY <1>5, <3>1, <3>2 DEF HeadOK
  <2> QED
    BY <1>1, <1>9, <2>1 DEF Course, BlobOK, Rest, FieldsOK, CmdsOK
<1> QED
  BY <1>5, <1>6, <1>7, <1>8, <1>10, <1>11, <1>12, BoundedStays DEF DInv, Shape

LEMMA ReadKeeps == ASSUME DInv, ReadForSync PROVE DInv'
<1>1. /\ status = "reading" /\ UNCHANGED <<events, hub, baseline, edited, blob, adding, syncs>>
      /\ plan' = IF status' = "failed" THEN << >> ELSE plan
      /\ \/ /\ cache' = Listed(hub, cache.head) /\ odd' = odd /\ before' = AsFound(hub)
            /\ status' = "failed" \/ status' = "running"
         \/ /\ cache' = cache /\ before' = before /\ odd' = odd \cup {"deaf"} /\ status' = "running"
  BY DEF ReadForSync, Calm, Trouble
<1>2. odd \subseteq odd' /\ ("foreign" \in odd' => "foreign" \in odd)
  BY <1>1
<1>3. /\ blob = << >> /\ adding["sync"].at = "idle" /\ syncs # 0 /\ plan # << >> /\ Range(plan) = Steps
  BY <1>1 DEF DInv, Shape, PlanOK
<1>4. Steps' = Steps
  BY <1>1, StepsRest
<1>5. EditorOK'
  BY <1>1, EditorRests DEF DInv, Shape
<1>6. AddingOK'
  BY <1>1, <1>2, AddingRests DEF DInv, Shape
<1>7. PlanOK'
  <2>1. CASE status' = "failed"
    <3>1. plan' = << >> /\ << >> \in Seq(Steps) /\ DOMAIN << >> = {}
      BY <1>1, <2>1
    <3> QED
      BY <1>1, <1>3, <1>4, <2>1, <3>1 DEF DInv, Shape, PlanOK, Syncing
  <2>2. CASE status' = "running"
    <3>1. plan' = plan /\ blob' = blob /\ adding' = adding /\ syncs' = syncs
      BY <1>1, <2>2
    <3> QED
      BY <1>1, <1>3, <1>4, <2>2, <3>1 DEF DInv, Shape, PlanOK, Syncing
  <2> QED
    BY <1>1, <2>1, <2>2
<1>8. CASE cache' = cache /\ before' = before /\ odd' = odd \cup {"deaf"} /\ status' = "running"
  <2>1. HubOK' /\ CacheOK'
    BY <1>1, <1>8 DEF DInv, Shape, HubOK, CacheOK
  <2>2. Places'
    BY <1>1, <1>2, <1>8, PlacesKept DEF DInv, Shape, SameLists
  <2>3. Course'
    <3>1. ~Free({"deaf"})' /\ ~Clean'
      BY <1>8 DEF Free, Clean
    <3> QED
      BY <1>1, <1>3, <3>1 DEF Course, BlobOK, Rest, HeadOK, FieldsOK, CmdsOK
  <2> QED
    BY <1>5, <1>6, <1>7, <2>1, <2>2, <2>3, BoundedStays DEF DInv, Shape
<1>9. CASE /\ cache' = Listed(hub, cache.head) /\ odd' = odd /\ before' = AsFound(hub)
           /\ status' = "failed" \/ status' = "running"
  <2>1. /\ IsDevice(before') /\ before'.cmds = hub.cmds /\ before'.fields = hub.fields
        /\ DOMAIN before'.place \subseteq DOMAIN hub.place
        /\ \A i \in DOMAIN before'.place : /\ before'.place[i] = hub.place[i]
                                           /\ \A w \in Writers : adding[w].id # i
    BY <1>9, AsFoundOver DEF DInv, Shape
  <2>2. /\ CacheOK' /\ cache'.head = cache.head
        /\ DOMAIN cache'.names = DOMAIN hub.cmds /\ DOMAIN cache'.place = DOMAIN hub.cmds
        /\ \A i \in DOMAIN hub.place : cache'.place[i] = hub.place[i]
    <3>1. PICK h, head : h = hub /\ head = cache.head
      OBVIOUS
    <3>2. /\ IsDevice(h) /\ DOMAIN h.place \subseteq DOMAIN h.cmds /\ head \in [HeadFields -> Nat]
          /\ cache' = Listed(h, head)
      BY <1>9, <3>1 DEF DInv, Shape, HubOK, CacheOK
    <3>3. ReadOf(cache', h, head)
      BY <3>2, ListedOver
    <3> QED
      BY <3>1, <3>2, <3>3 DEF CacheOK, ReadOf
  <2>3. HubOK' /\ hub' = hub /\ DOMAIN hub.place \subseteq DOMAIN hub.cmds
    BY <1>1, <2>1 DEF DInv, Shape, HubOK
  <2>4. Places'
    <3>1. ListsOK'
      BY <1>1, <2>1, <2>2, <2>3, ReadLists DEF DInv, Places
    <3>2. ClaimsOK'
      BY <1>1, <1>2, ClaimsRest DEF DInv, Places
    <3>3. PlacesOK'
      BY <1>1, <1>3, <2>1, <2>2, <2>3 DEF PlacesOK
    <3>4. BrowseKept'
      BY <2>1, <2>3 DEF BrowseKept
    <3> QED
      BY <3>1, <3>2, <3>3, <3>4 DEF Places
  <2>5. Course'
    <3>1. CASE status' = "failed"
      BY <1>1, <1>3, <3>1, CourseStops DEF DInv, Shape, Syncing
    <3>2. CASE status' = "running"
      <4>0. /\ gone' = gone /\ new' = new /\ both' = both /\ mine' = mine
            /\ named' = named /\ changed' = changed /\ plan' = plan /\ adding' = adding
            /\ hub' = hub /\ edited' = edited
        BY <1>1, <3>2, StepsRest
      <4>1. /\ \A i \in gone : Pending("delete", i)'
            /\ \A i \in new : Pending("add", i)'
            /\ \A i \in mine : Pending("payload", i)'
            /\ \A i \in named : Pending("fetch", i)'
            /\ \A f \in changed : Pending("field", f)'
        <5>1. /\ \A i \in gone : StepOf("delete", i) \in Steps
              /\ \A i \in new : StepOf("add", i) \in Steps
              /\ \A i \in mine : StepOf("payload", i) \in Steps
              /\ \A i \in named : StepOf("fetch", i) \in Steps
              /\ \A f \in changed : StepOf("field", f) \in Steps
          BY DEF Steps, StepsOf
        <5> QED
          BY <1>3, <4>0, <5>1 DEF Pending
      <4>2. FieldsOK'
        BY <2>1, <4>0, <4>1 DEF FieldsOK
      <4>3. CmdsOK'
        BY <2>1, <4>0, <4>1 DEF CmdsOK
      <4>4. HeadOK'
        <5>1. Free({"deaf"})' => Free({"deaf"})
          BY <1>2 DEF Free
        <5> QED
          BY <1>1, <2>2, <2>3, <5>1 DEF DInv, Course, HeadOK, HeadOf
      <4> QED
        BY <1>1, <1>3, <3>2, <4>2, <4>3, <4>4 DEF Course, BlobOK, Rest
    <3> QED
      BY <1>9, <3>1, <3>2
  <2> QED
    BY <1>5, <1>6, <1>7, <2>2, <2>3, <2>4, <2>5, BoundedStays DEF DInv, Shape
<1> QED
  BY <1>1, <1>8, <1>9

-----------------------------------------------------------------------------
(* The service, and what follows a sync.                                    *)

\* What a place is worth that was there when the sync began.
LEMMA PlacesThere ==
  ASSUME Places, ~events, Free({"blind", "unheard"})
  PROVE  DOMAIN before.place \subseteq DOMAIN hub.place /\ DOMAIN before.place \subseteq DOMAIN hub.cmds
<1>1. DOMAIN before.place \subseteq DOMAIN hub.cmds
  BY DEF Places, ListsOK
<1>2. \A i \in DOMAIN before.place : i \in DOMAIN hub.place
  BY <1>1 DEF Places, BrowseKept, Free
<1> QED
  BY <1>1, <1>2

LEMMA ServiceClearsKeeps == ASSUME DInv, ServiceClears PROVE DInv'
<1>1. /\ ~events /\ adding["service"] = Idle /\ "foreign" \notin odd
      /\ cache' = Cleared(cache)
      /\ adding' = [LooseAdds EXCEPT !["service"].at = "reading"]
      /\ UNCHANGED <<events, hub, baseline, edited, status, plan, blob, syncs, before, odd>>
  BY DEF ServiceClears, Undisturbed
<1>2. CacheOK /\ cache.head \in [HeadFields -> Nat]
  BY DEF DInv, Shape, CacheOK
<1>3. [Cleared(cache) EXCEPT !.head = cache.head] = Cleared(cache)
  BY <1>2 DEF Cleared, CacheOK
<1>4. /\ CacheOK' /\ cache'.listed = FALSE /\ cache'.head = cache.head
      /\ DOMAIN cache'.names = {} /\ DOMAIN cache'.place = {}
  BY <1>1, <1>2, <1>3, ClearedOver DEF CacheOK
<1>5. /\ adding \in [Writers -> Adder] /\ "sync" \in Writers /\ "service" \in Writers
      /\ \A w \in Writers : w = "sync" \/ w = "service"
      /\ adding["service"] = [at |-> "idle", id |-> 0, loose |-> FALSE]
  BY <1>1 DEF DInv, Shape, AddingOK, Writers, Idle
<1>6. /\ adding'["sync"].at = adding["sync"].at /\ adding'["sync"].id = adding["sync"].id
      /\ adding'["sync"].loose = (adding["sync"].at = "claimed") /\ adding'["sync"] \in Adder
      /\ adding'["service"].at = "reading" /\ adding'["service"].id = 0
      /\ adding'["service"].loose = FALSE /\ adding'["service"] \in Adder
      /\ adding' \in [Writers -> Adder]
  <2>1. PICK x, y : /\ x = [adding["sync"] EXCEPT !.loose = adding["sync"].at = "claimed"]
                    /\ y = [adding["service"] EXCEPT !.loose = adding["service"].at = "claimed"]
    OBVIOUS
  <2>2. PICK z : z = [y EXCEPT !.at = "reading"]
    OBVIOUS
  <2>3. /\ x \in Adder /\ x.at = adding["sync"].at /\ x.id = adding["sync"].id
        /\ x.loose = (adding["sync"].at = "claimed")
    BY <1>5, <2>1 DEF Adder
  <2>4. y \in Adder /\ y.at = "idle" /\ y.id = 0 /\ y.loose = FALSE
    BY <1>5, <2>1 DEF Adder
  <2>5. z \in Adder /\ z.at = "reading" /\ z.id = 0 /\ z.loose = FALSE
    BY <2>2, <2>4 DEF Adder
  <2>6. LooseAdds = [w \in Writers |-> IF w = "sync" THEN x ELSE y]
    BY <1>5, <2>1 DEF LooseAdds
  <2>7. adding' = [w \in Writers |-> IF w = "sync" THEN x ELSE z]
    BY <1>1, <1>5, <2>2, <2>6
  <2> QED
    BY <1>5, <2>3, <2>5, <2>7
<1>7. AddingOK'
  <2>0. /\ IF adding["sync"].at \in {"claimed", "saved"} THEN adding["sync"].id # 0
           ELSE adding["sync"].id = 0 /\ ~adding["sync"].loose
        /\ adding["sync"].at \in {"idle", "claimed", "saved"}
    BY <1>5 DEF DInv, Shape, AddingOK
  <2>1. \A w \in Writers : IF adding'[w].at \in {"claimed", "saved"} THEN adding'[w].id # 0
                           ELSE adding'[w].id = 0 /\ ~adding'[w].loose
    <3>1. IF adding'["sync"].at \in {"claimed", "saved"} THEN adding'["sync"].id # 0
          ELSE adding'["sync"].id = 0 /\ ~adding'["sync"].loose
      BY ONLY <1>6, <2>0
    <3>2. IF adding'["service"].at \in {"claimed", "saved"} THEN adding'["service"].id # 0
          ELSE adding'["service"].id = 0 /\ ~adding'["service"].loose
      BY ONLY <1>6
    <3> QED
      BY ONLY <1>5, <3>1, <3>2
  <2> QED
    BY <1>1, <1>6, <2>1 DEF DInv, Shape, AddingOK
<1>8. HubOK'
  BY <1>1 DEF DInv, Shape, HubOK
<1>9. EditorOK'
  BY <1>1, EditorRests DEF DInv, Shape
<1>10. SameTurn
  BY <1>6 DEF SameTurn
<1>11. PlanOK'
  BY <1>1, <1>10, PlanRests DEF DInv, Shape
<1>12. Places'
  <2>0. \A w \in Writers : adding'[w].at \in {"claimed", "saved"} =>
           adding[w].at = adding'[w].at /\ adding'[w].id = adding[w].id
    BY <1>5, <1>6
  <2>1. ListsOK'
    <3>1. DOMAIN before'.place \subseteq DOMAIN hub'.cmds
      BY <1>1 DEF DInv, Places, ListsOK
    <3> QED
      BY <1>1, <1>4, <2>0, <3>1, ReadLists DEF DInv, Places
  <2>2. ClaimsOK'
    BY <1>1, <2>0, ClaimsRest DEF DInv, Places
  <2>3. PlacesOK'
    <3>1. Free({"blind", "unheard"})' => Free({"blind", "unheard"})
      BY <1>1 DEF Free
    <3> QED
      BY <1>1, <1>4, <1>6, <2>0, <3>1 DEF DInv, Places, PlacesOK
  <2>4. BrowseKept'
    BY <1>1, BrowseRests DEF DInv, Places
  <2> QED
    BY <2>1, <2>2, <2>3, <2>4 DEF Places
<1>13. Course'
  BY <1>1, <1>4, <1>10, CourseRests DEF DInv
<1> QED
  BY <1>4, <1>7, <1>8, <1>9, <1>11, <1>12, <1>13, BoundedStays DEF DInv, Shape

LEMMA ServiceClaimsKeeps == ASSUME DInv, ServiceClaims PROVE DInv'
<1>1. /\ adding["service"].at = "reading"
      /\ UNCHANGED <<events, hub, baseline, edited, status, plan, blob, syncs, before>>
  BY DEF ServiceClaims
<1>2. PICK heard \in BOOLEAN :
        /\ cache' = IF heard THEN Listed(hub, cache.head) ELSE cache
        /\ IF DOMAIN cache'.names = Ids
           THEN adding' = [adding EXCEPT !["service"] = Ended("service")] /\ odd' = odd
           ELSE /\ adding' = [adding EXCEPT !["service"] =
                                [at |-> "claimed", id |-> NextFree(cache'), loose |-> ~cache'.listed]]
                /\ odd' = odd \cup Risks("service", NextFree(cache'), heard)
  BY DEF ServiceClaims
<1>3. ~events /\ "foreign" \notin odd
  BY <1>1 DEF DInv, Shape, AddingOK
<1>4. /\ CacheOK' /\ cache'.head = cache.head
      /\ heard => /\ DOMAIN cache'.names = DOMAIN hub.cmds /\ DOMAIN cache'.place = DOMAIN hub.cmds
                  /\ \A i \in DOMAIN hub.place : cache'.place[i] = hub.place[i]
      /\ ~heard => cache' = cache
  <2>1. CASE heard
    <3>1. PICK h, head : h = hub /\ head = cache.head
      OBVIOUS
    <3>2. /\ IsDevice(h) /\ DOMAIN h.place \subseteq DOMAIN h.cmds /\ head \in [HeadFields -> Nat]
          /\ cache' = Listed(h, head)
      BY <1>2, <2>1, <3>1 DEF DInv, Shape, HubOK, CacheOK
    <3>3. ReadOf(cache', h, head)
      BY <3>2, ListedOver
    <3> QED
      BY <2>1, <3>1, <3>2, <3>3 DEF CacheOK, ReadOf
  <2>2. CASE ~heard
    BY <1>2, <2>2 DEF DInv, Shape, CacheOK
  <2> QED
    BY <2>1, <2>2
<1>5. PICK i : i = NextFree(cache')
  OBVIOUS
<1>6. DOMAIN cache'.names # Ids => i \in Ids \ DOMAIN cache'.names
  <2> SUFFICES ASSUME DOMAIN cache'.names # Ids PROVE i \in Ids \ DOMAIN cache'.names
    OBVIOUS
  <2>1. DOMAIN cache'.names \subseteq Ids
    BY <1>4 DEF CacheOK, Over
  <2>2. Ids \ DOMAIN cache'.names # {}
    BY <2>1
  <2>3. PICK S : S = DOMAIN cache'.names
    OBVIOUS
  <2>4. LowestFree(S) \in Ids \ S
    BY <2>2, <2>3, LowestFreeIsFree DEF DInv
  <2>5. i = LowestFree(S)
    BY <1>5, <2>3 DEF NextFree
  <2> QED
    BY <2>3, <2>4, <2>5
<1>7. PICK x \in Adder :
        /\ adding' = [adding EXCEPT !["service"] = x]
        /\ \/ x.at = "done" /\ x.id = 0 /\ x.loose = FALSE /\ odd' = odd
           \/ /\ x.at = "claimed" /\ x.id = i /\ i \in Ids \ DOMAIN cache'.names
              /\ odd' = odd \cup Risks("service", i, heard)
  <2>1. CASE DOMAIN cache'.names = Ids
    <3>1. PICK x : x = Ended("service")
      OBVIOUS
    <3>2. x = [at |-> "done", id |-> 0, loose |-> FALSE]
      BY <3>1 DEF Ended, Idle
    <3>3. x \in Adder /\ x.at = "done" /\ x.id = 0 /\ x.loose = FALSE
      <4>1. 0 \in 0 .. MaxId
        BY DEF DInv, Bounded
      <4> QED
        BY <3>2, <4>1 DEF Adder
    <3> QED
      BY <1>2, <2>1, <3>1, <3>3
  <2>2. CASE DOMAIN cache'.names # Ids
    <3>1. PICK x : x = [at |-> "claimed", id |-> i, loose |-> ~cache'.listed]
      OBVIOUS
    <3>2. cache'.listed \in BOOLEAN /\ i \in 0 .. MaxId
      BY <1>4, <1>6, <2>2 DEF CacheOK, DInv, Bounded, Ids
    <3>3. x \in Adder /\ x.at = "claimed" /\ x.id = i
      BY <3>1, <3>2 DEF Adder
    <3> QED
      BY <1>2, <1>5, <1>6, <2>2, <3>1, <3>3
  <2> QED
    BY <2>1, <2>2
<1>8. /\ odd \subseteq odd' /\ ("foreign" \in odd' => "foreign" \in odd)
      /\ x.at = "claimed" => /\ "blind" \notin odd' => heard
                             /\ "twin" \notin odd' => ~(adding["sync"].at = "claimed" /\ adding["sync"].id = i)
  BY <1>7 DEF Risks, Writers
<1>9. AddingOK' /\ adding'["service"] = x /\ adding'["sync"] = adding["sync"]
  <2>1. IF x.at \in {"claimed", "saved"} THEN x.id # 0 ELSE x.id = 0 /\ ~x.loose
    <3>1. i \in Ids => i # 0
      BY DEF Ids
    <3> QED
      BY <1>7, <3>1
  <2> QED
    BY <1>1, <1>7, <1>8, <2>1, AddingSet DEF DInv, Shape, Writers
<1>10. HubOK'
  BY <1>1 DEF DInv, Shape, HubOK
<1>11. EditorOK'
  BY <1>1, EditorRests DEF DInv, Shape
<1>12. SameTurn
  BY <1>9 DEF SameTurn
<1>13. PlanOK'
  BY <1>1, <1>12, PlanRests DEF DInv, Shape
<1>14. \A v \in Writers : v = "sync" \/ v = "service"
  BY DEF Writers
<1>15. x.at = "claimed" \/ x.at = "done"
  BY <1>7
<1>16. ListsOK'
  <2>1. \A v \in Writers : adding'[v].at = "saved" => adding[v].at = "saved" /\ adding'[v].id = adding[v].id
    BY <1>9, <1>14, <1>15
  <2>2. CASE heard
    <3>1. DOMAIN before'.place \subseteq DOMAIN hub'.cmds
      BY <1>1, <1>3 DEF DInv, Places, ListsOK
    <3> QED
      BY <1>1, <1>4, <2>1, <2>2, <3>1, ReadLists DEF DInv, Places
  <2>3. CASE ~heard
    BY <1>1, <1>4, <1>8, <2>1, <2>3, ListsRest DEF DInv, Places, SameLists
  <2> QED
    BY <2>2, <2>3
<1>17. ASSUME x.at = "claimed", "blind" \notin odd' PROVE i \notin DOMAIN hub.cmds
  BY <1>4, <1>7, <1>8, <1>17
<1>18. ClaimsOK'
  <2>1. Free({"blind", "twin", "unheard"})' => Free({"blind", "twin", "unheard"}) /\ "blind" \notin odd'
    BY <1>8 DEF Free
  <2>2. Free({"twin"})' => "twin" \notin odd'
    BY DEF Free
  <2>3. Free({"blind", "twin", "unheard"})' =>
          \A v \in Writers : adding'[v].at = "claimed" => adding'[v].id \notin DOMAIN hub'.cmds
    BY <1>1, <1>7, <1>9, <1>14, <1>15, <1>17, <2>1 DEF DInv, Places, ClaimsOK
  <2>4. Free({"twin"})' => ~(\A v \in Writers : adding'[v].at = "claimed" /\ adding'[v].id = adding'["sync"].id)
    <3> SUFFICES ASSUME Free({"twin"})',
                        \A v \in Writers : adding'[v].at = "claimed" /\ adding'[v].id = adding'["sync"].id
                 PROVE  FALSE
      OBVIOUS
    <3>1. /\ adding'["service"].at = "claimed" /\ adding'["service"].id = adding'["sync"].id
          /\ adding'["sync"].at = "claimed"
      BY DEF Writers
    <3> QED
      BY <1>7, <1>8, <1>9, <2>2, <3>1
  <2> QED
    BY <2>3, <2>4 DEF ClaimsOK
<1>19. PlacesOK'
  <2>1. Free({"blind", "unheard"})' => Free({"blind", "unheard"}) /\ "blind" \notin odd'
    BY <1>8 DEF Free
  <2>2. DOMAIN before.place \subseteq DOMAIN hub.cmds
    BY <1>3 DEF DInv, Places, ListsOK
  <2>3. Free({"blind", "unheard"})' =>
          \A v \in Writers : adding'[v].at \in {"claimed", "saved"} => adding'[v].id \notin DOMAIN before'.place
    BY <1>1, <1>7, <1>9, <1>14, <1>15, <1>17, <2>1, <2>2 DEF DInv, Places, PlacesOK
  <2>4. ASSUME cache'.listed, Free({"blind", "unheard"})', NEW j \in DOMAIN before.place
        PROVE  /\ j \in DOMAIN hub.place /\ j \in DOMAIN cache'.place
               /\ cache'.place[j] = hub.place[j]
    <3>1. Free({"blind", "unheard"})
      BY <2>1, <2>4
    <3>2. CASE heard
      <4>1. j \in DOMAIN hub.place /\ j \in DOMAIN hub.cmds
        BY <1>3, <3>1, PlacesThere DEF DInv
      <4> QED
        BY <1>4, <3>2, <4>1
    <3>3. CASE ~heard
      BY <1>3, <1>4, <2>4, <3>1, <3>3 DEF DInv, Places, PlacesOK
    <3> QED
      BY <3>2, <3>3
  <2>5. adding'["service"].at # "idle"
    BY <1>9, <1>15
  <2> QED
    BY <1>1, <2>3, <2>4, <2>5 DEF PlacesOK
<1>20. BrowseKept'
  BY <1>1, <1>8, BrowseRests DEF DInv, Places
<1>21. Course'
  BY <1>1, <1>4, <1>8, <1>12, CourseRests DEF DInv
<1> QED
  BY <1>4, <1>9, <1>10, <1>11, <1>13, <1>16, <1>18, <1>19, <1>20, <1>21, BoundedStays
     DEF DInv, Shape, Places

LEMMA DoneKeeps == ASSUME DInv, Done PROVE DInv'
<1>1. /\ status = "running" /\ plan = << >> /\ status' = "success" /\ adding' = LooseAdds
      /\ UNCHANGED <<events, hub, baseline, edited, plan, blob, syncs, before>>
      /\ \/ cache' = Listed(hub, HeadOf(hub)) /\ odd' = odd
         \/ cache' = Cleared(cache) /\ odd' = odd \cup {"deaf"}
  BY DEF Done, Calm, Trouble
<1>2. odd \subseteq odd' /\ ("foreign" \in odd' => "foreign" \in odd)
  BY <1>1
<1>3. AddingOK' /\ \A w \in Writers : adding'[w].at = adding[w].at /\ adding'[w].id = adding[w].id
  BY <1>1, <1>2, Loosened DEF DInv, Shape
<1>4. adding'["sync"].at = "idle" /\ adding["sync"].at = "idle" /\ blob = << >> /\ syncs # 0
      /\ adding'["sync"].id = adding["sync"].id
  BY <1>1, <1>3 DEF DInv, Shape, PlanOK, Writers
<1>5. /\ CacheOK'
      /\ \/ /\ DOMAIN cache'.names = DOMAIN hub.cmds /\ DOMAIN cache'.place = DOMAIN hub.cmds
            /\ \A i \in DOMAIN hub.place : cache'.place[i] = hub.place[i]
         \/ cache'.listed = FALSE /\ DOMAIN cache'.names = {} /\ DOMAIN cache'.place = {}
  <2>1. CASE cache' = Listed(hub, HeadOf(hub))
    <3>1. PICK h, head : h = hub /\ head = HeadOf(hub)
      OBVIOUS
    <3>2. /\ IsDevice(h) /\ DOMAIN h.place \subseteq DOMAIN h.cmds /\ head \in [HeadFields -> Nat]
          /\ cache' = Listed(h, head)
      <4>1. HeadOf(hub) \in [HeadFields -> Nat]
        BY HeadOver DEF DInv, Shape, HubOK, IsDevice
      <4> QED
        BY <2>1, <3>1, <4>1 DEF DInv, Shape, HubOK
    <3>3. ReadOf(cache', h, head)
      BY <3>2, ListedOver
    <3> QED
      BY <3>1, <3>2, <3>3 DEF CacheOK, ReadOf
  <2>2. CASE cache' = Cleared(cache)
    <3>1. CacheOK /\ cache.head \in [HeadFields -> Nat]
      BY DEF DInv, Shape, CacheOK
    <3>2. [Cleared(cache) EXCEPT !.head = cache.head] = Cleared(cache)
      BY <3>1 DEF Cleared, CacheOK
    <3> QED
      BY <2>2, <3>1, <3>2, ClearedOver DEF CacheOK
  <2> QED
    BY <1>1, <2>1, <2>2
<1>6. HubOK'
  BY <1>1 DEF DInv, Shape, HubOK
<1>7. EditorOK'
  BY <1>1, EditorRests DEF DInv, Shape
<1>8. PlanOK'
  <2>1. Steps' = Steps /\ plan' = << >> /\ blob' = << >> /\ syncs' = syncs
    BY <1>1, <1>4, StepsRest
  <2> QED
    BY <1>1, <1>4, <2>1 DEF DInv, Shape, PlanOK, Syncing
<1>9. Places'
  <2>1. ListsOK'
    <3>1. CASE events
      BY <1>1, <3>1 DEF ListsOK
    <3>2. CASE ~events
      <4>1. DOMAIN before'.place \subseteq DOMAIN hub'.cmds
        BY <1>1, <3>2 DEF DInv, Places, ListsOK
      <4> QED
        BY <1>1, <1>3, <1>5, <4>1, ReadLists DEF DInv, Places
    <3> QED
      BY <3>1, <3>2
  <2>2. ClaimsOK'
    BY <1>1, <1>2, <1>3, ClaimsRest DEF DInv, Places
  <2>3. PlacesOK'
    <3>1. Free({"blind", "unheard"})' => Free({"blind", "unheard"})
      BY <1>2 DEF Free
    <3>2. ~events /\ Free({"blind", "unheard"}) =>
             DOMAIN before.place \subseteq DOMAIN hub.place /\ DOMAIN before.place \subseteq DOMAIN hub.cmds
      BY PlacesThere DEF DInv
    <3> QED
      BY <1>1, <1>3, <1>4, <1>5, <3>1, <3>2 DEF DInv, Places, PlacesOK
  <2>4. BrowseKept'
    BY <1>1, <1>2, BrowseRests DEF DInv, Places
  <2> QED
    BY <2>1, <2>2, <2>3, <2>4 DEF Places
<1>10. Course'
  <2>0. /\ gone' = gone /\ new' = new /\ both' = both /\ mine' = mine
        /\ named' = named /\ changed' = changed /\ hub' = hub /\ before' = before
        /\ edited' = edited /\ \A S : Free(S)' => Free(S)
    BY <1>1, <1>2, StepsRest DEF Free
  <2>1. \A k, j : Pending(k, j)' <=> Pending(k, j)
    <3>1. SameTurn
      BY <1>3, <1>4 DEF SameTurn
    <3> QED
      BY <1>1, <3>1, PendingRests
  <2>2. FieldsOK'
    BY <1>1, <2>0, <2>1 DEF DInv, Course, FieldsOK, Clean
  <2>3. CmdsOK'
    BY <1>1, <2>0, <2>1 DEF DInv, Course, CmdsOK, Clean
  <2> QED
    BY <1>1, <1>4, <2>2, <2>3 DEF Course, BlobOK, Rest, HeadOK
<1> QED
  BY <1>3, <1>5, <1>6, <1>7, <1>8, <1>9, <1>10, BoundedStays DEF DInv, Shape

LEMMA RebaseKeeps == ASSUME DInv, Rebase PROVE DInv'
<1>1. /\ status \in {"success", "failed"} /\ status' = "editing" /\ adding' = LooseAdds
      /\ UNCHANGED <<events, hub, plan, blob, syncs>>
      /\ cache' = Listed(hub, HeadOf(hub)) /\ baseline' = Loaded(hub) /\ edited' = Copy(hub)
      /\ before' = AsFound(hub) /\ odd' = odd \ {"deaf", "cut"}
  BY DEF Rebase
<1>2. odd \subseteq odd' \cup {"deaf", "cut"} /\ ("foreign" \in odd' => "foreign" \in odd)
  BY <1>1
<1>3. AddingOK' /\ \A w \in Writers : adding'[w].at = adding[w].at /\ adding'[w].id = adding[w].id
  BY <1>1, <1>2, Loosened DEF DInv, Shape
<1>4. adding'["sync"].at = "idle" /\ plan = << >> /\ blob = << >> /\ syncs # 0
  BY <1>1, <1>3 DEF DInv, Shape, PlanOK, Syncing, Writers
<1>5. /\ DOMAIN hub.cmds \subseteq Ids /\ hub.cmds \in [DOMAIN hub.cmds -> CmdRec]
      /\ \A i \in DOMAIN hub.cmds : hub.cmds[i].name \in Nat
      /\ hub.fields \in [Fields -> Nat] /\ DOMAIN hub.place \subseteq DOMAIN hub.cmds
  BY DEF DInv, Shape, HubOK, IsDevice, Over, CmdRec
<1>6. /\ CacheOK' /\ DOMAIN cache'.names = DOMAIN hub.cmds /\ DOMAIN cache'.place = DOMAIN hub.cmds
      /\ \A i \in DOMAIN hub.place : cache'.place[i] = hub.place[i]
  <2>1. PICK h, head : h = hub /\ head = HeadOf(hub)
    OBVIOUS
  <2>2. /\ IsDevice(h) /\ DOMAIN h.place \subseteq DOMAIN h.cmds /\ head \in [HeadFields -> Nat]
        /\ cache' = Listed(h, head)
    <3>1. HeadOf(hub) \in [HeadFields -> Nat]
      BY <1>5, HeadOver
    <3> QED
      BY <1>1, <2>1, <3>1 DEF DInv, Shape, HubOK
  <2>3. ReadOf(cache', h, head)
    BY <2>2, ListedOver
  <2> QED
    BY <2>1, <2>2, <2>3 DEF CacheOK, ReadOf
<1>7. /\ IsDevice(before') /\ before'.cmds = hub.cmds /\ before'.fields = hub.fields
      /\ DOMAIN before'.place \subseteq DOMAIN hub.place
      /\ \A i \in DOMAIN before'.place : /\ before'.place[i] = hub.place[i]
                                         /\ \A w \in Writers : adding[w].id # i
  BY <1>1, AsFoundOver DEF DInv, Shape
<1>8. HubOK' /\ hub' = hub
  BY <1>1, <1>7 DEF DInv, Shape, HubOK
<1>9. /\ DOMAIN baseline' = {"names", "fields"} /\ DOMAIN edited' = {"cmds", "fields"}
      /\ baseline'.names = [i \in DOMAIN hub.cmds |-> hub.cmds[i].name] /\ baseline'.fields = hub.fields
      /\ edited'.cmds = [i \in DOMAIN hub.cmds |-> [name |-> hub.cmds[i].name, is |-> "same"]]
      /\ edited'.fields = hub.fields
  BY <1>1 DEF Loaded, Copy, NamesOf
<1>10. /\ gone' = {} /\ new' = {} /\ both' = DOMAIN hub.cmds
       /\ DOMAIN baseline'.names = DOMAIN hub.cmds /\ DOMAIN edited'.cmds = DOMAIN hub.cmds
       /\ \A i \in DOMAIN hub.cmds : /\ edited'.cmds[i].is = "same"
                                     /\ edited'.cmds[i].name = baseline'.names[i]
  BY <1>9 DEF gone, new, both
<1>11. EditorOK'
  <2>1. Over(Nat, baseline'.names)
    BY <1>5, <1>9 DEF Over
  <2>2. Over(EditRec, edited'.cmds)
    <3>1. \A i \in DOMAIN hub.cmds : [name |-> hub.cmds[i].name, is |-> "same"] \in EditRec
      BY <1>5 DEF EditRec
    <3>2. PICK S, c : S = DOMAIN hub.cmds /\ c = edited'.cmds
      OBVIOUS
    <3>3. S \subseteq Ids /\ DOMAIN c = S /\ c \in [S -> EditRec]
      BY <1>5, <1>9, <3>1, <3>2
    <3> QED
      BY <3>2, <3>3 DEF Over
  <2>3. events' \in BOOLEAN /\ syncs' \in Nat
    BY <1>1 DEF DInv, Shape, EditorOK
  <2> QED
    BY <1>5, <1>8, <1>9, <1>10, <2>1, <2>2, <2>3 DEF EditorOK
<1>12. PlanOK'
  <2>1. << >> \in Seq(Steps') /\ DOMAIN << >> = {}
    OBVIOUS
  <2> QED
    BY <1>1, <1>4, <2>1 DEF PlanOK, Syncing
<1>13. Places'
  <2>1. ListsOK'
    BY <1>1, <1>3, <1>5, <1>6, <1>7, <1>8, ReadLists DEF DInv, Places
  <2>2. ClaimsOK'
    BY <1>1, <1>2, <1>3, ClaimsRest DEF DInv, Places
  <2>3. PlacesOK'
    BY <1>1, <1>3, <1>4, <1>5, <1>6, <1>7, <1>8 DEF PlacesOK
  <2>4. BrowseKept'
    BY <1>7, <1>8 DEF BrowseKept
  <2> QED
    BY <2>1, <2>2, <2>3, <2>4 DEF Places
<1>14. Course'
  BY <1>1, <1>4, <1>7, <1>8 DEF Course, BlobOK, Rest, HeadOK, FieldsOK, CmdsOK
<1> QED
  BY <1>3, <1>6, <1>8, <1>11, <1>12, <1>13, <1>14, BoundedStays DEF DInv, Shape

LEMMA InitKeeps == ASSUME Bounded, Init PROVE DInv
<1>1. PICK p \in Starts :
        hub = [cmds   |-> [i \in DOMAIN p |-> Record(0, Payload("hub", i))],
               place  |-> [i \in {j \in DOMAIN p : p[j] > 0} |-> p[i]],
               fields |-> [f \in Fields |-> 0]]
  BY DEF Init
<1>2. /\ events \in BOOLEAN /\ cache = Listed(hub, HeadOf(hub)) /\ baseline = Loaded(hub)
      /\ edited = Copy(hub) /\ status = "editing" /\ plan = << >> /\ blob = << >>
      /\ adding = [w \in Writers |-> Idle] /\ syncs = 0 /\ before = hub /\ odd = {}
  BY DEF Init
<1>3. DOMAIN p \subseteq Ids /\ p \in [DOMAIN p -> Nat]
  BY DEF Bounded
<1>4. /\ DOMAIN hub.cmds = DOMAIN p /\ hub.fields \in [Fields -> Nat]
      /\ DOMAIN hub.place \subseteq DOMAIN hub.cmds
      /\ Over(CmdRec, hub.cmds) /\ Over(Nat \ {0}, hub.place)
      /\ DOMAIN hub = {"cmds", "place", "fields"}
  <2>1. \A i \in DOMAIN p : Record(0, Payload("hub", i)) \in CmdRec
    <3> SUFFICES ASSUME NEW i \in DOMAIN p PROVE Record(0, Payload("hub", i)) \in CmdRec
      OBVIOUS
    <3>1. Payload("hub", i) \in [by : Makers, of : Ids]
      BY <1>3 DEF Payload, Makers
    <3> QED
      BY <3>1 DEF Record, CmdRec
  <2>2. hub.cmds = [i \in DOMAIN p |-> Record(0, Payload("hub", i))]
        /\ hub.place = [i \in {j \in DOMAIN p : p[j] > 0} |-> p[i]]
        /\ hub.fields = [f \in Fields |-> 0] /\ DOMAIN hub = {"cmds", "place", "fields"}
    BY <1>1
  <2>3. Over(CmdRec, hub.cmds)
    BY <1>3, <2>1, <2>2 DEF Over
  <2>4. Over(Nat \ {0}, hub.place)
    BY <1>3, <2>2 DEF Over
  <2> QED
    BY <2>2, <2>3, <2>4
<1>5. HubOK
  BY <1>2, <1>4 DEF HubOK, IsDevice
<1>6. /\ CacheOK /\ DOMAIN cache.names = DOMAIN hub.cmds /\ DOMAIN cache.place = DOMAIN hub.cmds
      /\ \A i \in DOMAIN hub.place : cache.place[i] = hub.place[i]
  <2>1. PICK h, head : h = hub /\ head = HeadOf(hub)
    OBVIOUS
  <2>2. /\ IsDevice(h) /\ DOMAIN h.place \subseteq DOMAIN h.cmds /\ head \in [HeadFields -> Nat]
        /\ cache = Listed(h, head)
    <3>1. HeadOf(hub) \in [HeadFields -> Nat]
      BY <1>4, HeadOver
    <3> QED
      BY <1>2, <1>5, <2>1, <3>1 DEF HubOK
  <2>3. ReadOf(cache, h, head)
    BY <2>2, ListedOver
  <2> QED
    BY <2>1, <2>2, <2>3 DEF CacheOK, ReadOf
<1>7. /\ DOMAIN baseline = {"names", "fields"} /\ DOMAIN edited = {"cmds", "fields"}
      /\ baseline.names = [i \in DOMAIN hub.cmds |-> hub.cmds[i].name] /\ baseline.fields = hub.fields
      /\ edited.cmds = [i \in DOMAIN hub.cmds |-> [name |-> hub.cmds[i].name, is |-> "same"]]
      /\ edited.fields = hub.fields
  BY <1>2 DEF Loaded, Copy, NamesOf
<1>8. /\ gone = {} /\ new = {} /\ both = DOMAIN hub.cmds
      /\ DOMAIN baseline.names = DOMAIN hub.cmds /\ DOMAIN edited.cmds = DOMAIN hub.cmds
      /\ \A i \in DOMAIN hub.cmds : /\ edited.cmds[i].is = "same"
                                    /\ edited.cmds[i].name = baseline.names[i]
  BY <1>7 DEF gone, new, both
<1>9. /\ DOMAIN hub.cmds \subseteq Ids /\ \A i \in DOMAIN hub.cmds : hub.cmds[i].name \in Nat
  BY <1>4 DEF Over, CmdRec
<1>10. EditorOK
  <2>1. Over(Nat, baseline.names)
    BY <1>7, <1>9 DEF Over
  <2>2. Over(EditRec, edited.cmds)
    <3>1. \A i \in DOMAIN hub.cmds : [name |-> hub.cmds[i].name, is |-> "same"] \in EditRec
      BY <1>9 DEF EditRec
    <3> QED
      BY <1>7, <1>9, <3>1 DEF Over
  <2> QED
    BY <1>2, <1>4, <1>7, <1>8, <2>1, <2>2 DEF EditorOK
<1>11. AddingOK
  <2>1. 0 \in 0 .. MaxId
    BY DEF Bounded
  <2>2. Idle \in Adder /\ Idle.at = "idle" /\ Idle.id = 0 /\ Idle.loose = FALSE
    BY <2>1 DEF Idle, Adder
  <2> QED
    BY <1>2, <2>2 DEF AddingOK, Writers
<1>12. \A w \in Writers : adding[w].at = "idle"
  BY <1>2 DEF Idle
<1>13. "sync" \in Writers /\ "service" \in Writers
  BY DEF Writers
<1>14. PlanOK
  <2>1. << >> \in Seq(Steps) /\ DOMAIN << >> = {}
    OBVIOUS
  <2> QED
    BY <1>2, <1>12, <1>13, <2>1 DEF PlanOK, Syncing
<1>15. Places
  <2>1. ListsOK
    BY <1>2, <1>4, <1>6, <1>12 DEF ListsOK
  <2>2. ClaimsOK
    BY <1>12, <1>13 DEF ClaimsOK
  <2>3. PlacesOK
    BY <1>2, <1>4, <1>6, <1>12 DEF PlacesOK
  <2>4. BrowseKept
    BY <1>2 DEF BrowseKept
  <2> QED
    BY <2>1, <2>2, <2>3, <2>4 DEF Places
<1>16. Course
  BY <1>2 DEF Course, BlobOK, Rest, HeadOK, FieldsOK, CmdsOK
<1> QED
  BY <1>5, <1>6, <1>10, <1>11, <1>14, <1>15, <1>16 DEF DInv, Shape

LEMMA StutterKeeps == ASSUME DInv, UNCHANGED vars PROVE DInv'
<1>1. UNCHANGED <<events, hub, cache, baseline, edited, status, plan, blob, adding, syncs, before, odd>>
  BY DEF vars, cells
<1>2. HubOK' /\ CacheOK'
  BY <1>1 DEF DInv, Shape, HubOK, CacheOK
<1>3. EditorOK'
  BY <1>1, EditorRests DEF DInv, Shape
<1>4. AddingOK'
  BY <1>1, AddingRests DEF DInv, Shape
<1>5. SameTurn
  BY <1>1 DEF SameTurn
<1>6. PlanOK'
  BY <1>1, <1>5, PlanRests DEF DInv, Shape
<1>7. Places'
  BY <1>1, PlacesKept DEF DInv, Shape, SameLists
<1>8. Course'
  BY <1>1, <1>5, CourseRests DEF DInv
<1> QED
  BY <1>2, <1>3, <1>4, <1>6, <1>7, <1>8, BoundedStays DEF DInv, Shape

LEMMA StepKeeps == DInv /\ [Next]_vars => DInv'
<1> SUFFICES ASSUME DInv, [Next]_vars PROVE DInv'
  OBVIOUS
<1>1. CASE Edit
  BY <1>1, EditKeeps
<1>2. CASE Foreign
  BY <1>2, ForeignKeeps
<1>3. CASE RequestSync
  BY <1>3, RequestKeeps
<1>4. CASE ClearForSync
  BY <1>4, ClearKeeps
<1>5. CASE ReadForSync
  BY <1>5, ReadKeeps
<1>6. CASE WriteField
  BY <1>6, FieldKeeps
<1>7. CASE FetchPayload
  BY <1>7, FetchKeeps
<1>8. CASE RenameCommand
  BY <1>8, RenameKeeps
<1>9. CASE WritePayload
  BY <1>9, PayloadKeeps
<1>10. CASE DeleteCommand
  BY <1>10, DeleteKeeps
<1>11. CASE ClaimForSync
  BY <1>11, ClaimKeeps
<1>12. CASE Refused
  BY <1>12, RefusedKeeps
<1>13. CASE \E w \in Writers : Save(w)
  BY <1>13, SaveKeeps
<1>14. CASE \E w \in Writers : Register(w)
  BY <1>14, RegisterKeeps
<1>15. CASE ServiceClears
  BY <1>15, ServiceClearsKeeps
<1>16. CASE ServiceClaims
  BY <1>16, ServiceClaimsKeeps
<1>17. CASE Done
  BY <1>17, DoneKeeps
<1>18. CASE Rebase
  BY <1>18, RebaseKeeps
<1>19. CASE UNCHANGED vars
  BY <1>19, StutterKeeps
<1> QED
  BY <1>1, <1>2, <1>3, <1>4, <1>5, <1>6, <1>7, <1>8, <1>9, <1>10, <1>11, <1>12, <1>13, <1>14,
     <1>15, <1>16, <1>17, <1>18, <1>19 DEF Next

-----------------------------------------------------------------------------
(* The theorems.                                                            *)

\* Every reachable state has the types of the code, plans of the steps called
\* for, lists that agree with the hub, and a hub between two steps of a sync.
THEOREM SyncInvariant == Spec => []DInv
<1>1. Init => DInv
  BY InitKeeps, DeviceBounds
<1> QED
  BY <1>1, StepKeeps, PTL DEF Spec

LEMMA InvBrowses == DInv => BrowseKept
BY DEF DInv, Places

LEMMA InvAsEdited == DInv => DeviceAsEdited
<1> SUFFICES ASSUME DInv, status = "success", odd \cap {"deaf", "cut", "blind", "twin", "unheard"} = {}
             PROVE  [cmds |-> hub.cmds, fields |-> hub.fields] = Wanted
  BY DEF DeviceAsEdited
<1>1. Clean /\ plan = << >>
  BY DEF Clean, Free, DInv, Shape, PlanOK, Syncing
<1>2. \A k, i : ~Pending(k, i)
  BY <1>1 DEF Pending, Range
<1>3. \A f \in Fields : hub.fields[f] = IF f \in changed THEN edited.fields[f] ELSE before.fields[f]
  BY <1>1, <1>2 DEF DInv, Course, FieldsOK
<1>4. /\ DOMAIN hub.cmds = (DOMAIN before.cmds \ gone) \cup new
      /\ \A i \in DOMAIN hub.cmds :
           hub.cmds[i] = IF i \in new \/ i \in mine THEN Record(edited.cmds[i].name, Payload("user", i))
                         ELSE IF i \in named THEN Record(edited.cmds[i].name, before.cmds[i].data)
                         ELSE before.cmds[i]
  BY <1>1, <1>2 DEF DInv, Course, CmdsOK
<1> DEFINE old  == DOMAIN before.cmds \cap DOMAIN baseline.names
           own(i) == i \in DOMAIN edited.cmds /\ edited.cmds[i].is # "same"
           renamed(i) == i \in old \ gone /\ edited.cmds[i].name # baseline.names[i]
           cmds == [i \in (DOMAIN before.cmds \ gone) \cup new |->
                      [name |-> IF own(i) \/ renamed(i) THEN edited.cmds[i].name ELSE before.cmds[i].name,
                       data |-> IF own(i) THEN Payload("user", i) ELSE before.cmds[i].data]]
           fields == [f \in Fields |-> IF edited.fields[f] # baseline.fields[f]
                                       THEN edited.fields[f] ELSE before.fields[f]]
<1>5. Wanted = [cmds |-> cmds, fields |-> fields]
  BY DEF Wanted, gone, new
<1>6. hub.fields = fields
  <2>1. hub.fields \in [Fields -> Nat]
    BY DEF DInv, Shape, HubOK, IsDevice
  <2>2. \A f \in Fields : hub.fields[f] = fields[f]
    BY <1>3 DEF changed
  <2>3. DOMAIN fields = Fields /\ fields = [f \in Fields |-> fields[f]]
    OBVIOUS
  <2> HIDE DEF fields
  <2> QED
    BY <2>1, <2>2, <2>3
<1>7. hub.cmds = cmds
  <2>1. hub.cmds \in [DOMAIN hub.cmds -> CmdRec]
    BY DEF DInv, Shape, HubOK, IsDevice, Over
  <2>2. ASSUME NEW i \in DOMAIN hub.cmds
        PROVE  hub.cmds[i] = [name |-> IF own(i) \/ renamed(i) THEN edited.cmds[i].name ELSE before.cmds[i].name,
                              data |-> IF own(i) THEN Payload("user", i) ELSE before.cmds[i].data]
    <3>1. own(i) <=> i \in new \/ i \in mine
      <4>1. i \in DOMAIN edited.cmds => /\ edited.cmds[i].is = "new" <=> i \in new
                                        /\ edited.cmds[i].is \in {"same", "mine", "new"}
        BY DEF DInv, Shape, EditorOK, Over, EditRec
      <4>2. i \in DOMAIN edited.cmds => i \in new \/ i \in both
        BY DEF new, both
      <4>3. i \in new \/ i \in both => i \in DOMAIN edited.cmds
        BY DEF new, both
      <4>4. i \in new => i \notin both
        BY DEF new, both
      <4> QED
        BY <4>1, <4>2, <4>3, <4>4 DEF mine
    <3>2. CASE own(i)
      <4>1. hub.cmds[i] = Record(edited.cmds[i].name, Payload("user", i))
        BY <1>4, <3>1, <3>2
      <4> QED
        BY <3>2, <4>1 DEF Record
    <3>3. CASE ~own(i)
      <4>0. i \in DOMAIN before.cmds /\ i \notin gone
        BY <1>4, <3>1, <3>3
      <4>1. renamed(i) <=> i \in named
        BY <3>1, <3>3, <4>0 DEF named, both, gone
      <4>2. before.cmds[i] = [name |-> before.cmds[i].name, data |-> before.cmds[i].data]
        BY <4>0 DEF DInv, Shape, HubOK, IsDevice, Over, CmdRec
      <4>3. hub.cmds[i] = IF i \in named THEN Record(edited.cmds[i].name, before.cmds[i].data)
                          ELSE before.cmds[i]
        BY <1>4, <3>1, <3>3
      <4> HIDE DEF own, renamed
      <4> QED
        BY <3>3, <4>1, <4>2, <4>3 DEF Record
    <3> QED
      BY <3>2, <3>3
  <2>3. DOMAIN cmds = DOMAIN hub.cmds /\ \A i \in DOMAIN hub.cmds : hub.cmds[i] = cmds[i]
    <3> HIDE DEF own, renamed
    <3> QED
      BY <1>4, <2>2
  <2>4. cmds = [i \in DOMAIN cmds |-> cmds[i]] /\ hub.cmds = [i \in DOMAIN hub.cmds |-> hub.cmds[i]]
    BY <2>1
  <2> HIDE DEF cmds
  <2> QED
    BY <2>3, <2>4
<1> HIDE DEF cmds, fields
<1> QED
  BY <1>5, <1>6, <1>7

\* A step of the sync, of the service or of the others, and what it does to a
\* payload of the hub.
Survives(i) ==
  \/ i \in DOMAIN hub'.cmds /\ hub'.cmds[i].data = hub.cmds[i].data
  \/ events /\ i \notin DOMAIN edited.cmds
  \/ i \in DOMAIN edited.cmds \cap DOMAIN baseline.names /\ edited.cmds[i].is = "mine"
  \/ "foreign" \in odd' \ odd
  \/ odd' \cap {"cut", "blind", "twin", "unheard"} # {}

LEMMA OverwritesOwn ==
  ASSUME DInv, NEW i, NEW d, i \in both, Overwrite(i, d), d = hub.cmds[i].data \/ i \in mine
  PROVE  \A j \in DOMAIN hub.cmds : Survives(j)
<1> SUFFICES ASSUME NEW j \in DOMAIN hub.cmds PROVE Survives(j)
  OBVIOUS
<1>1. PICK r : r = Record(edited.cmds[i].name, d)
  OBVIOUS
<1>2. hub' = hub \/ hub' = [hub EXCEPT !.cmds = Upd(@, i, r)]
  BY <1>1 DEF Overwrite, Write
<1>3. CASE hub' = hub
  BY <1>3 DEF Survives
<1>4. CASE hub' = [hub EXCEPT !.cmds = Upd(@, i, r)]
  <2>1. hub'.cmds = Upd(hub.cmds, i, r)
    BY <1>4 DEF DInv, Shape, HubOK, IsDevice
  <2>2. j \in DOMAIN hub'.cmds /\ hub'.cmds[j] = IF j = i THEN r ELSE hub.cmds[j]
    BY <2>1 DEF Upd
  <2>3. r.data = d
    BY <1>1 DEF Record
  <2>4. CASE i \in mine /\ j = i
    BY <2>4 DEF Survives, mine, both
  <2>5. CASE d = hub.cmds[i].data \/ j # i
    BY <2>2, <2>3, <2>5 DEF Survives
  <2> QED
    BY <2>4, <2>5
<1> QED
  BY <1>2, <1>3, <1>4

LEMMA InvSurvives == DInv /\ [Next]_vars => [\A i \in DOMAIN hub.cmds : Survives(i)]_vars
<1> SUFFICES ASSUME DInv, Next, NEW i \in DOMAIN hub.cmds PROVE Survives(i)
  OBVIOUS
<1>1. ASSUME hub'.cmds = hub.cmds PROVE Survives(i)
  BY <1>1 DEF Survives
<1>2. CASE Edit \/ RequestSync \/ ClearForSync \/ ReadForSync \/ FetchPayload \/ ClaimForSync \/ Refused
           \/ ServiceClears \/ ServiceClaims \/ Done \/ Rebase
  <2>1. hub' = hub
    BY <1>2 DEF Edit, RequestSync, ClearForSync, ReadForSync, FetchPayload, ClaimForSync, Refused,
                ServiceClears, ServiceClaims, Done, Rebase
  <2> QED
    BY <1>1, <2>1
<1>3. CASE Foreign
  <2>1. "foreign" \in odd' \ odd
    BY <1>3 DEF Foreign, Undisturbed
  <2> QED
    BY <2>1 DEF Survives
<1>4. CASE WriteField
  <2>1. DOMAIN hub = {"cmds", "place", "fields"}
    BY DEF DInv, Shape, HubOK, IsDevice
  <2>2. hub'.cmds = hub.cmds
    BY <1>4, <2>1 DEF WriteField, Write
  <2> QED
    BY <1>1, <2>2
<1>5. CASE RenameCommand
  <2>1. /\ Head(plan).do = "fetch" /\ plan # << >> /\ blob # << >>
        /\ Overwrite(Head(plan).at, blob[1])
        /\ odd \subseteq odd'
    BY <1>5 DEF RenameCommand, Turn, Overwrite, Write, Goes, Calm, Trouble
  <2>2. Head(plan).at \in both
    BY <2>1, Turned, HeadStep DEF DInv, Shape, named
  <2>3. CASE odd' \cap {"cut", "blind", "twin", "unheard"} # {}
    BY <2>3 DEF Survives
  <2>4. CASE odd' \cap {"cut", "blind", "twin", "unheard"} = {}
    <3>1. Free({"cut", "blind", "twin", "unheard"})
      BY <2>1, <2>4 DEF Free
    <3>2. blob = <<hub.cmds[Head(plan).at].data>>
      BY <2>1, <3>1 DEF DInv, Course, BlobOK
    <3>3. blob[1] = hub.cmds[Head(plan).at].data
      BY <3>2
    <3> QED
      BY <2>1, <2>2, <3>3, OverwritesOwn
  <2> QED
    BY <2>3, <2>4
<1>6. CASE WritePayload
  <2>1. /\ Head(plan).do = "payload" /\ plan # << >>
        /\ Overwrite(Head(plan).at, Payload("user", Head(plan).at))
    BY <1>6 DEF WritePayload, Turn
  <2>2. Head(plan).at \in mine /\ Head(plan).at \in both
    BY <2>1, Turned, HeadStep DEF DInv, Shape, mine
  <2> QED
    BY <2>1, <2>2, OverwritesOwn
<1>7. CASE DeleteCommand
  <2>1. /\ Head(plan).do = "delete" /\ plan # << >>
        /\ hub' = [hub EXCEPT !.cmds = Without(@, Head(plan).at), !.place = Without(@, Head(plan).at)]
    BY <1>7 DEF DeleteCommand, Turn, Write
  <2>2. Head(plan).at \in gone
    BY <2>1, Turned, HeadStep DEF DInv, Shape
  <2>3. events /\ Head(plan).at \notin DOMAIN edited.cmds
    BY <2>2 DEF DInv, Shape, EditorOK, gone
  <2>4. hub'.cmds = Without(hub.cmds, Head(plan).at)
    BY <2>1 DEF DInv, Shape, HubOK, IsDevice
  <2>5. i # Head(plan).at => i \in DOMAIN hub'.cmds /\ hub'.cmds[i] = hub.cmds[i]
    BY <2>4 DEF Without, Restrict
  <2> QED
    BY <2>3, <2>5 DEF Survives
<1>8. ASSUME NEW w \in Writers, Save(w) PROVE Survives(i)
  <2>1. PICK k, h : k = adding[w].id /\ h = SavedAt(w, k)
    OBVIOUS
  <2>2. adding[w].at = "claimed" /\ (hub' = h \/ hub' = hub) /\ odd \subseteq odd'
    BY <1>8, <2>1 DEF Save, SavedAt, Trouble
  <2>3. CASE hub' = hub
    BY <1>1, <2>3
  <2>4. CASE hub' = h
    <3>1. h.cmds = Upd(hub.cmds, k, Made(w, k))
      BY <2>1 DEF SavedAt, DInv, Shape, HubOK, IsDevice
    <3>2. k # i => i \in DOMAIN hub'.cmds /\ hub'.cmds[i] = hub.cmds[i]
      BY <2>4, <3>1 DEF Upd
    <3>3. CASE odd' \cap {"cut", "blind", "twin", "unheard"} # {}
      BY <3>3 DEF Survives
    <3>4. CASE odd' \cap {"cut", "blind", "twin", "unheard"} = {}
      <4>1. Free({"blind", "twin", "unheard"})
        BY <2>2, <3>4 DEF Free
      <4>2. k \notin DOMAIN hub.cmds
        BY <2>1, <2>2, <4>1 DEF DInv, Places, ClaimsOK
      <4> QED
        BY <3>2, <4>2 DEF Survives
    <3> QED
      BY <3>3, <3>4
  <2> QED
    BY <2>2, <2>3, <2>4
<1>9. ASSUME NEW w \in Writers, Register(w) PROVE Survives(i)
  <2>1. PICK t : hub' = hub \/ hub' = [hub EXCEPT !.place = t]
    BY <1>9 DEF Register
  <2>2. hub'.cmds = hub.cmds
    BY <2>1 DEF DInv, Shape, HubOK, IsDevice
  <2> QED
    BY <1>1, <2>2
<1> QED
  BY <1>2, <1>3, <1>4, <1>5, <1>6, <1>7, <1>8, <1>9 DEF Next

\* New commands leave the order on the remote's screen as it was, for whoever
\* adds them and in whatever order their registrations reach the hub.
THEOREM OrderIsKept == Spec => []BrowseKept
BY SyncInvariant, InvBrowses, PTL

\* A sync that reports success, without the troubles it names, has made the
\* changes of the user and no other.
THEOREM SyncedDeviceAsEdited == Spec => []DeviceAsEdited
BY SyncInvariant, InvAsEdited, PTL

\* No step of the sync or of the service changes a payload that its user did
\* not change, but for the troubles it names.
THEOREM UserAloneChangesPayloads == Spec => PayloadsSurvive
<1>1. DInv /\ [Next]_vars => [\A i \in DOMAIN hub.cmds :
       \/ i \in DOMAIN hub'.cmds /\ hub'.cmds[i].data = hub.cmds[i].data
       \/ events /\ i \notin DOMAIN edited.cmds
       \/ i \in DOMAIN edited.cmds \cap DOMAIN baseline.names /\ edited.cmds[i].is = "mine"
       \/ "foreign" \in odd' \ odd
       \/ odd' \cap {"cut", "blind", "twin", "unheard"} # {}]_vars
  BY InvSurvives DEF Survives
<1> QED
  BY <1>1, SyncInvariant, PTL DEF Spec, PayloadsSurvive

-----------------------------------------------------------------------------
(* Activities: the inductive invariant.                                     *)

\* The activity has its three parts, ids and buttons in range.
Formed(a) ==
  /\ DOMAIN a = {"keys", "order", "binds"}
  /\ DOMAIN a.keys \subseteq Act!Ids /\ DOMAIN a.binds \subseteq Buttons

Dos == {"macro_write", "macro_delete", "binding_write", "binding_delete", "favorite_delete",
        "favorite_add", "favorite_order"}

\* The steps that come last destroy nothing.
Late(s) == s.do \in {"favorite_add", "favorite_order"}

\* A step names what it was planned for, by the ids of the baseline b.
StepOK(s, b, e) ==
  /\ s.do \in Dos
  /\ s.do = "macro_write" => /\ s.id \in Act!Ids /\ s.key.is = "macro"
                             /\ s.new \in BOOLEAN /\ (s.new \/ s.id \in Act!Macros(b))
  /\ s.do = "macro_delete" => s.id \in Act!Macros(b)
  /\ s.do = "binding_write" => s.button \in Buttons
  /\ s.do = "favorite_delete" =>
       s.id \in Act!Favorites(b) /\ b.keys[s.id].what = s.what /\ s.what \notin Act!Content(e)
  /\ s.do = "favorite_order" => s.tokens \in Seq(Act!Range(s.tokens))

PlanOf(p, b, e) ==
  /\ p \in Seq(Act!Range(p))
  /\ \A k \in DOMAIN p : StepOK(p[k], b, e)
  /\ \A k, l \in DOMAIN p : k <= l /\ Late(p[k]) => Late(p[l])

Ops == {"save", "delete", "sort", "bind", "unbind", "map", "give_up"}
WriteOK(w) ==
  /\ w.op \in Ops
  /\ w.op = "save" => w.id \in Act!Ids /\ w.key.is = "macro"
  /\ w.op = "sort" => w.ids \in Seq(Act!Ids)
  /\ w.op = "bind" => w.button \in Buttons
  /\ w.op = "map"  => w.after \in Seq(Act!Ids)

\* A write, maybe with a sort of the table after it.
WritesOf(ws) ==
  /\ ws \in Seq(Act!Range(ws)) /\ Len(ws) <= 2
  /\ \A k \in DOMAIN ws : WriteOK(ws[k]) /\ (k = 2 => ws[k].op = "sort")

Injective(r) == \A c, d \in DOMAIN r : r[c] = r[d] => c = d
ReadOK(r) == Act!Range(r) \subseteq Act!Ids /\ Injective(r)

ActivityOK ==
  /\ Formed(ahub) /\ Formed(abaseline) /\ Formed(aedited) /\ ahub.order \in Seq(Act!Ids)
  /\ seen \subseteq Act!Ids /\ session \subseteq Act!Ids
  /\ live = << >> \/ (live = <<live[1]>> /\ ReadOK(live[1]))

CourseOK ==
  /\ astatus \in {"editing", "checking", "running", "success", "failed"}
  /\ astatus \notin {"checking", "running"} => aplan = << >>
  /\ astatus # "running" => writes = << >> /\ live = << >>
  /\ PlanOf(aplan, abaseline, aedited) /\ WritesOf(writes)

\* Steps that may destroy something are left.
Fragile(p) == \E k \in DOMAIN p : ~Late(p[k])

\* The write that is next deletes or overwrites this id.
Strikes(ws, i) == ws # << >> /\ Head(ws).op \in {"save", "delete"} /\ Head(ws).id = i

\* The baseline b has the id for what the hub h has there, or for nothing.
Fit(b, h, i) == i \in DOMAIN b.keys => b.keys[i] = h.keys[i]

\* A favorite to keep is on the hub; as long as steps may destroy something,
\* where it is first found its id is not the baseline's for something else,
\* that place is the one that was read, and no write strikes it.
KeepsIn(c, h, b, e, p, ws, l, st) ==
  /\ Act!Places(h, c) # {}
  /\ st \in {"checking", "running"} => c \in Act!Content(e)
  /\ ~Strikes(ws, Act!Min(Act!Places(h, c)))
  /\ Fragile(p) => /\ Fit(b, h, Act!Min(Act!Places(h, c)))
                   /\ l # << >> => c \in DOMAIN l[1] /\ l[1][c] = Act!Min(Act!Places(h, c))

KeptOK ==
  /\ writes # << >> /\ Head(writes).op = "map" => ~Fragile(aplan)
  /\ "deaf" \notin aodd =>
       \A c \in kept : KeepsIn(c, ahub, abaseline, aedited, aplan, writes, live, astatus)

AInv == ActivityOK /\ CourseOK /\ KeptOK

-----------------------------------------------------------------------------
(* Activities: sequences, least ids, orders.                                *)

\* In a finite set with a strict order, each number of predecessors up to the
\* size of the set occurs.
LEMMA EachRankTaken ==
  ASSUME NEW S, IsFiniteSet(S), NEW B,
         \A i \in S : <<i, i>> \notin B,
         \A i, j, k \in S : <<i, j>> \in B /\ <<j, k>> \in B => <<i, k>> \in B,
         \A i, j \in S : i # j => <<i, j>> \in B \/ <<j, i>> \in B
  PROVE  /\ Cardinality(S) \in Nat
         /\ \A n \in 1 .. Cardinality(S) :
              \E i \in S : Cardinality({j \in S : <<j, i>> \in B}) = n - 1
<1> DEFINE below(i) == {j \in S : <<j, i>> \in B}
           c == Cardinality(S)
           rank == [i \in S |-> Cardinality(below(i)) + 1]
<1>1. c \in Nat
  BY FS_CardinalityType
<1>2. ASSUME NEW i \in S
      PROVE  IsFiniteSet(below(i)) /\ Cardinality(below(i)) \in 0 .. (c - 1)
  <2>1. below(i) \in SUBSET S /\ i \notin below(i)
    OBVIOUS
  <2>2. IsFiniteSet(below(i)) /\ Cardinality(below(i)) <= c /\ Cardinality(below(i)) \in Nat
    BY <1>1, <2>1, FS_Subset, FS_CardinalityType
  <2>3. Cardinality(below(i)) # c
    BY <1>1, <2>1, FS_Subset
  <2> QED
    BY <1>1, <2>2, <2>3
<1>3. ASSUME NEW i \in S, NEW j \in S, <<i, j>> \in B
      PROVE  Cardinality(below(i)) < Cardinality(below(j))
  <2>1. below(i) \in SUBSET below(j) /\ i \in below(j) /\ i \notin below(i)
    BY <1>3
  <2> HIDE DEF below, c
  <2>2. IsFiniteSet(below(j)) /\ Cardinality(below(i)) \in Nat /\ Cardinality(below(j)) \in Nat
    BY <1>1, <1>2
  <2>3. Cardinality(below(i)) <= Cardinality(below(j))
    BY <2>1, <2>2, FS_Subset
  <2>4. Cardinality(below(i)) # Cardinality(below(j))
    BY <2>1, <2>2, FS_Subset
  <2> QED
    BY <2>2, <2>3, <2>4
<1>4. rank \in [S -> 1 .. c]
  <2>1. \A i \in S : Cardinality(below(i)) \in 0 .. (c - 1)
    BY <1>2
  <2> HIDE DEF below, c
  <2> QED
    BY <1>1, <2>1
<1>5. \A i, j \in S : rank[i] = rank[j] => i = j
  <2> SUFFICES ASSUME NEW i \in S, NEW j \in S, i # j PROVE rank[i] # rank[j]
    OBVIOUS
  <2>1. <<i, j>> \in B \/ <<j, i>> \in B
    OBVIOUS
  <2>2. Cardinality(below(i)) \in Nat /\ Cardinality(below(j)) \in Nat
    <3>1. Cardinality(below(i)) \in 0 .. (c - 1) /\ Cardinality(below(j)) \in 0 .. (c - 1)
      BY <1>2
    <3> HIDE DEF below, c
    <3> QED
      BY <1>1, <3>1
  <2>3. Cardinality(below(i)) < Cardinality(below(j)) \/ Cardinality(below(j)) < Cardinality(below(i))
    BY <1>3, <2>1
  <2> HIDE DEF below
  <2> QED
    BY <2>2, <2>3
<1>6. ASSUME NEW n \in 1 .. c PROVE \E i \in S : rank[i] = n
  <2> HIDE DEF rank
  <2>1. rank \in Injection(S, 1 .. c)
    BY <1>4, <1>5 DEF Injection, IsInjective
  <2>2. IsFiniteSet(1 .. c) /\ Cardinality(1 .. c) = c
    BY <1>1, FS_Interval
  <2>3. rank \in Surjection(S, 1 .. c)
    BY <2>1, <2>2, FS_Injection
  <2> QED
    BY <2>3 DEF Surjection
<1>7. ASSUME NEW n \in 1 .. c PROVE \E i \in S : Cardinality(below(i)) = n - 1
  <2>1. PICK i \in S : rank[i] = n
    BY <1>6
  <2>2. Cardinality(below(i)) \in Nat /\ Cardinality(below(i)) + 1 = n /\ n \in Nat
    BY <1>1, <1>2, <2>1
  <2> HIDE DEF below
  <2> QED
    BY <2>2
<1> QED
  BY <1>1, <1>7

\* The instance counts as the library does.
LEMMA SameCount ==
  ASSUME NEW S PROVE Act!Cardinality(S) = Cardinality(S)
BY DEF Act!Cardinality, Cardinality
LEMMA SameFinite ==
  ASSUME NEW S PROVE Act!IsFiniteSet(S) <=> IsFiniteSet(S)
BY DEF Act!IsFiniteSet, IsFiniteSet

LEMMA IdsFinite ==
  ASSUME Act!EditBounds, NEW S \in SUBSET Act!Ids
  PROVE  IsFiniteSet(S) /\ MaxKey \in Nat /\ Cardinality(S) \in 0 .. MaxKey
<1>1. MaxKey \in Nat
  BY DEF Act!EditBounds
<1>2. IsFiniteSet(1 .. MaxKey) /\ Cardinality(1 .. MaxKey) = MaxKey
  BY <1>1, FS_Interval
<1>3. S \in SUBSET (1 .. MaxKey)
  BY DEF Act!Ids
<1>4. IsFiniteSet(S) /\ Cardinality(S) <= MaxKey
  BY <1>1, <1>2, <1>3, FS_Subset
<1> QED
  BY <1>1, <1>4, FS_CardinalityType

\* A sequence of the elements of a set of numbers, in ascending order.
LEMMA AscendingIn ==
  ASSUME NEW S \in SUBSET Nat, IsFiniteSet(S)
  PROVE  Act!Ascending(S) \in Seq(S) /\ Len(Act!Ascending(S)) = Cardinality(S)
<1> DEFINE B == {p \in S \X S : p[1] < p[2]}
           c == Cardinality(S)
           below(i) == {j \in S : j < i}
<1>1. \A i, j \in S : <<i, j>> \in B <=> i < j
  OBVIOUS
<1>2. \A i, j \in S : i \in Nat /\ j \in Nat
  OBVIOUS
<1>3. \A i \in S : {j \in S : <<j, i>> \in B} = below(i)
  BY <1>1
<1> HIDE DEF B
<1>4. /\ \A i \in S : <<i, i>> \notin B
      /\ \A i, j, k \in S : <<i, j>> \in B /\ <<j, k>> \in B => <<i, k>> \in B
      /\ \A i, j \in S : i # j => <<i, j>> \in B \/ <<j, i>> \in B
  BY <1>1, <1>2
<1>5. c \in Nat /\ \A n \in 1 .. c : \E i \in S : Cardinality({j \in S : <<j, i>> \in B}) = n - 1
  BY <1>4, EachRankTaken
<1>6. \A n \in 1 .. c : \E i \in S : Cardinality(below(i)) = n - 1
  BY <1>3, <1>5
<1> DEFINE at(n) == CHOOSE i \in S : Act!Cardinality({j \in S : j < i}) = n - 1
<1>7. ASSUME NEW n \in 1 .. c PROVE at(n) \in S
  <2>1. PICK i \in S : Cardinality(below(i)) = n - 1
    BY <1>6
  <2>2. Act!Cardinality({j \in S : j < i}) = n - 1
    BY <2>1, SameCount
  <2> QED
    BY <2>2
<1>8. Act!Cardinality(S) = c
  BY SameCount
<1>9. Act!Ascending(S) = [n \in 1 .. Act!Cardinality(S) |-> at(n)]
  BY DEF Act!Ascending, Act!Sorted
<1>10. Act!Ascending(S) = [n \in 1 .. c |-> at(n)]
  BY <1>8, <1>9
<1> HIDE DEF at, c, below
<1>11. /\ DOMAIN Act!Ascending(S) = 1 .. c
       /\ \A n \in 1 .. c : Act!Ascending(S)[n] \in S
       /\ Act!Ascending(S) = [n \in 1 .. c |-> Act!Ascending(S)[n]]
  BY <1>7, <1>10
<1>12. Act!Ascending(S) \in [1 .. c -> S]
  BY <1>11
<1>13. Act!Ascending(S) \in Seq(S)
  BY <1>5, <1>12, SeqDef
<1> QED
  BY <1>5, <1>11, <1>13, LenProperties DEF c

\* The greatest and the least of a set.
LEMMA MaxIn ==
  ASSUME NEW N \in Nat, NEW S \in SUBSET (0 .. N), S # {}
  PROVE  Act!Max(S) \in S /\ \A m \in S : Act!Max(S) >= m
<1>1. \E n \in S : \A m \in S : n >= m
  BY GreatestOf
<1>2. Act!Max(S) = CHOOSE n \in S : \A m \in S : n >= m
  BY DEF Act!Max
<1> QED
  BY <1>1, <1>2, Zenon

LEMMA MinIn ==
  ASSUME NEW S \in SUBSET Nat, S # {}
  PROVE  /\ Act!Min(S) \in S /\ \A m \in S : Act!Min(S) <= m
         /\ \A n \in S : (\A m \in S : n <= m) => Act!Min(S) = n
<1>1. \E n \in S : \A m \in S : n <= m
  BY LeastOf
<1>2. Act!Min(S) = CHOOSE n \in S : \A m \in S : n <= m
  BY DEF Act!Min
<1>3. Act!Min(S) \in S /\ \A m \in S : Act!Min(S) <= m
  BY <1>1, <1>2, Zenon
<1>4. ASSUME NEW n \in S, \A m \in S : n <= m PROVE Act!Min(S) = n
  <2>1. n <= Act!Min(S) /\ Act!Min(S) <= n
    BY <1>3, <1>4
  <2>2. n \in Nat /\ Act!Min(S) \in Nat
    BY <1>3
  <2> QED
    BY <2>1, <2>2
<1> QED
  BY <1>3, <1>4

\* What is not the least of a set can be taken from it.
LEMMA MinStays ==
  ASSUME NEW S \in SUBSET Nat, S # {}, NEW T \in SUBSET S, Act!Min(S) \in T
  PROVE  T # {} /\ Act!Min(T) = Act!Min(S)
<1>1. \A m \in T : Act!Min(S) <= m
  BY MinIn
<1>2. T \in SUBSET Nat /\ T # {}
  OBVIOUS
<1> QED
  BY <1>1, <1>2, MinIn

\* The elements of s that are in a set.
LEMMA ThoseIn ==
  ASSUME NEW X, NEW s \in Seq(X), NEW S
  PROVE  Act!Those(s, S) \in Seq(X \cap S)
<1> DEFINE K == {k \in DOMAIN s : s[k] \in S}
<1>1. DOMAIN s = 1 .. Len(s) /\ Len(s) \in Nat /\ \A k \in DOMAIN s : s[k] \in X
  BY LenProperties
<1>2. IsFiniteSet(K) /\ K \in SUBSET Nat /\ Cardinality(K) \in Nat
  <2>1. IsFiniteSet(1 .. Len(s))
    BY <1>1, FS_Interval
  <2>2. K \in SUBSET (1 .. Len(s))
    BY <1>1
  <2>3. IsFiniteSet(K)
    BY <2>1, <2>2, FS_Subset
  <2> QED
    BY <2>2, <2>3, FS_CardinalityType
<1>3. Act!Ascending(K) \in Seq(K) /\ Len(Act!Ascending(K)) = Cardinality(K)
  BY <1>2, AscendingIn
<1>4. DOMAIN Act!Ascending(K) = 1 .. Cardinality(K) /\ \A n \in 1 .. Cardinality(K) : Act!Ascending(K)[n] \in K
  BY <1>3, LenProperties
<1>5. \A k \in K : s[k] \in X \cap S
  BY <1>1
<1>6. Act!Cardinality(K) = Cardinality(K)
  BY SameCount
<1>7. Act!Those(s, S) = [n \in 1 .. Act!Cardinality(K) |-> s[Act!Ascending(K)[n]]]
  BY DEF Act!Those
<1> HIDE DEF K
<1>8. Act!Those(s, S) \in [1 .. Cardinality(K) -> X \cap S]
  BY <1>4, <1>5, <1>6, <1>7
<1> QED
  BY <1>2, <1>8, SeqDef

LEMMA RangeIs == ASSUME NEW f PROVE Act!Range(f) = {f[x] : x \in DOMAIN f}
BY DEF Act!Range

\* The place of an id on the screen.
LEMMA RankIn ==
  ASSUME NEW a, a.order \in Seq(Act!Ids), Act!EditBounds, NEW i \in Act!Ids
  PROVE  Act!Rank(a, i) \in Int
<1> DEFINE o == a.order
           K == {k \in DOMAIN o : o[k] = i}
<1>1. DOMAIN o = 1 .. Len(o) /\ Len(o) \in Nat /\ \A k \in DOMAIN o : o[k] \in Act!Ids
  BY LenProperties
<1>2. Act!Range(o) = {o[k] : k \in DOMAIN o}
  BY RangeIs
<1>3. i \in Int
  BY DEF Act!Ids
<1>4. CASE i \in Act!Range(o)
  <2>1. K \in SUBSET (0 .. Len(o)) /\ K # {}
    BY <1>1, <1>2, <1>4
  <2>2. Act!Max(K) \in K
    BY <1>1, <2>1, MaxIn
  <2>3. Act!Max(K) \in Int
    BY <1>1, <2>1, <2>2
  <2>4. Act!Rank(a, i) = Act!Max(K) - 1
    BY <1>4 DEF Act!Rank
  <2> HIDE DEF K
  <2> QED
    BY <2>3, <2>4
<1>5. CASE i \notin Act!Range(o)
  <2>1. Act!Range(o) \in SUBSET Act!Ids
    BY <1>1, <1>2
  <2>2. Cardinality(Act!Range(o)) \in 0 .. MaxKey /\ MaxKey \in Nat
    BY <2>1, IdsFinite
  <2>3. Act!Cardinality(Act!Range(o)) = Cardinality(Act!Range(o))
    BY SameCount
  <2>4. Act!Rank(a, i) = Act!Cardinality(Act!Range(o)) + i
    BY <1>5 DEF Act!Rank
  <2> QED
    BY <1>3, <2>2, <2>3, <2>4
<1> QED
  BY <1>4, <1>5

LEMMA DisplayIn ==
  ASSUME NEW a, a.order \in Seq(Act!Ids), DOMAIN a.keys \in SUBSET Act!Ids, Act!EditBounds
  PROVE  Act!Display(a) \in Seq(Act!Ids)
<1> DEFINE S == DOMAIN a.keys
           c == Cardinality(S)
           B == {p \in S \X S : Act!Before(a, p[1], p[2])}
           below(i) == {j \in S : Act!Before(a, j, i)}
           r(i) == Act!Rank(a, i)
<1>1. IsFiniteSet(S) /\ c \in Nat
  <2>1. IsFiniteSet(S)
    BY IdsFinite
  <2> QED
    BY <2>1, FS_CardinalityType
<1>2. \A i \in S : r(i) \in Int /\ i \in Int
  BY RankIn DEF Act!Ids
<1>3. \A i, j \in S : Act!Before(a, i, j) <=> r(i) < r(j) \/ (r(i) = r(j) /\ i < j)
  BY DEF Act!Before
<1>4. \A i, j \in S : <<i, j>> \in B <=> Act!Before(a, i, j)
  OBVIOUS
<1>5. \A i \in S : {j \in S : <<j, i>> \in B} = below(i)
  BY <1>4
<1> HIDE DEF B, r
<1>6. /\ \A i \in S : <<i, i>> \notin B
      /\ \A i, j, k \in S : <<i, j>> \in B /\ <<j, k>> \in B => <<i, k>> \in B
      /\ \A i, j \in S : i # j => <<i, j>> \in B \/ <<j, i>> \in B
  BY <1>2, <1>3, <1>4
<1>7. \A n \in 1 .. c : \E i \in S : Cardinality({j \in S : <<j, i>> \in B}) = n - 1
  BY <1>1, <1>6, EachRankTaken
<1>8. \A n \in 1 .. c : \E i \in S : Cardinality(below(i)) = n - 1
  BY <1>5, <1>7
<1> DEFINE at(n) == CHOOSE i \in S : Act!Cardinality({j \in S : Act!Before(a, j, i)}) = n - 1
<1>9. ASSUME NEW n \in 1 .. c PROVE at(n) \in S
  <2>1. PICK i \in S : Cardinality(below(i)) = n - 1
    BY <1>8
  <2>2. Act!Cardinality({j \in S : Act!Before(a, j, i)}) = n - 1
    BY <2>1, SameCount
  <2> QED
    BY <2>2
<1>10. Act!Cardinality(S) = c
  BY SameCount
<1>11. Act!Display(a) = [n \in 1 .. Act!Cardinality(S) |-> at(n)]
  BY DEF Act!Display, Act!Sorted
<1> HIDE DEF at, c, below
<1>12. Act!Display(a) \in [1 .. c -> Act!Ids]
  <2>1. \A n \in 1 .. c : at(n) \in Act!Ids
    BY <1>9
  <2> QED
    BY <1>10, <1>11, <2>1
<1> QED
  BY <1>1, <1>12, SeqDef DEF c

\* How long the list on the screen is.
LEMMA DisplayLong ==
  ASSUME NEW a, DOMAIN a.keys \in SUBSET Act!Ids, Act!EditBounds
  PROVE  /\ Act!Display(a) \in Seq(Act!Range(Act!Display(a)))
         /\ Len(Act!Display(a)) \in 0 .. MaxKey /\ MaxKey \in Nat
<1> DEFINE S == DOMAIN a.keys
           c == Cardinality(S)
           d == Act!Display(a)
           at(n) == CHOOSE i \in S : Act!Cardinality({j \in S : Act!Before(a, j, i)}) = n - 1
<1>1. c \in 0 .. MaxKey /\ MaxKey \in Nat
  BY IdsFinite
<1>2. Act!Cardinality(S) = c
  BY SameCount
<1>3. d = [n \in 1 .. Act!Cardinality(S) |-> at(n)]
  BY DEF Act!Display, Act!Sorted
<1> HIDE DEF at, c, d
<1>4. DOMAIN d = 1 .. c /\ d = [n \in 1 .. c |-> d[n]]
  BY <1>2, <1>3
<1>5. \A n \in 1 .. c : d[n] \in Act!Range(d)
  BY <1>4, RangeIs
<1>6. d \in [1 .. c -> Act!Range(d)]
  BY <1>4, <1>5
<1>7. c \in Nat
  BY <1>1
<1>8. d \in Seq(Act!Range(d))
  BY <1>6, <1>7, SeqDef
<1> QED
  BY <1>1, <1>4, <1>7, <1>8, LenProperties DEF d

-----------------------------------------------------------------------------
(* Activities: the plan.                                                    *)

\* Two sequences, one after the other.
LEMMA OneAfterTheOther ==
  ASSUME NEW X, NEW Y, NEW s \in Seq(X), NEW t \in Seq(Y)
  PROVE  /\ s \o t \in Seq(X \cup Y)
         /\ Len(s) \in Nat /\ Len(t) \in Nat
         /\ DOMAIN (s \o t) = 1 .. Len(s) + Len(t)
         /\ \A k \in DOMAIN (s \o t) :
              IF k <= Len(s) THEN (s \o t)[k] \in X ELSE (s \o t)[k] \in Y
<1> DEFINE U == X \cup Y
<1>1. s \in Seq(U) /\ t \in Seq(U)
  BY SeqMonotonic
<1>2. /\ DOMAIN s = 1 .. Len(s) /\ DOMAIN t = 1 .. Len(t) /\ Len(s) \in Nat /\ Len(t) \in Nat
      /\ \A k \in 1 .. Len(s) : s[k] \in X
      /\ \A k \in 1 .. Len(t) : t[k] \in Y
  BY LenProperties
<1> DEFINE u == s \o t
<1>3. /\ u \in Seq(U) /\ DOMAIN u = 1 .. Len(s) + Len(t)
      /\ \A k \in 1 .. Len(s) + Len(t) : u[k] = IF k <= Len(s) THEN s[k] ELSE t[k - Len(s)]
  BY <1>1, ConcatProperties, LenProperties
<1> HIDE DEF u
<1>4. ASSUME NEW k \in DOMAIN u PROVE IF k <= Len(s) THEN u[k] \in X ELSE u[k] \in Y
  <2>1. CASE k <= Len(s)
    <3>1. k \in 1 .. Len(s)
      BY <1>2, <1>3, <2>1
    <3> QED
      BY <1>2, <1>3, <2>1, <3>1
  <2>2. CASE ~(k <= Len(s))
    <3>1. k - Len(s) \in 1 .. Len(t)
      BY <1>2, <1>3, <2>2
    <3> QED
      BY <1>2, <1>3, <2>2, <3>1
  <2> QED
    BY <2>1, <2>2
<1> QED
  BY <1>2, <1>3, <1>4 DEF u

\* A sequence over the ids of a set.
LEMMA EachIn ==
  ASSUME NEW S \in SUBSET Nat, IsFiniteSet(S), NEW X, NEW g,
         g = [k \in 1 .. Act!Cardinality(S) |-> g[k]],
         \A k \in 1 .. Cardinality(S) : Act!Ascending(S)[k] \in S => g[k] \in X
  PROVE  g \in Seq(X)
<1>1. Act!Ascending(S) \in Seq(S) /\ Len(Act!Ascending(S)) = Cardinality(S)
  BY AscendingIn
<1>2. \A k \in 1 .. Cardinality(S) : Act!Ascending(S)[k] \in S
  BY <1>1, LenProperties
<1>3. Act!Cardinality(S) = Cardinality(S) /\ Cardinality(S) \in Nat
  BY SameCount, FS_CardinalityType
<1>4. g \in [1 .. Cardinality(S) -> X]
  BY <1>2, <1>3
<1> QED
  BY <1>3, <1>4, SeqDef

LEMMA IdsAreNumbers ==
  ASSUME Act!EditBounds, NEW S \in SUBSET Act!Ids
  PROVE  S \in SUBSET Nat /\ IsFiniteSet(S)
BY IdsFinite DEF Act!Ids

LEMMA MacroStepsOK ==
  ASSUME Act!EditBounds, NEW b, NEW e, Formed(b), Formed(e), NEW pair
  PROVE  \E X : /\ Act!MacroSteps(b, e, pair) \in Seq(X)
                /\ \A s \in X : StepOK(s, b, e) /\ ~Late(s)
<1> DEFINE with(j) == {i \in Act!Macros(e) \cap DOMAIN pair : pair[i] = j}
           paired  == {j \in Act!Macros(b) : \E i \in with(j) : e.keys[i] # b.keys[j]}
           of(j)   == CHOOSE i \in with(j) : TRUE
           news    == Act!Macros(e) \ DOMAIN pair
           dropped   == Act!Macros(b) \ Act!Range(pair)
           W(j)    == [do |-> "macro_write", id |-> j, key |-> e.keys[of(j)], new |-> FALSE]
           N(i)    == [do |-> "macro_write", id |-> i, key |-> e.keys[i], new |-> TRUE]
           D(j)    == [do |-> "macro_delete", id |-> j]
           ws == [k \in 1 .. Act!Cardinality(paired) |-> W(Act!Ascending(paired)[k])]
           ns == [k \in 1 .. Act!Cardinality(news) |-> N(Act!Ascending(news)[k])]
           ds == [k \in 1 .. Act!Cardinality(dropped) |-> D(Act!Ascending(dropped)[k])]
           X1 == {W(j) : j \in paired}
           X2 == {N(i) : i \in news}
           X3 == {D(j) : j \in dropped}
<1>1. Act!MacroSteps(b, e, pair) = ws \o ns \o ds
  BY DEF Act!MacroSteps, Act!Each
<1>2. /\ Act!Macros(b) \in SUBSET Act!Ids /\ Act!Macros(e) \in SUBSET Act!Ids
      /\ \A i \in Act!Macros(e) : e.keys[i].is = "macro"
  BY DEF Formed, Act!Macros, Act!Kind
<1>3. \A j \in paired : W(j).key.is = "macro"
  <2>1. \A j \in paired : of(j) \in Act!Macros(e)
    OBVIOUS
  <2> QED
    BY <1>2, <2>1
<1>4. \A s \in X1 : StepOK(s, b, e) /\ ~Late(s)
  <2> SUFFICES ASSUME NEW j \in paired PROVE StepOK(W(j), b, e) /\ ~Late(W(j))
    OBVIOUS
  <2>1. W(j).key.is = "macro" /\ j \in Act!Macros(b) /\ j \in Act!Ids
    BY <1>2, <1>3
  <2>2. W(j).do = "macro_write" /\ W(j).id = j /\ W(j).new = FALSE
    OBVIOUS
  <2> HIDE DEF W
  <2> QED
    BY <2>1, <2>2 DEF StepOK, Late, Dos
<1>5. \A s \in X2 : StepOK(s, b, e) /\ ~Late(s)
  <2> SUFFICES ASSUME NEW i \in news PROVE StepOK(N(i), b, e) /\ ~Late(N(i))
    OBVIOUS
  <2>1. N(i).key.is = "macro" /\ i \in Act!Ids
    BY <1>2
  <2>2. N(i).do = "macro_write" /\ N(i).id = i /\ N(i).new = TRUE
    OBVIOUS
  <2> HIDE DEF N
  <2> QED
    BY <2>1, <2>2 DEF StepOK, Late, Dos
<1>6. \A s \in X3 : StepOK(s, b, e) /\ ~Late(s)
  <2> SUFFICES ASSUME NEW j \in dropped PROVE StepOK(D(j), b, e) /\ ~Late(D(j))
    OBVIOUS
  <2>2. D(j).do = "macro_delete" /\ D(j).id = j /\ j \in Act!Macros(b)
    OBVIOUS
  <2> HIDE DEF D
  <2> QED
    BY <2>2 DEF StepOK, Late, Dos
<1>7. paired \in SUBSET Act!Ids /\ news \in SUBSET Act!Ids /\ dropped \in SUBSET Act!Ids
  BY <1>2
<1>8. /\ \A j \in paired : W(j) \in X1
      /\ \A j \in news : N(j) \in X2
      /\ \A j \in dropped : D(j) \in X3
  OBVIOUS
<1> HIDE DEF W, N, D, paired, news, dropped, X1, X2, X3
<1>9. ws \in Seq(X1) /\ ns \in Seq(X2) /\ ds \in Seq(X3)
  <2>1. ws = [k \in 1 .. Act!Cardinality(paired) |-> ws[k]]
    OBVIOUS
  <2>2. ns = [k \in 1 .. Act!Cardinality(news) |-> ns[k]]
    OBVIOUS
  <2>3. ds = [k \in 1 .. Act!Cardinality(dropped) |-> ds[k]]
    OBVIOUS
  <2>4. /\ Act!Cardinality(paired) = Cardinality(paired)
        /\ Act!Cardinality(news) = Cardinality(news)
        /\ Act!Cardinality(dropped) = Cardinality(dropped)
    BY SameCount
  <2>5. \A k \in 1 .. Cardinality(paired) : Act!Ascending(paired)[k] \in paired => ws[k] \in X1
    BY <1>8, <2>4
  <2>6. \A k \in 1 .. Cardinality(news) : Act!Ascending(news)[k] \in news => ns[k] \in X2
    BY <1>8, <2>4
  <2>7. \A k \in 1 .. Cardinality(dropped) : Act!Ascending(dropped)[k] \in dropped => ds[k] \in X3
    BY <1>8, <2>4
  <2> HIDE DEF ws, ns, ds
  <2>8. ws \in Seq(X1)
    BY <1>7, <2>1, <2>5, EachIn, IdsAreNumbers
  <2>9. ns \in Seq(X2)
    BY <1>7, <2>2, <2>6, EachIn, IdsAreNumbers
  <2>10. ds \in Seq(X3)
    BY <1>7, <2>3, <2>7, EachIn, IdsAreNumbers
  <2> QED
    BY <2>8, <2>9, <2>10
<1> HIDE DEF ws, ns, ds
<1>10. (ws \o ns) \o ds \in Seq((X1 \cup X2) \cup X3)
  BY <1>9, OneAfterTheOther
<1>11. \A s \in (X1 \cup X2) \cup X3 : StepOK(s, b, e) /\ ~Late(s)
  BY <1>4, <1>5, <1>6
<1> QED
  BY <1>1, <1>10, <1>11

LEMMA SetToSeqIn ==
  ASSUME NEW S, IsFiniteSet(S)
  PROVE  Act!SetToSeq(S) \in Seq(S)
<1> DEFINE c == Cardinality(S)
<1>1. c \in Nat /\ ExistsBijection(1 .. c, S)
  BY FS_CardinalityType
<1>2. PICK f \in Bijection(1 .. c, S) : TRUE
  BY <1>1 DEF ExistsBijection
<1>3. f \in [1 .. c -> S] /\ Act!IsInjective(f)
  BY <1>2 DEF Bijection, Injection, IsInjective, Act!IsInjective
<1>4. Act!Cardinality(S) = c
  BY SameCount
<1>5. Act!SetToSeq(S) = CHOOSE g \in [1 .. Act!Cardinality(S) -> S] : Act!IsInjective(g)
  BY DEF Act!SetToSeq
<1> HIDE DEF c
<1>6. Act!SetToSeq(S) \in [1 .. c -> S]
  BY <1>3, <1>4, <1>5, Zenon
<1> QED
  BY <1>1, <1>6, SeqDef

LEMMA BindingStepsOK ==
  ASSUME Act!EditBounds, NEW b, NEW e, Formed(b), Formed(e), NEW pair
  PROVE  \E X : /\ Act!BindingSteps(b, e, pair) \in Seq(X)
                /\ \A s \in X : StepOK(s, b, e) /\ ~Late(s)
<1> DEFINE normal(t) == IF t.is = "macro" /\ t.id \in DOMAIN pair THEN Act!RunMacro(pair[t.id]) ELSE t
           rebound  == {x \in DOMAIN e.binds : x \notin DOMAIN b.binds
                                                 \/ b.binds[x] # normal(e.binds[x])}
           unbound     == DOMAIN b.binds \ DOMAIN e.binds
           W(x) == [do |-> "binding_write", button |-> x, to |-> normal(e.binds[x])]
           D(x) == [do |-> "binding_delete", button |-> x]
           X1 == {W(x) : x \in rebound}
           X2 == {D(x) : x \in unbound}
<1>1. Act!BindingSteps(b, e, pair) = Act!SetToSeq(X1) \o Act!SetToSeq(X2)
  BY DEF Act!BindingSteps
<1>2. rebound \in SUBSET Buttons /\ unbound \in SUBSET Buttons
  BY DEF Formed
<1>3. IsFiniteSet(Buttons)
  BY SameFinite DEF Act!EditBounds
<1>4. IsFiniteSet(rebound) /\ IsFiniteSet(unbound)
  <2> HIDE DEF rebound, unbound
  <2> QED
    BY <1>2, <1>3, FS_Subset
<1>5. \A s \in X1 : StepOK(s, b, e) /\ ~Late(s)
  <2> SUFFICES ASSUME NEW x \in rebound PROVE StepOK(W(x), b, e) /\ ~Late(W(x))
    OBVIOUS
  <2>1. x \in Buttons
    BY <1>2
  <2>2. W(x).do = "binding_write" /\ W(x).button = x
    OBVIOUS
  <2> HIDE DEF W
  <2> QED
    BY <2>1, <2>2 DEF StepOK, Late, Dos
<1>6. \A s \in X2 : StepOK(s, b, e) /\ ~Late(s)
  <2> SUFFICES ASSUME NEW x \in unbound PROVE StepOK(D(x), b, e) /\ ~Late(D(x))
    OBVIOUS
  <2>1. D(x).do = "binding_delete"
    OBVIOUS
  <2> HIDE DEF D
  <2> QED
    BY <2>1 DEF StepOK, Late, Dos
<1> HIDE DEF W, D, rebound, unbound
<1>7. IsFiniteSet(X1)
  <2> DEFINE f == [x \in rebound |-> W(x)]
  <2>1. f \in Surjection(rebound, X1)
    BY DEF Surjection
  <2> QED
    BY <1>4, <2>1, FS_Surjection
<1>8. IsFiniteSet(X2)
  <2> DEFINE f == [x \in unbound |-> D(x)]
  <2>1. f \in Surjection(unbound, X2)
    BY DEF Surjection
  <2> QED
    BY <1>4, <2>1, FS_Surjection
<1> HIDE DEF X1, X2
<1>9. Act!SetToSeq(X1) \in Seq(X1) /\ Act!SetToSeq(X2) \in Seq(X2)
  BY <1>7, <1>8, SetToSeqIn
<1>10. Act!SetToSeq(X1) \o Act!SetToSeq(X2) \in Seq(X1 \cup X2)
  BY <1>9, OneAfterTheOther
<1>11. \A s \in X1 \cup X2 : StepOK(s, b, e) /\ ~Late(s)
  BY <1>5, <1>6
<1> QED
  BY <1>1, <1>10, <1>11

LEMMA FavoriteStepsOK ==
  ASSUME Act!EditBounds, NEW b, NEW e, Formed(b), Formed(e), NEW pair
  PROVE  \E X, Y, s, t, u :
           /\ Act!FavoriteSteps(b, e, pair) = s \o t \o u
           /\ s \in Seq(X) /\ t \in Seq(Y) /\ u \in Seq(Y)
           /\ \A z \in X : StepOK(z, b, e) /\ ~Late(z)
           /\ \A z \in Y : StepOK(z, b, e) /\ Late(z)
<1> DEFINE unbound == {i \in Act!Favorites(b) : b.keys[i].what \notin Act!Content(e)}
           added == {i \in Act!Favorites(e) : e.keys[i].what \notin Act!Content(b)}
           fresh == added \cup (Act!Macros(e) \ DOMAIN pair)
           stays(i) == IF i \in Act!Favorites(b) THEN i \notin unbound ELSE i \in Act!Range(pair)
           self == [j \in Act!Range(pair) |-> j]
           tokens(a, p, d) == [k \in DOMAIN d |-> Act!Token(a, p, d[k])]
           desired == tokens(e, pair, Act!Display(e))
           natural == tokens(b, self, Act!Those(Act!Display(b), {i \in DOMAIN b.keys : stays(i)}))
                      \o tokens(e, pair, Act!Those(Act!Display(e), fresh))
           order == [do |-> "favorite_order", tokens |-> desired]
           asked == desired # << >> /\ (desired # natural \/ Act!Macros(e) \ DOMAIN pair # {})
           D(i) == [do |-> "favorite_delete", id |-> i, what |-> b.keys[i].what]
           A(i) == [do |-> "favorite_add", what |-> e.keys[i].what]
           ds == [k \in 1 .. Act!Cardinality(unbound) |-> D(Act!Ascending(unbound)[k])]
           as == [k \in 1 .. Act!Cardinality(added) |-> A(Act!Ascending(added)[k])]
           os == IF asked THEN <<order>> ELSE << >>
           X == {D(i) : i \in unbound}
           Y == {A(i) : i \in added} \cup {order}
<1>1. Act!FavoriteSteps(b, e, pair) = ds \o as \o os
  BY DEF Act!FavoriteSteps, Act!Each
<1>2. unbound \in SUBSET Act!Ids /\ added \in SUBSET Act!Ids
  BY DEF Formed, Act!Favorites, Act!Kind
<1>3. \A z \in X : StepOK(z, b, e) /\ ~Late(z)
  <2> SUFFICES ASSUME NEW i \in unbound PROVE StepOK(D(i), b, e) /\ ~Late(D(i))
    OBVIOUS
  <2>1. i \in Act!Favorites(b) /\ b.keys[i].what \notin Act!Content(e)
    OBVIOUS
  <2>2. D(i).do = "favorite_delete" /\ D(i).id = i /\ D(i).what = b.keys[i].what
    OBVIOUS
  <2> HIDE DEF D
  <2> QED
    BY <2>1, <2>2 DEF StepOK, Late, Dos
<1>4. \A i \in added : StepOK(A(i), b, e) /\ Late(A(i))
  <2> SUFFICES ASSUME NEW i \in added PROVE StepOK(A(i), b, e) /\ Late(A(i))
    OBVIOUS
  <2>1. A(i).do = "favorite_add"
    OBVIOUS
  <2> HIDE DEF A
  <2> QED
    BY <2>1 DEF StepOK, Late, Dos
<1> HIDE DEF natural, asked
<1>5. StepOK(order, b, e) /\ Late(order)
  <2>1. desired \in Seq(Act!Range(desired))
    <3>1. DOMAIN Act!Display(e) = 1 .. Len(Act!Display(e)) /\ Len(Act!Display(e)) \in Nat
      BY DisplayLong, LenProperties DEF Formed
    <3>2. desired = [k \in 1 .. Len(Act!Display(e)) |-> desired[k]]
      BY <3>1
    <3> HIDE DEF desired
    <3>3. DOMAIN desired = 1 .. Len(Act!Display(e))
      BY <3>2
    <3>4. \A k \in 1 .. Len(Act!Display(e)) : desired[k] \in Act!Range(desired)
      BY <3>3, RangeIs
    <3>5. desired \in [1 .. Len(Act!Display(e)) -> Act!Range(desired)]
      BY <3>2, <3>4
    <3> QED
      BY <3>1, <3>5, SeqDef
  <2> HIDE DEF desired
  <2>2. order.do = "favorite_order" /\ order.tokens = desired
    OBVIOUS
  <2> HIDE DEF order
  <2> QED
    BY <2>1, <2>2 DEF StepOK, Late, Dos
<1> HIDE DEF desired
<1>6. /\ \A i \in unbound : D(i) \in X
      /\ \A i \in added : A(i) \in Y
      /\ order \in Y
  OBVIOUS
<1>7. \A z \in Y : StepOK(z, b, e) /\ Late(z)
  BY <1>4, <1>5
<1> HIDE DEF D, A, order, X, Y, unbound, added
<1>8. ds \in Seq(X)
  <2>1. ds = [k \in 1 .. Act!Cardinality(unbound) |-> ds[k]]
    OBVIOUS
  <2>2. Act!Cardinality(unbound) = Cardinality(unbound)
    BY SameCount
  <2>3. \A k \in 1 .. Cardinality(unbound) : Act!Ascending(unbound)[k] \in unbound => ds[k] \in X
    BY <1>6, <2>2
  <2> HIDE DEF ds
  <2> QED
    BY <1>2, <2>1, <2>3, EachIn, IdsAreNumbers
<1>9. as \in Seq(Y)
  <2>1. as = [k \in 1 .. Act!Cardinality(added) |-> as[k]]
    OBVIOUS
  <2>2. Act!Cardinality(added) = Cardinality(added)
    BY SameCount
  <2>3. \A k \in 1 .. Cardinality(added) : Act!Ascending(added)[k] \in added => as[k] \in Y
    BY <1>6, <2>2
  <2> HIDE DEF as
  <2> QED
    BY <1>2, <2>1, <2>3, EachIn, IdsAreNumbers
<1>10. os \in Seq(Y)
  BY <1>6
<1> HIDE DEF ds, as, os
<1> QED
  BY <1>1, <1>3, <1>7, <1>8, <1>9, <1>10

\* A sequence is one over what it holds.
LEMMA SeqsOverRange ==
  ASSUME NEW X, NEW s \in Seq(X)
  PROVE  s \in Seq(Act!Range(s)) /\ DOMAIN s = 1 .. Len(s) /\ Len(s) \in Nat
<1>1. Len(s) \in Nat /\ DOMAIN s = 1 .. Len(s) /\ s \in [1 .. Len(s) -> X]
  BY LenProperties
<1>2. \A k \in 1 .. Len(s) : s[k] \in Act!Range(s)
  BY <1>1, RangeIs
<1>3. s \in [1 .. Len(s) -> Act!Range(s)]
  BY <1>1, <1>2
<1> QED
  BY <1>1, <1>3, SeqDef

\* The first n elements of p are in X and the others in Y.
Split(p, n, X, Y) ==
  /\ p \in Seq(X \cup Y) /\ n \in 0 .. Len(p)
  /\ \A k \in 1 .. Len(p) : IF k <= n THEN p[k] \in X ELSE p[k] \in Y

LEMMA SplitLeft ==
  ASSUME NEW X, NEW Y, NEW p, NEW n, Split(p, n, X, Y), NEW m \in Seq(X)
  PROVE  Split(m \o p, Len(m) + n, X, Y)
<1> DEFINE U == X \cup Y
           q == m \o p
<1>1. m \in Seq(U) /\ p \in Seq(U) /\ n \in 0 .. Len(p)
  BY SeqMonotonic DEF Split
<1>2. /\ Len(m) \in Nat /\ Len(p) \in Nat
      /\ \A k \in 1 .. Len(m) : m[k] \in X
      /\ \A k \in 1 .. Len(p) : IF k <= n THEN p[k] \in X ELSE p[k] \in Y
  BY <1>1, LenProperties DEF Split
<1>3. /\ q \in Seq(U) /\ Len(q) = Len(m) + Len(p)
      /\ \A k \in 1 .. Len(m) + Len(p) : q[k] = IF k <= Len(m) THEN m[k] ELSE p[k - Len(m)]
  BY <1>1, ConcatProperties
<1> HIDE DEF q
<1>4. ASSUME NEW k \in 1 .. Len(q) PROVE IF k <= Len(m) + n THEN q[k] \in X ELSE q[k] \in Y
  <2>1. CASE k <= Len(m)
    <3>1. k \in 1 .. Len(m) /\ k <= Len(m) + n
      BY <1>1, <1>2, <1>3, <2>1
    <3> QED
      BY <1>2, <1>3, <2>1, <3>1
  <2>2. CASE ~(k <= Len(m))
    <3>1. k - Len(m) \in 1 .. Len(p) /\ (k <= Len(m) + n <=> k - Len(m) <= n)
      BY <1>1, <1>2, <1>3, <2>2
    <3> QED
      BY <1>2, <1>3, <2>2, <3>1
  <2> QED
    BY <2>1, <2>2
<1>5. Len(m) + n \in 0 .. Len(q)
  BY <1>1, <1>2, <1>3
<1> QED
  BY <1>3, <1>4, <1>5 DEF Split, q

LEMMA SplitRight ==
  ASSUME NEW X, NEW Y, NEW p, NEW n, Split(p, n, X, Y), NEW m \in Seq(Y)
  PROVE  Split(p \o m, n, X, Y)
<1> DEFINE U == X \cup Y
           q == p \o m
<1>1. m \in Seq(U) /\ p \in Seq(U) /\ n \in 0 .. Len(p)
  BY SeqMonotonic DEF Split
<1>2. /\ Len(m) \in Nat /\ Len(p) \in Nat
      /\ \A k \in 1 .. Len(m) : m[k] \in Y
      /\ \A k \in 1 .. Len(p) : IF k <= n THEN p[k] \in X ELSE p[k] \in Y
  BY <1>1, LenProperties DEF Split
<1>3. /\ q \in Seq(U) /\ Len(q) = Len(p) + Len(m)
      /\ \A k \in 1 .. Len(p) + Len(m) : q[k] = IF k <= Len(p) THEN p[k] ELSE m[k - Len(p)]
  BY <1>1, ConcatProperties
<1> HIDE DEF q
<1>4. ASSUME NEW k \in 1 .. Len(q) PROVE IF k <= n THEN q[k] \in X ELSE q[k] \in Y
  <2>1. CASE k <= Len(p)
    <3>1. k \in 1 .. Len(p)
      BY <1>1, <1>2, <1>3, <2>1
    <3> QED
      BY <1>2, <1>3, <2>1, <3>1
  <2>2. CASE ~(k <= Len(p))
    <3>1. k - Len(p) \in 1 .. Len(m) /\ ~(k <= n)
      BY <1>1, <1>2, <1>3, <2>2
    <3> QED
      BY <1>2, <1>3, <2>2, <3>1
  <2> QED
    BY <2>1, <2>2
<1>5. n \in 0 .. Len(q)
  BY <1>1, <1>2, <1>3
<1> QED
  BY <1>3, <1>4, <1>5 DEF Split, q

\* The sequence s has no element of Y.
LEMMA SplitOne ==
  ASSUME NEW X, NEW Y, NEW s \in Seq(X)
  PROVE  Split(s, Len(s), X, Y)
<1>1. s \in Seq(X \cup Y) /\ Len(s) \in Nat /\ \A k \in 1 .. Len(s) : s[k] \in X
  BY SeqMonotonic, LenProperties
<1> QED
  BY <1>1 DEF Split

LEMMA PlanIs ==
  ASSUME Act!EditBounds, NEW b, NEW e, Formed(b), Formed(e)
  PROVE  PlanOf(Act!Plan(b, e), b, e)
<1> DEFINE pair == Act!Pairing(b, e)
           ms == Act!MacroSteps(b, e, pair)
           bs == Act!BindingSteps(b, e, pair)
<1>1. Act!Plan(b, e) = ms \o bs \o Act!FavoriteSteps(b, e, pair)
  BY DEF Act!Plan
<1> HIDE DEF pair
<1>2. PICK X1 : ms \in Seq(X1) /\ \A s \in X1 : StepOK(s, b, e) /\ ~Late(s)
  BY MacroStepsOK
<1>3. PICK X2 : bs \in Seq(X2) /\ \A s \in X2 : StepOK(s, b, e) /\ ~Late(s)
  BY BindingStepsOK
<1>4. PICK X3, Y, s, t, u :
           /\ Act!FavoriteSteps(b, e, pair) = s \o t \o u
           /\ s \in Seq(X3) /\ t \in Seq(Y) /\ u \in Seq(Y)
           /\ \A z \in X3 : StepOK(z, b, e) /\ ~Late(z)
           /\ \A z \in Y : StepOK(z, b, e) /\ Late(z)
  BY FavoriteStepsOK
<1> DEFINE X == X1 \cup X2 \cup X3
           f == (s \o t) \o u
           p == (ms \o bs) \o f
<1> HIDE DEF ms, bs
<1>5. s \in Seq(X)
  BY <1>4, SeqMonotonic
<1>6. ms \o bs \in Seq(X)
  <2>1. ms \in Seq(X) /\ bs \in Seq(X)
    BY <1>2, <1>3, SeqMonotonic
  <2> HIDE DEF X
  <2> QED
    BY <2>1, ConcatProperties
<1>7. PICK n : Split(p, n, X, Y)
  <2> HIDE DEF X
  <2>1. Split(s \o t, Len(s), X, Y)
    BY <1>4, <1>5, SplitOne, SplitRight
  <2>2. Split(f, Len(s), X, Y)
    BY <1>4, <2>1, SplitRight
  <2> HIDE DEF f
  <2>3. Split(p, Len(ms \o bs) + Len(s), X, Y)
    BY <1>6, <2>2, SplitLeft
  <2> QED
    BY <2>3
<1>8. Act!Plan(b, e) = p
  BY <1>1, <1>4
<1>9. \A z \in X : StepOK(z, b, e) /\ ~Late(z)
  BY <1>2, <1>3, <1>4
<1> HIDE DEF X, f, p
<1>10. /\ p \in Seq(X \cup Y) /\ n \in Int /\ DOMAIN p = 1 .. Len(p) /\ Len(p) \in Nat
       /\ \A k \in 1 .. Len(p) : IF k <= n THEN p[k] \in X ELSE p[k] \in Y
  <2>1. p \in Seq(X \cup Y) /\ n \in 0 .. Len(p)
        /\ \A k \in 1 .. Len(p) : IF k <= n THEN p[k] \in X ELSE p[k] \in Y
    BY <1>7 DEF Split
  <2>2. DOMAIN p = 1 .. Len(p) /\ Len(p) \in Nat
    BY <2>1, LenProperties
  <2> QED
    BY <2>1, <2>2
<1>11. p \in Seq(Act!Range(p))
  BY <1>10, SeqsOverRange
<1>12. \A k \in DOMAIN p : StepOK(p[k], b, e)
  BY <1>4, <1>9, <1>10
<1>13. \A k \in DOMAIN p : Late(p[k]) <=> ~(k <= n)
  BY <1>4, <1>9, <1>10
<1>14. \A k, l \in DOMAIN p : k <= l /\ Late(p[k]) => Late(p[l])
  <2>1. \A k \in DOMAIN p : k \in Nat
    BY <1>10
  <2> QED
    BY <1>10, <1>13, <2>1
<1> QED
  BY <1>8, <1>11, <1>12, <1>14 DEF PlanOf

-----------------------------------------------------------------------------
(* Activities: edits.                                                       *)

LEMMA JoinLong ==
  ASSUME NEW X, NEW s \in Seq(X), NEW t \in Seq(X)
  PROVE  s \o t \in Seq(X) /\ Len(s \o t) = Len(s) + Len(t)
BY ConcatProperties

LEMMA PiecesLong ==
  ASSUME NEW X, NEW d \in Seq(X), NEW k \in DOMAIN d, NEW p \in DOMAIN d
  PROVE  DOMAIN Act!InsertAt(Act!RemoveAt(d, k), p, d[k]) = 1 .. Len(d)
<1> DEFINE n == Len(d)
           before1 == SubSeq(d, 1, k - 1)
           after1  == SubSeq(d, k + 1, Len(d))
           r == before1 \o after1
           before2 == SubSeq(r, 1, p - 1)
           after2  == SubSeq(r, p, Len(r))
           one == <<d[k]>>
<1>1. n \in Nat /\ DOMAIN d = 1 .. n /\ d[k] \in X /\ k \in 1 .. n /\ p \in 1 .. n
  BY LenProperties
<1>2. Act!RemoveAt(d, k) = r /\ Act!InsertAt(r, p, d[k]) = before2 \o one \o after2
  BY DEF Act!RemoveAt, Act!InsertAt
<1>3. before1 \in Seq(X) /\ Len(before1) = k - 1
  <2>1. k - 1 <= n /\ 1 \in 1 .. n + 1 /\ k - 1 \in 0 .. n
    BY <1>1
  <2>2. \A i \in 1 .. (k - 1) : i \in 1 .. n
    BY <1>1
  <2> QED
    BY <1>1, <2>1, <2>2, SubSeqProperties
<1>4. after1 \in Seq(X) /\ Len(after1) = n - k
  <2>1. k + 1 \in 1 .. n + 1 /\ n \in k .. n
    BY <1>1
  <2> QED
    BY <1>1, <2>1, SubSeqProperties
<1> HIDE DEF before1, after1, r
<1>5. r \in Seq(X) /\ Len(r) = n - 1
  <2>1. r \in Seq(X) /\ Len(r) = Len(before1) + Len(after1)
    BY <1>3, <1>4, JoinLong DEF r
  <2> QED
    BY <1>1, <1>3, <1>4, <2>1
<1>6. before2 \in Seq(X) /\ Len(before2) = p - 1
  <2>1. 1 \in 1 .. (n - 1) + 1 /\ p - 1 \in 0 .. (n - 1)
    BY <1>1
  <2> QED
    BY <1>1, <1>5, <2>1, SubSeqProperties
<1>7. after2 \in Seq(X) /\ Len(after2) = n - p
  <2>1. p \in 1 .. (n - 1) + 1 /\ n - 1 \in (p - 1) .. (n - 1)
    BY <1>1
  <2> QED
    BY <1>1, <1>5, <2>1, SubSeqProperties
<1>8. one \in Seq(X) /\ Len(one) = 1
  BY <1>1
<1> HIDE DEF before2, after2, one
<1>9. before2 \o one \in Seq(X) /\ Len(before2 \o one) = p
  <2>1. before2 \o one \in Seq(X) /\ Len(before2 \o one) = Len(before2) + Len(one)
    BY <1>6, <1>8, JoinLong
  <2> QED
    BY <1>1, <1>6, <1>8, <2>1
<1>10. (before2 \o one) \o after2 \in Seq(X) /\ Len((before2 \o one) \o after2) = n
  <2>1. PICK two : two = before2 \o one
    OBVIOUS
  <2>2. two \o after2 \in Seq(X) /\ Len(two \o after2) = Len(two) + Len(after2)
    BY <1>7, <1>9, <2>1, JoinLong
  <2>3. Len(two) + Len(after2) = n
    <3>1. Len(two) = p /\ Len(after2) = n - p
      BY <1>7, <1>9, <2>1, Zenon
    <3> QED
      BY <1>1, <3>1
  <2>4. two \o after2 \in Seq(X) /\ Len(two \o after2) = n
    BY <2>2, <2>3
  <2> QED
    BY <2>1, <2>4, Zenon
<1>11. DOMAIN ((before2 \o one) \o after2) = 1 .. n
  BY <1>10, LenProperties
<1> QED
  BY <1>2, <1>11

LEMMA MovedFormed ==
  ASSUME Act!EditBounds, NEW a, Formed(a), NEW x \in Act!Moved(a)
  PROVE  Formed(x)
<1> DEFINE d == Act!Display(a)
<1>1. PICK k, p \in DOMAIN d : x = Act!Renumbered(a, Act!InsertAt(Act!RemoveAt(d, k), p, d[k]))
  BY DEF Act!Moved
<1>2. d \in Seq(Act!Range(d)) /\ Len(d) \in 0 .. MaxKey /\ MaxKey \in Nat
  BY DisplayLong DEF Formed
<1> HIDE DEF d
<1> DEFINE s == Act!InsertAt(Act!RemoveAt(d, k), p, d[k])
<1>3. DOMAIN s = 1 .. Len(d)
  BY <1>2, PiecesLong
<1> HIDE DEF s
<1>4. x = Act!Renumbered(a, s)
  BY <1>1 DEF s
<1>5. DOMAIN x = {"keys", "order", "binds"} /\ DOMAIN x.keys = DOMAIN s /\ DOMAIN x.binds = DOMAIN a.binds
  BY <1>4 DEF Act!Renumbered
<1>6. DOMAIN s \subseteq Act!Ids
  BY <1>2, <1>3 DEF Act!Ids
<1> QED
  BY <1>5, <1>6 DEF Formed

\* The parts of an activity with a key more, or changed, and with one less.
LEMMA WithKeyIs ==
  ASSUME NEW a, Formed(a), NEW i, NEW e
  PROVE  LET x == Act!WithKey(a, i, e)
         IN /\ DOMAIN x = DOMAIN a /\ x.order = a.order /\ x.binds = a.binds
            /\ DOMAIN x.keys = DOMAIN a.keys \cup {i}
            /\ \A j \in DOMAIN x.keys : x.keys[j] = IF j = i THEN e ELSE a.keys[j]
BY DEF Act!WithKey, Act!Upd, Formed

LEMMA DeletedIs ==
  ASSUME NEW a, Formed(a), NEW i
  PROVE  LET x == Act!Deleted(a, i)
         IN /\ DOMAIN x = DOMAIN a /\ x.order = a.order /\ DOMAIN x.binds \subseteq DOMAIN a.binds
            /\ DOMAIN x.keys = DOMAIN a.keys \ {i}
            /\ \A j \in DOMAIN x.keys : x.keys[j] = a.keys[j]
<1> DEFINE B == {b \in DOMAIN a.binds : a.keys[i].is = "macro" => a.binds[b] # Act!RunMacro(i)}
<1>1. Act!Deleted(a, i) = [[a EXCEPT !.keys = Act!Without(a.keys, i)] EXCEPT !.binds = [b \in B |-> a.binds[b]]]
  BY DEF Act!Deleted, Formed
<1>2. DOMAIN Act!Without(a.keys, i) = DOMAIN a.keys \ {i}
      /\ \A j \in DOMAIN a.keys \ {i} : Act!Without(a.keys, i)[j] = a.keys[j]
  BY DEF Act!Without
<1> QED
  BY <1>1, <1>2 DEF Formed

LEMMA WithKeyFormed ==
  ASSUME NEW a, Formed(a), NEW i \in Act!Ids, NEW e
  PROVE  Formed(Act!WithKey(a, i, e))
<1>1. LET x == Act!WithKey(a, i, e)
      IN DOMAIN x = DOMAIN a /\ x.binds = a.binds /\ DOMAIN x.keys = DOMAIN a.keys \cup {i}
  BY WithKeyIs
<1> QED
  BY <1>1 DEF Formed

LEMMA DeletedFormed ==
  ASSUME NEW a, Formed(a), NEW i
  PROVE  Formed(Act!Deleted(a, i))
<1>1. LET x == Act!Deleted(a, i)
      IN DOMAIN x = DOMAIN a /\ DOMAIN x.binds \subseteq DOMAIN a.binds /\ DOMAIN x.keys = DOMAIN a.keys \ {i}
  BY DeletedIs
<1> QED
  BY <1>1 DEF Formed

LEMMA NextIdIn ==
  ASSUME Act!EditBounds, NEW a, Formed(a), Act!NextId(a) <= MaxKey
  PROVE  Act!NextId(a) \in Act!Ids
<1> DEFINE S == {0} \cup DOMAIN a.keys
<1>1. MaxKey \in Nat /\ S \in SUBSET (0 .. MaxKey) /\ S # {}
  BY DEF Act!EditBounds, Formed, Act!Ids
<1>2. Act!Max(S) \in S
  BY <1>1, MaxIn
<1>3. Act!NextId(a) = 1 + Act!Max(S)
  BY DEF Act!NextId
<1> HIDE DEF S
<1> QED
  <2>1. Act!Max(S) \in 0 .. MaxKey
    BY <1>1, <1>2
  <2>2. 1 + Act!Max(S) \in 1 .. MaxKey
    BY <1>1, <1>3, <2>1
  <2> QED
    BY <1>3, <2>2 DEF Act!Ids

LEMMA EditsFormed ==
  ASSUME Act!EditBounds, NEW a, Formed(a), Act!NextId(a) <= MaxKey, NEW x \in Act!Edits(a)
  PROVE  Formed(x)
<1>1. CASE x \in Act!Moved(a)
  BY <1>1, MovedFormed
<1>2. CASE \E i \in DOMAIN a.keys : x = Act!Deleted(a, i)
  BY <1>2, DeletedFormed
<1>3. CASE \E e : x = Act!WithKey(a, Act!NextId(a), e)
  BY <1>3, NextIdIn, WithKeyFormed
<1>4. CASE x \in Act!MacroEdits(a)
  <2>1. PICK i \in Act!Macros(a), n \in Names, s \in Scripts : x = Act!WithKey(a, i, Act!Macro(n, s))
    BY <1>4 DEF Act!MacroEdits
  <2>2. i \in Act!Ids
    BY DEF Act!Macros, Act!Kind, Formed
  <2> QED
    BY <2>1, <2>2, WithKeyFormed
<1>5. CASE \E b \in Buttons : \E t : x = [a EXCEPT !.binds = Act!Upd(@, b, t)]
  BY <1>5 DEF Formed, Act!Upd
<1>6. CASE \E b \in DOMAIN a.binds : x = [a EXCEPT !.binds = Act!Without(@, b)]
  BY <1>6 DEF Formed, Act!Without
<1> QED
  BY <1>1, <1>2, <1>3, <1>4, <1>5, <1>6 DEF Act!Edits

-----------------------------------------------------------------------------
(* Activities: what is left of the plan and of the writes.                  *)

LEMMA BoundsHold == Act!EditBounds /\ Act!BasesAreActivities
BY ActivityBounds

LEMMA ActivityFormed ==
  ASSUME NEW a, Act!IsActivity(a) PROVE Formed(a) /\ a.order \in Seq(Act!Ids)
BY DEF Act!IsActivity, Formed

LEMMA TailOf ==
  ASSUME NEW X, NEW s \in Seq(X), s # << >>
  PROVE  /\ Tail(s) \in Seq(Act!Range(Tail(s))) /\ Len(Tail(s)) = Len(s) - 1 /\ Len(s) \in Nat \ {0}
         /\ DOMAIN Tail(s) = 1 .. Len(s) - 1 /\ 1 \in DOMAIN s /\ Head(s) = s[1]
         /\ DOMAIN s = 1 .. Len(s)
         /\ \A k \in DOMAIN Tail(s) : k + 1 \in DOMAIN s /\ Tail(s)[k] = s[k + 1]
<1>1. Tail(s) \in Seq(X) /\ Len(Tail(s)) = Len(s) - 1
      /\ \A k \in 1 .. Len(Tail(s)) : Tail(s)[k] = s[k + 1]
  BY HeadTailProperties
<1>2. Len(s) \in Nat /\ DOMAIN s = 1 .. Len(s) /\ Len(s) # 0
  BY LenProperties, EmptySeq
<1>3. Tail(s) \in Seq(Act!Range(Tail(s))) /\ DOMAIN Tail(s) = 1 .. Len(s) - 1
  BY <1>1, SeqsOverRange
<1>4. \A k \in 1 .. Len(s) - 1 : k + 1 \in 1 .. Len(s)
  BY <1>2
<1>5. Head(s) = s[1]
  OBVIOUS
<1> QED
  BY <1>1, <1>2, <1>3, <1>4, <1>5

LEMMA PlanTail ==
  ASSUME NEW p, NEW b, NEW e, PlanOf(p, b, e), p # << >>
  PROVE  /\ PlanOf(Tail(p), b, e) /\ StepOK(Head(p), b, e)
         /\ Fragile(Tail(p)) => Fragile(p)
         /\ IF Late(Head(p)) THEN ~Fragile(Tail(p)) ELSE Fragile(p)
<1>1. p \in Seq(Act!Range(p))
  BY DEF PlanOf
<1>2. /\ Tail(p) \in Seq(Act!Range(Tail(p))) /\ DOMAIN Tail(p) = 1 .. Len(p) - 1 /\ Len(p) \in Nat \ {0}
      /\ DOMAIN p = 1 .. Len(p) /\ 1 \in DOMAIN p /\ Head(p) = p[1]
      /\ \A k \in DOMAIN Tail(p) : k + 1 \in DOMAIN p /\ Tail(p)[k] = p[k + 1]
  BY <1>1, TailOf
<1>3. /\ \A k \in DOMAIN p : StepOK(p[k], b, e)
      /\ \A k, l \in DOMAIN p : k <= l /\ Late(p[k]) => Late(p[l])
  BY DEF PlanOf
<1>4. \A k \in DOMAIN Tail(p) : StepOK(Tail(p)[k], b, e)
  BY <1>2, <1>3
<1>5. \A k, l \in DOMAIN Tail(p) : k <= l /\ Late(Tail(p)[k]) => Late(Tail(p)[l])
  <2> SUFFICES ASSUME NEW k \in DOMAIN Tail(p), NEW l \in DOMAIN Tail(p), k <= l, Late(Tail(p)[k])
               PROVE Late(Tail(p)[l])
    OBVIOUS
  <2>1. k + 1 \in DOMAIN p /\ l + 1 \in DOMAIN p /\ k + 1 <= l + 1 /\ Late(p[k + 1])
    BY <1>2
  <2> QED
    BY <1>2, <1>3, <2>1
<1>6. PlanOf(Tail(p), b, e)
  BY <1>2, <1>4, <1>5 DEF PlanOf
<1>7. Fragile(Tail(p)) => Fragile(p)
  BY <1>2 DEF Fragile
<1>8. ASSUME Late(Head(p)) PROVE ~Fragile(Tail(p))
  <2>1. \A k \in DOMAIN p : 1 <= k
    BY <1>2
  <2>2. \A k \in DOMAIN p : Late(p[k])
    BY <1>2, <1>3, <1>8, <2>1
  <2> QED
    BY <1>2, <2>2 DEF Fragile
<1>9. ASSUME ~Late(Head(p)) PROVE Fragile(p)
  BY <1>2, <1>9 DEF Fragile
<1> QED
  BY <1>2, <1>3, <1>6, <1>7, <1>8, <1>9

LEMMA EmptyPlan ==
  ASSUME NEW b, NEW e PROVE PlanOf(<< >>, b, e) /\ ~Fragile(<< >>)
BY DEF PlanOf, Fragile

LEMMA WritesTail ==
  ASSUME NEW ws, WritesOf(ws), ws # << >>
  PROVE  /\ WritesOf(Tail(ws)) /\ WriteOK(Head(ws))
         /\ Tail(ws) # << >> => Head(Tail(ws)).op = "sort"
<1>1. ws \in Seq(Act!Range(ws)) /\ Len(ws) <= 2
      /\ \A k \in DOMAIN ws : WriteOK(ws[k]) /\ (k = 2 => ws[k].op = "sort")
  BY DEF WritesOf
<1>2. /\ Tail(ws) \in Seq(Act!Range(Tail(ws))) /\ Len(Tail(ws)) = Len(ws) - 1 /\ Len(ws) \in Nat \ {0}
      /\ DOMAIN Tail(ws) = 1 .. Len(ws) - 1 /\ 1 \in DOMAIN ws /\ Head(ws) = ws[1]
      /\ \A k \in DOMAIN Tail(ws) : k + 1 \in DOMAIN ws /\ Tail(ws)[k] = ws[k + 1]
  BY <1>1, TailOf
<1>3. \A k \in DOMAIN Tail(ws) : k = 1
  BY <1>1, <1>2
<1>4. \A k \in DOMAIN Tail(ws) : WriteOK(Tail(ws)[k]) /\ k # 2 /\ Tail(ws)[k].op = "sort"
  BY <1>1, <1>2, <1>3
<1>5. WritesOf(Tail(ws))
  BY <1>1, <1>2, <1>4 DEF WritesOf
<1>6. ASSUME Tail(ws) # << >> PROVE Head(Tail(ws)).op = "sort"
  <2>1. 1 \in DOMAIN Tail(ws) /\ Head(Tail(ws)) = Tail(ws)[1]
    BY <1>2, <1>6, TailOf
  <2> QED
    BY <1>4, <2>1
<1> QED
  BY <1>1, <1>2, <1>5, <1>6

LEMMA NoWrites == WritesOf(<< >>)
BY DEF WritesOf

LEMMA OneWrite ==
  ASSUME NEW w, WriteOK(w)
  PROVE  WritesOf(<<w>>) /\ Head(<<w>>) = w /\ Tail(<<w>>) = << >> /\ <<w>> # << >>
<1>1. /\ <<w>> \in Seq({w}) /\ Len(<<w>>) = 1 /\ DOMAIN <<w>> = 1 .. 1
      /\ \A k \in 1 .. 1 : <<w>>[k] = w /\ k = 1
  OBVIOUS
<1>2. <<w>> \in Seq(Act!Range(<<w>>))
  BY <1>1, SeqsOverRange
<1>3. WritesOf(<<w>>)
  BY <1>1, <1>2 DEF WritesOf
<1> QED
  BY <1>1, <1>3

LEMMA TwoWrites ==
  ASSUME NEW w, NEW v, WriteOK(w), WriteOK(v), v.op = "sort"
  PROVE  WritesOf(<<w, v>>) /\ Head(<<w, v>>) = w /\ <<w, v>> # << >>
<1>1. /\ <<w, v>> \in Seq({w, v}) /\ Len(<<w, v>>) = 2 /\ DOMAIN <<w, v>> = 1 .. 2
      /\ \A k \in 1 .. 2 : (k = 1 /\ <<w, v>>[k] = w) \/ (k = 2 /\ <<w, v>>[k] = v)
  OBVIOUS
<1>2. <<w, v>> \in Seq(Act!Range(<<w, v>>))
  BY <1>1, SeqsOverRange
<1>3. WritesOf(<<w, v>>)
  BY <1>1, <1>2 DEF WritesOf
<1> QED
  BY <1>1, <1>3

\* A favorite where the hub h has a place for it.
LEMMA PlacesAre ==
  ASSUME NEW h, NEW c, NEW i
  PROVE  i \in Act!Places(h, c) <=> i \in DOMAIN h.keys /\ h.keys[i].is = "favorite" /\ h.keys[i].what = c
BY DEF Act!Places, Act!Favorites, Act!Kind

LEMMA PlacesNat ==
  ASSUME NEW h, Formed(h), NEW c
  PROVE  Act!Places(h, c) \in SUBSET Nat /\ (Act!Places(h, c) # {} <=> c \in Act!Content(h))
<1>1. Act!Places(h, c) \subseteq DOMAIN h.keys /\ Act!Ids \subseteq Nat
  BY PlacesAre DEF Act!Ids
<1>2. Act!Places(h, c) # {} <=> c \in Act!Content(h)
  BY DEF Act!Places, Act!Content
<1> QED
  BY <1>1, <1>2 DEF Formed

\* Where a favorite is first found.
LEMMA SpotIs ==
  ASSUME NEW h, Formed(h), NEW c, Act!Places(h, c) # {}
  PROVE  LET i == Act!Min(Act!Places(h, c))
         IN i \in Act!Places(h, c) /\ i \in DOMAIN h.keys /\ h.keys[i].is = "favorite" /\ h.keys[i].what = c
BY PlacesNat, MinIn, PlacesAre

LEMMA NothingKept ==
  ASSUME NEW c, NEW h, NEW b, NEW e, NEW l, NEW st, Act!Places(h, c) # {}, st \notin {"checking", "running"}
  PROVE  KeepsIn(c, h, b, e, << >>, << >>, l, st)
BY EmptyPlan DEF KeepsIn, Strikes

-----------------------------------------------------------------------------
(* Activities: each action keeps the invariant.                             *)

LEMMA ActEdit == ASSUME AInv, Act!Edit PROVE AInv'
<1> USE BoundsHold
<1>1. /\ astatus \in {"editing", "failed"} /\ Act!NextId(aedited) <= MaxKey
      /\ aedited' \in Act!Edits(aedited) /\ astatus' = "editing"
      /\ "deaf" \notin aodd' => "deaf" \notin aodd
      /\ UNCHANGED <<ahub, abaseline, aplan, writes, seen, live, session, kept>>
  BY DEF Act!Edit, Act!run
<1>2. aplan = << >> /\ writes = << >> /\ live = << >>
  BY <1>1 DEF AInv, CourseOK
<1>3. Formed(aedited')
  BY <1>1, EditsFormed DEF AInv, ActivityOK
<1>4. ActivityOK'
  BY <1>1, <1>3 DEF AInv, ActivityOK
<1>5. CourseOK'
  BY <1>1, <1>2, EmptyPlan, NoWrites DEF CourseOK
<1>6. KeptOK'
  <2>1. ASSUME "deaf" \notin aodd', NEW c \in kept
        PROVE KeepsIn(c, ahub', abaseline', aedited', aplan', writes', live', astatus')
    <3>1. Act!Places(ahub, c) # {}
      BY <1>1, <2>1 DEF AInv, KeptOK, KeepsIn
    <3> QED
      BY <1>1, <1>2, <3>1, NothingKept
  <2> QED
    BY <1>1, <1>2, <2>1 DEF KeptOK
<1> QED
  BY <1>4, <1>5, <1>6 DEF AInv

\* An edit by others: the favorites that are still to be kept are where they were.
LEMMA ForeignHub ==
  ASSUME AInv, Act!Foreign
  PROVE  /\ Formed(ahub') /\ ahub'.order \in Seq(Act!Ids)
         /\ \A i \in DOMAIN ahub.keys \cap DOMAIN ahub'.keys : ahub'.keys[i] = ahub.keys[i]
<1> USE BoundsHold
<1>0. Formed(ahub) /\ ahub.order \in Seq(Act!Ids)
  BY DEF AInv, ActivityOK
<1>1. CASE \E i \in DOMAIN ahub.keys :
             ahub' = [Act!Deleted(ahub, i) EXCEPT !.order = Act!Those(@, Act!Ids \ {i})]
  <2>1. PICK i \in DOMAIN ahub.keys : ahub' = [Act!Deleted(ahub, i) EXCEPT !.order = Act!Those(@, Act!Ids \ {i})]
    BY <1>1
  <2>2. PICK h : h = Act!Deleted(ahub, i)
    OBVIOUS
  <2>3. /\ DOMAIN h = DOMAIN ahub /\ h.order = ahub.order /\ Formed(h)
        /\ \A j \in DOMAIN h.keys : h.keys[j] = ahub.keys[j]
    BY <1>0, <2>2, DeletedIs, DeletedFormed
  <2>4. ahub' = [h EXCEPT !.order = Act!Those(h.order, Act!Ids \ {i})]
    BY <2>1, <2>2
  <2>5. Act!Those(h.order, Act!Ids \ {i}) \in Seq(Act!Ids \cap (Act!Ids \ {i}))
    BY <1>0, <2>3, ThoseIn
  <2>6. Act!Those(h.order, Act!Ids \ {i}) \in Seq(Act!Ids)
    BY <2>5, SeqMonotonic
  <2>7. DOMAIN ahub' = DOMAIN h /\ ahub'.keys = h.keys /\ ahub'.binds = h.binds
        /\ ahub'.order = Act!Those(h.order, Act!Ids \ {i})
    BY <1>0, <2>3, <2>4 DEF Formed
  <2> QED
    BY <2>3, <2>6, <2>7 DEF Formed
<1>2. CASE \E c \in Commands, i \in Act!Ids \ DOMAIN ahub.keys :
             ahub' = [Act!WithKey(ahub, i, Act!Favorite(c)) EXCEPT !.order = Append(@, i)]
  <2>1. PICK c \in Commands, i \in Act!Ids \ DOMAIN ahub.keys :
             ahub' = [Act!WithKey(ahub, i, Act!Favorite(c)) EXCEPT !.order = Append(@, i)]
    BY <1>2
  <2>2. PICK h : h = Act!WithKey(ahub, i, Act!Favorite(c))
    OBVIOUS
  <2>3. /\ DOMAIN h = DOMAIN ahub /\ h.order = ahub.order /\ Formed(h)
        /\ \A j \in DOMAIN h.keys : h.keys[j] = IF j = i THEN Act!Favorite(c) ELSE ahub.keys[j]
    BY <1>0, <2>2, WithKeyIs, WithKeyFormed
  <2>4. ahub' = [h EXCEPT !.order = Append(h.order, i)]
    BY <2>1, <2>2
  <2>5. Append(h.order, i) \in Seq(Act!Ids)
    BY <1>0, <2>3, AppendProperties
  <2>6. DOMAIN ahub' = DOMAIN h /\ ahub'.keys = h.keys /\ ahub'.binds = h.binds
        /\ ahub'.order = Append(h.order, i)
    BY <1>0, <2>3, <2>4 DEF Formed
  <2> QED
    BY <2>3, <2>5, <2>6 DEF Formed
<1>3. CASE \E d \in {Act!Display(ahub)} : ahub' = [ahub EXCEPT !.order = Act!Reverse(d)]
  <2>1. PICK d : d = Act!Display(ahub) /\ ahub' = [ahub EXCEPT !.order = Act!Reverse(d)]
    BY <1>3
  <2>2. d \in Seq(Act!Ids)
    BY <1>0, <2>1, DisplayIn DEF Formed
  <2>3. Act!Reverse(d) \in Seq(Act!Ids)
    <3>1. Len(d) \in Nat /\ \A k \in 1 .. Len(d) : d[k] \in Act!Ids
      BY <2>2, LenProperties
    <3>2. \A k \in 1 .. Len(d) : (Len(d) - k) + 1 \in 1 .. Len(d)
      BY <3>1
    <3>3. Act!Reverse(d) = [k \in 1 .. Len(d) |-> d[(Len(d) - k) + 1]]
      BY DEF Act!Reverse
    <3>4. Act!Reverse(d) \in [1 .. Len(d) -> Act!Ids]
      BY <3>1, <3>2, <3>3
    <3> QED
      BY <3>1, <3>4, SeqDef
  <2>4. DOMAIN ahub' = DOMAIN ahub /\ ahub'.keys = ahub.keys /\ ahub'.binds = ahub.binds
        /\ ahub'.order = Act!Reverse(d)
    BY <1>0, <2>1 DEF Formed
  <2> QED
    BY <1>0, <2>3, <2>4 DEF Formed
<1> QED
  BY <1>1, <1>2, <1>3 DEF Act!Foreign

LEMMA ActForeign == ASSUME AInv, Act!Foreign PROVE AInv'
<1> USE BoundsHold
<1>1. /\ kept' = {c \in kept : Act!Places(ahub', c) = Act!Places(ahub, c)}
      /\ "deaf" \notin aodd' => "deaf" \notin aodd
      /\ UNCHANGED <<abaseline, aedited, astatus, aplan, writes, seen, live, session>>
  BY DEF Act!Foreign, Act!Trouble, Act!editor, Act!run
<1>2. /\ Formed(ahub') /\ ahub'.order \in Seq(Act!Ids)
      /\ \A i \in DOMAIN ahub.keys \cap DOMAIN ahub'.keys : ahub'.keys[i] = ahub.keys[i]
  BY ForeignHub
<1>3. ActivityOK'
  BY <1>1, <1>2 DEF AInv, ActivityOK
<1>4. CourseOK'
  BY <1>1 DEF AInv, CourseOK
<1>5. KeptOK'
  <2>1. ASSUME "deaf" \notin aodd', NEW c \in kept'
        PROVE KeepsIn(c, ahub', abaseline', aedited', aplan', writes', live', astatus')
    <3>1. c \in kept /\ Act!Places(ahub', c) = Act!Places(ahub, c) /\ "deaf" \notin aodd
      BY <1>1, <2>1
    <3>2. KeepsIn(c, ahub, abaseline, aedited, aplan, writes, live, astatus)
      BY <3>1 DEF AInv, KeptOK
    <3>3. PICK i : i = Act!Min(Act!Places(ahub, c)) /\ i = Act!Min(Act!Places(ahub', c))
      BY <3>1
    <3>4. i \in DOMAIN ahub.keys /\ i \in DOMAIN ahub'.keys
      BY <1>2, <3>1, <3>2, <3>3, SpotIs DEF AInv, ActivityOK, KeepsIn
    <3>5. ahub'.keys[i] = ahub.keys[i]
      BY <1>2, <3>4
    <3> QED
      BY <1>1, <3>1, <3>2, <3>3, <3>5 DEF KeepsIn, Fit
  <2> QED
    BY <1>1, <2>1 DEF AInv, KeptOK
<1> QED
  BY <1>3, <1>4, <1>5 DEF AInv

LEMMA ActRequest == ASSUME AInv, Act!RequestSync PROVE AInv'
<1> USE BoundsHold
<1>1. /\ astatus \in {"editing", "failed"} /\ aplan' = Act!Plan(abaseline, aedited) /\ live' = << >>
      /\ astatus' = (IF aplan' = << >> THEN "success" ELSE "checking") /\ session' = {}
      /\ kept' = {c \in Act!Content(ahub) \cap Act!Content(aedited) : Act!Fits(Act!Found(ahub)[c])}
      /\ UNCHANGED <<ahub, abaseline, aedited, writes, seen>>
  BY DEF Act!RequestSync, Act!editor
<1>2. Formed(ahub) /\ Formed(abaseline) /\ Formed(aedited)
  BY DEF AInv, ActivityOK
<1>3. PlanOf(aplan', abaseline, aedited)
  BY <1>1, <1>2, PlanIs
<1>4. writes = << >>
  BY <1>1 DEF AInv, CourseOK
<1>5. ActivityOK'
  BY <1>1 DEF AInv, ActivityOK
<1>6. CourseOK'
  BY <1>1, <1>3, <1>4, NoWrites DEF CourseOK
<1>7. KeptOK'
  <2>1. ASSUME NEW c \in kept'
        PROVE KeepsIn(c, ahub', abaseline', aedited', aplan', writes', live', astatus')
    <3>1. c \in Act!Content(ahub) /\ c \in Act!Content(aedited) /\ Act!Fits(Act!Found(ahub)[c])
      BY <1>1
    <3>2. Act!Found(ahub)[c] = Act!Min(Act!Places(ahub, c))
      BY <3>1 DEF Act!Found
    <3>3. Act!Places(ahub, c) # {}
      BY <1>2, <3>1, PlacesNat
    <3>4. Fit(abaseline, ahub, Act!Min(Act!Places(ahub, c)))
      BY <3>1, <3>2 DEF Act!Fits, Fit
    <3>5. ~Strikes(writes', Act!Min(Act!Places(ahub, c)))
      BY <1>1, <1>4 DEF Strikes
    <3> QED
      BY <1>1, <3>1, <3>3, <3>4, <3>5 DEF KeepsIn
  <2> QED
    BY <1>1, <1>4, <2>1 DEF KeptOK
<1> QED
  BY <1>5, <1>6, <1>7 DEF AInv

LEMMA ActPreflight == ASSUME AInv, Act!Preflight PROVE AInv'
<1> USE BoundsHold
<1>1. /\ astatus = "checking" /\ astatus' \in {"running", "failed"}
      /\ aplan' = aplan \/ aplan' = << >>
      /\ astatus' = "failed" => aplan' = << >>
      /\ seen' = Act!Macros(ahub) \/ seen' = seen
      /\ "deaf" \notin aodd' => "deaf" \notin aodd
      /\ UNCHANGED <<ahub, abaseline, aedited, writes, live, session, kept>>
  BY DEF Act!Preflight, Act!editor, Act!Calm, Act!Trouble
<1>2. writes = << >> /\ live = << >>
  BY <1>1 DEF AInv, CourseOK
<1>3. seen' \subseteq Act!Ids
  BY <1>1 DEF AInv, ActivityOK, Act!Macros, Act!Kind, Formed
<1>4. ActivityOK'
  BY <1>1, <1>3 DEF AInv, ActivityOK
<1>5. CourseOK'
  BY <1>1, <1>2, NoWrites, EmptyPlan DEF AInv, CourseOK
<1>6. KeptOK'
  <2>1. ASSUME "deaf" \notin aodd', NEW c \in kept
        PROVE KeepsIn(c, ahub', abaseline', aedited', aplan', writes', live', astatus')
    <3>1. KeepsIn(c, ahub, abaseline, aedited, aplan, writes, live, astatus)
      BY <1>1, <2>1 DEF AInv, KeptOK
    <3>2. Fragile(aplan') => Fragile(aplan)
      BY <1>1, EmptyPlan
    <3> QED
      BY <1>1, <3>1, <3>2 DEF KeepsIn
  <2> QED
    BY <1>1, <1>2, <2>1 DEF KeptOK
<1> QED
  BY <1>4, <1>5, <1>6 DEF AInv

\* What a step leaves to be shown of it.
LEMMA StepLeaves ==
  ASSUME AInv, astatus = "running", writes = << >>, aplan # << >>, aplan' = Tail(aplan),
         UNCHANGED <<ahub, abaseline, aedited, astatus, seen, kept>>,
         session' \subseteq Act!Ids,
         live' = << >> \/ (live' = <<live'[1]>> /\ ReadOK(live'[1])),
         WritesOf(writes'),
         writes' # << >> /\ Head(writes').op = "map" => Late(Head(aplan)),
         "deaf" \notin aodd' => "deaf" \notin aodd,
         "deaf" \notin aodd' => \A c \in kept :
           /\ ~Strikes(writes', Act!Min(Act!Places(ahub, c)))
           /\ Fragile(aplan) /\ live' # << >> =>
                c \in DOMAIN live'[1] /\ live'[1][c] = Act!Min(Act!Places(ahub, c))
  PROVE  AInv'
<1>1. PlanOf(aplan, abaseline, aedited)
  BY DEF AInv, CourseOK
<1>2. /\ PlanOf(aplan', abaseline, aedited)
      /\ Fragile(aplan') => Fragile(aplan)
      /\ Late(Head(aplan)) => ~Fragile(aplan')
  BY <1>1, PlanTail
<1>3. ActivityOK'
  BY DEF AInv, ActivityOK
<1>4. CourseOK'
  BY <1>2 DEF CourseOK
<1>5. ASSUME "deaf" \notin aodd', NEW c \in kept
      PROVE KeepsIn(c, ahub', abaseline', aedited', aplan', writes', live', astatus')
  <2>1. KeepsIn(c, ahub, abaseline, aedited, aplan, writes, live, astatus)
    BY <1>5 DEF AInv, KeptOK
  <2>2. /\ ~Strikes(writes', Act!Min(Act!Places(ahub, c)))
        /\ Fragile(aplan) /\ live' # << >> =>
             c \in DOMAIN live'[1] /\ live'[1][c] = Act!Min(Act!Places(ahub, c))
    BY <1>5
  <2> QED
    BY <1>2, <2>1, <2>2 DEF KeepsIn
<1>6. KeptOK'
  BY <1>2, <1>5 DEF KeptOK
<1> QED
  BY <1>3, <1>4, <1>6 DEF AInv

\* The read of the favorites: each is found at another place.
LEMMA FoundOK ==
  ASSUME Formed(ahub)
  PROVE  /\ ReadOK(Act!Found(ahub)) /\ ReadOK(Act!Nothing)
         /\ \A c : Act!Places(ahub, c) # {} => c \in DOMAIN Act!Found(ahub) /\ Act!Found(ahub)[c] = Act!Min(Act!Places(ahub, c))
<1>1. DOMAIN Act!Found(ahub) = Act!Content(ahub) /\ \A c \in Act!Content(ahub) : Act!Found(ahub)[c] = Act!Min(Act!Places(ahub, c))
  BY DEF Act!Found
<1>2. \A c \in Act!Content(ahub) : Act!Found(ahub)[c] \in DOMAIN ahub.keys /\ ahub.keys[Act!Found(ahub)[c]].what = c
  <2> SUFFICES ASSUME NEW c \in Act!Content(ahub)
               PROVE Act!Found(ahub)[c] \in DOMAIN ahub.keys /\ ahub.keys[Act!Found(ahub)[c]].what = c
    OBVIOUS
  <2>1. Act!Places(ahub, c) # {}
    BY PlacesNat
  <2> QED
    BY <1>1, <2>1, SpotIs
<1>3. Act!Range(Act!Found(ahub)) \subseteq Act!Ids
  BY <1>1, <1>2, RangeIs DEF Formed
<1>4. Injective(Act!Found(ahub))
  <2> SUFFICES ASSUME NEW c \in Act!Content(ahub), NEW d \in Act!Content(ahub), Act!Found(ahub)[c] = Act!Found(ahub)[d]
               PROVE c = d
    BY <1>1 DEF Injective
  <2> QED
    BY <1>2
<1>5. ReadOK(Act!Nothing)
  <2>1. DOMAIN Act!Nothing = {}
    BY DEF Act!Nothing
  <2>2. Act!Range(Act!Nothing) = {}
    BY <2>1, RangeIs
  <2> QED
    BY <2>1, <2>2 DEF ReadOK, Injective
<1>6. \A c : Act!Places(ahub, c) # {} => c \in Act!Content(ahub)
  BY PlacesNat
<1> QED
  BY <1>1, <1>3, <1>4, <1>5, <1>6 DEF ReadOK

LEMMA FirstReadIs ==
  ASSUME AInv, Fragile(aplan), NEW r, Act!FirstRead(r)
  PROVE  /\ ReadOK(r) /\ live' = <<r>> /\ live' # << >> /\ live'[1] = r
         /\ "deaf" \notin aodd' => "deaf" \notin aodd
         /\ "deaf" \notin aodd' => \A c \in kept : c \in DOMAIN r /\ r[c] = Act!Min(Act!Places(ahub, c))
<1>0. Formed(ahub)
  BY DEF AInv, ActivityOK
<1>1. \A c \in kept : "deaf" \notin aodd => KeepsIn(c, ahub, abaseline, aedited, aplan, writes, live, astatus)
  BY DEF AInv, KeptOK
<1>2. CASE live = << >>
  <2>1. live' = <<r>> /\ ((r = Act!Found(ahub) /\ aodd' = aodd) \/ (r = Act!Nothing /\ "deaf" \in aodd'))
    BY <1>2 DEF Act!FirstRead, Act!Heard, Act!Calm, Act!Trouble
  <2>2. ReadOK(r)
    BY <1>0, <2>1, FoundOK
  <2>3. ASSUME "deaf" \notin aodd', NEW c \in kept PROVE c \in DOMAIN r /\ r[c] = Act!Min(Act!Places(ahub, c))
    <3>1. r = Act!Found(ahub) /\ "deaf" \notin aodd
      BY <2>1, <2>3
    <3>2. Act!Places(ahub, c) # {}
      BY <1>1, <2>3, <3>1 DEF KeepsIn
    <3> QED
      BY <1>0, <3>1, <3>2, FoundOK
  <2> QED
    BY <2>1, <2>2, <2>3
<1>3. CASE live # << >>
  <2>1. r = live[1] /\ live' = live /\ aodd' = aodd
    BY <1>3 DEF Act!FirstRead, Act!Calm
  <2>2. live = <<live[1]>> /\ ReadOK(live[1])
    BY <1>3 DEF AInv, ActivityOK
  <2>3. ASSUME "deaf" \notin aodd', NEW c \in kept PROVE c \in DOMAIN r /\ r[c] = Act!Min(Act!Places(ahub, c))
    BY <1>1, <1>3, <2>1, <2>3 DEF KeepsIn
  <2> QED
    BY <1>3, <2>1, <2>2, <2>3
<1> QED
  BY <1>2, <1>3

\* The id a new macro gets is no favorite's that was read.
LEMMA AllocatedIs ==
  ASSUME ActivityOK, NEW p \in Act!Ids, NEW r, Act!Range(r) \subseteq Act!Ids
  PROVE  LET i == Act!Allocated(p, r) IN i = 0 \/ (i \in Act!Ids /\ i \notin Act!Range(r))
<1> DEFINE occupied == session \cup Act!Range(r) \cup Act!Range(ahub.order) \cup seen
           next == 1 + Act!Max({0} \cup occupied)
<1>1. Act!Range(ahub.order) \subseteq Act!Ids
  <2>1. \A k \in DOMAIN ahub.order : ahub.order[k] \in Act!Ids
    BY LenProperties DEF ActivityOK
  <2> QED
    BY <2>1, RangeIs
<1>2. occupied \subseteq Act!Ids /\ Act!Range(r) \subseteq occupied
  BY <1>1 DEF ActivityOK
<1>3. Act!Allocated(p, r) = IF p \notin occupied THEN p
        ELSE IF next <= MaxKey THEN next ELSE IF Act!Ids \subseteq occupied THEN 0 ELSE Act!Min(Act!Ids \ occupied)
  BY DEF Act!Allocated
<1>4. MaxKey \in Nat /\ Act!Ids = 1 .. MaxKey
  BY BoundsHold DEF Act!EditBounds, Act!Ids
<1> HIDE DEF occupied
<1>5. Act!Max({0} \cup occupied) \in 0 .. MaxKey /\ \A j \in occupied : j <= Act!Max({0} \cup occupied)
  <2>1. {0} \cup occupied \in SUBSET (0 .. MaxKey)
    BY <1>2, <1>4
  <2>2. Act!Max({0} \cup occupied) \in {0} \cup occupied /\ \A j \in {0} \cup occupied : Act!Max({0} \cup occupied) >= j
    BY <1>4, <2>1, MaxIn
  <2> QED
    BY <1>4, <2>1, <2>2
<1>6. next \notin occupied /\ (next <= MaxKey => next \in Act!Ids)
  <2>1. PICK m : m = Act!Max({0} \cup occupied)
    OBVIOUS
  <2>2. m \in Nat /\ next = 1 + m /\ \A j \in occupied : j <= m
    BY <1>4, <1>5, <2>1
  <2> QED
    BY <1>4, <2>2
<1> HIDE DEF next
<1>7. ASSUME ~(Act!Ids \subseteq occupied) PROVE Act!Min(Act!Ids \ occupied) \in Act!Ids \ occupied
  <2>1. Act!Ids \ occupied \in SUBSET Nat /\ Act!Ids \ occupied # {}
    BY <1>4, <1>7
  <2> QED
    BY <2>1, MinIn
<1> QED
  BY <1>2, <1>3, <1>6, <1>7

LEMMA Gives ==
  /\ WritesOf(Act!GiveUp) /\ Act!GiveUp # << >>
  /\ Head(Act!GiveUp).op = "give_up" /\ \A i : ~Strikes(Act!GiveUp, i)
<1>1. WriteOK([op |-> "give_up"])
  BY DEF WriteOK, Ops
<1>2. PICK w : w = [op |-> "give_up"]
  OBVIOUS
<1>3. Act!GiveUp = <<w>> /\ w.op = "give_up" /\ WriteOK(w)
  BY <1>1, <1>2 DEF Act!GiveUp
<1> QED
  BY <1>3, OneWrite DEF Strikes

\* What holds of the step that is next.
LEMMA StepIs ==
  ASSUME AInv, aplan # << >>
  PROVE  /\ StepOK(Head(aplan), abaseline, aedited)
         /\ ~Late(Head(aplan)) => Fragile(aplan)
         /\ "deaf" \notin aodd => \A c \in kept : KeepsIn(c, ahub, abaseline, aedited, aplan, writes, live, astatus)
BY PlanTail DEF AInv, CourseOK, KeptOK

\* The step frame.
StepFrame ==
  /\ astatus = "running" /\ writes = << >> /\ aplan # << >> /\ aplan' = Tail(aplan)
  /\ UNCHANGED <<ahub, abaseline, aedited, astatus, seen, kept>>

\* Nothing is read: what was read and the ids given stay.
LEMMA UnreadStep ==
  ASSUME AInv, StepFrame, session' = session, live' = live, "deaf" \notin aodd' => "deaf" \notin aodd,
         WritesOf(writes'),
         writes' # << >> /\ Head(writes').op = "map" => Late(Head(aplan)),
         "deaf" \notin aodd' => \A c \in kept : ~Strikes(writes', Act!Min(Act!Places(ahub, c)))
  PROVE  AInv'
<1>1. "deaf" \notin aodd' => \A c \in kept :
           /\ ~Strikes(writes', Act!Min(Act!Places(ahub, c)))
           /\ Fragile(aplan) /\ live' # << >> =>
                c \in DOMAIN live'[1] /\ live'[1][c] = Act!Min(Act!Places(ahub, c))
  BY StepIs DEF KeepsIn, StepFrame
<1>2. session' \subseteq Act!Ids /\ (live' = << >> \/ (live' = <<live'[1]>> /\ ReadOK(live'[1])))
  BY DEF AInv, ActivityOK
<1> QED
  BY <1>1, <1>2, StepLeaves DEF StepFrame

\* The favorites are read first.
LEMMA ReadStep ==
  ASSUME AInv, StepFrame, NEW r, Act!FirstRead(r), Fragile(aplan), session' \subseteq Act!Ids,
         WritesOf(writes'),
         writes' # << >> => Head(writes').op # "map",
         "deaf" \notin aodd' => \A c \in kept : ~Strikes(writes', Act!Min(Act!Places(ahub, c)))
  PROVE  AInv'
<1>1. /\ ReadOK(r) /\ live' = <<r>> /\ live' # << >> /\ live'[1] = r
      /\ "deaf" \notin aodd' => "deaf" \notin aodd
      /\ "deaf" \notin aodd' => \A c \in kept : c \in DOMAIN r /\ r[c] = Act!Min(Act!Places(ahub, c))
  BY FirstReadIs
<1>2. live' = <<live'[1]>> /\ ReadOK(live'[1])
  BY <1>1
<1> QED
  BY <1>1, <1>2, StepLeaves DEF StepFrame

\* A favorite to keep is no macro of the baseline.
LEMMA NotAMacro ==
  ASSUME AInv, Fragile(aplan), "deaf" \notin aodd, NEW c \in kept, NEW i \in Act!Macros(abaseline)
  PROVE  i # Act!Min(Act!Places(ahub, c))
<1>1. KeepsIn(c, ahub, abaseline, aedited, aplan, writes, live, astatus) /\ Formed(ahub)
  BY DEF AInv, KeptOK, ActivityOK
<1>2. PICK j : j = Act!Min(Act!Places(ahub, c))
  OBVIOUS
<1>3. j \in DOMAIN ahub.keys /\ ahub.keys[j].is = "favorite"
  BY <1>1, <1>2, SpotIs DEF KeepsIn
<1>4. j \in DOMAIN abaseline.keys => abaseline.keys[j] = ahub.keys[j]
  BY <1>1, <1>2 DEF KeepsIn, Fit
<1>5. i \in DOMAIN abaseline.keys /\ abaseline.keys[i].is = "macro"
  BY DEF Act!Macros, Act!Kind
<1> QED
  BY <1>2, <1>3, <1>4, <1>5

LEMMA StrikesOne ==
  ASSUME NEW w, WriteOK(w), NEW i, w.op \notin {"save", "delete"} \/ w.id # i
  PROVE  ~Strikes(<<w>>, i)
BY OneWrite DEF Strikes

LEMMA ActMacroWrite ==
  ASSUME AInv, StepFrame, Act!MacroWrite(Head(aplan)) PROVE AInv'
<1> DEFINE s == Head(aplan)
<1>1. /\ s.do = "macro_write" /\ s.id \in Act!Ids /\ s.key.is = "macro" /\ s.new \in BOOLEAN
      /\ s.new \/ s.id \in Act!Macros(abaseline)
      /\ Fragile(aplan)
  BY StepIs DEF Act!MacroWrite, StepOK, Late, StepFrame
<1>2. CASE s.new
  <2>1. PICK r \in Act!Reads :
          LET i == Act!Allocated(s.id, r)
          IN /\ Act!FirstRead(r)
             /\ session' = session \cup ({i} \ {0})
             /\ writes' = IF i = 0 THEN Act!GiveUp ELSE <<[op |-> "save", id |-> i, key |-> s.key]>>
    BY <1>2 DEF Act!MacroWrite, Act!MacroNew
  <2>2. PICK i : i = Act!Allocated(s.id, r)
    OBVIOUS
  <2>3. /\ Act!FirstRead(r)
        /\ session' = session \cup ({i} \ {0})
        /\ writes' = IF i = 0 THEN Act!GiveUp ELSE <<[op |-> "save", id |-> i, key |-> s.key]>>
    BY <2>1, <2>2
  <2>4. /\ ReadOK(r)
        /\ "deaf" \notin aodd' => \A c \in kept : c \in DOMAIN r /\ r[c] = Act!Min(Act!Places(ahub, c))
    BY <1>1, <2>3, FirstReadIs
  <2>5. i = 0 \/ (i \in Act!Ids /\ i \notin Act!Range(r))
    BY <1>1, <2>2, <2>4, AllocatedIs DEF AInv, ReadOK
  <2>6. session' \subseteq Act!Ids
    BY <2>3, <2>5 DEF AInv, ActivityOK
  <2>7. CASE i = 0
    <3>1. writes' = Act!GiveUp
      BY <2>3, <2>7
    <3> QED
      BY <1>1, <2>3, <2>6, <3>1, Gives, ReadStep
  <2>8. CASE i # 0
    <3>1. PICK w : w = [op |-> "save", id |-> i, key |-> s.key]
      OBVIOUS
    <3>2. w.op = "save" /\ w.id = i /\ writes' = <<w>> /\ WriteOK(w)
      BY <1>1, <2>3, <2>5, <2>8, <3>1 DEF WriteOK, Ops
    <3>3. ASSUME "deaf" \notin aodd', NEW c \in kept PROVE ~Strikes(writes', Act!Min(Act!Places(ahub, c)))
      <4>1. Act!Min(Act!Places(ahub, c)) \in Act!Range(r)
        BY <2>4, <3>3, RangeIs
      <4>2. w.id # Act!Min(Act!Places(ahub, c))
        BY <2>5, <2>8, <3>2, <4>1
      <4> QED
        BY <3>2, <4>2, StrikesOne
    <3>4. WritesOf(writes') /\ Head(writes').op # "map"
      BY <3>2, OneWrite
    <3> QED
      BY <1>1, <2>3, <2>6, <3>3, <3>4, ReadStep
  <2> QED
    BY <2>7, <2>8
<1>3. CASE ~s.new
  <2>1. /\ writes' = <<[op |-> "save", id |-> s.id, key |-> s.key]>>
        /\ aodd' = aodd /\ live' = live /\ session' = session
    BY <1>3 DEF Act!MacroWrite, Act!Calm
  <2>2. PICK w : w = [op |-> "save", id |-> s.id, key |-> s.key]
    OBVIOUS
  <2>3. w.op = "save" /\ w.id = s.id /\ writes' = <<w>> /\ WriteOK(w)
    BY <1>1, <2>1, <2>2 DEF WriteOK, Ops
  <2>4. ASSUME "deaf" \notin aodd', NEW c \in kept PROVE ~Strikes(writes', Act!Min(Act!Places(ahub, c)))
    <3>1. s.id # Act!Min(Act!Places(ahub, c))
      BY <1>1, <1>3, <2>1, <2>4, NotAMacro
    <3> QED
      BY <2>3, <3>1, StrikesOne
  <2>5. WritesOf(writes') /\ Head(writes').op # "map"
    BY <2>3, OneWrite
  <2> QED
    BY <2>1, <2>4, <2>5, UnreadStep
<1> QED
  BY <1>2, <1>3

LEMMA ActMacroDelete ==
  ASSUME AInv, StepFrame, Act!MacroDelete(Head(aplan)) PROVE AInv'
<1> DEFINE s == Head(aplan)
<1>1. s.id \in Act!Macros(abaseline) /\ Fragile(aplan)
  BY StepIs DEF Act!MacroDelete, StepOK, Late, StepFrame
<1>2. PICK r \in Act!Reads : /\ Act!FirstRead(r) /\ session' = session
          /\ writes' = IF s.id \in Act!Range(r) THEN << >> ELSE <<[op |-> "delete", id |-> s.id]>>
  BY DEF Act!MacroDelete
<1>3. session' \subseteq Act!Ids
  BY <1>2 DEF AInv, ActivityOK
<1>4. CASE writes' = << >>
  BY <1>1, <1>2, <1>3, <1>4, NoWrites, ReadStep DEF Strikes
<1>5. CASE writes' = <<[op |-> "delete", id |-> s.id]>>
  <2>1. PICK w : w = [op |-> "delete", id |-> s.id]
    OBVIOUS
  <2>2. w.op = "delete" /\ w.id = s.id /\ writes' = <<w>> /\ WriteOK(w)
    BY <1>5, <2>1 DEF WriteOK, Ops
  <2>3. ASSUME "deaf" \notin aodd', NEW c \in kept PROVE ~Strikes(writes', Act!Min(Act!Places(ahub, c)))
    <3>1. s.id # Act!Min(Act!Places(ahub, c))
      BY <1>1, <1>2, <2>3, FirstReadIs, NotAMacro
    <3> QED
      BY <2>2, <3>1, StrikesOne
  <2>4. WritesOf(writes') /\ Head(writes').op # "map"
    BY <2>2, OneWrite
  <2> QED
    BY <1>1, <1>2, <1>3, <2>3, <2>4, ReadStep
<1> QED
  BY <1>2, <1>4, <1>5

LEMMA ActBindingStep ==
  ASSUME AInv, StepFrame, Act!BindingStep(Head(aplan)) PROVE AInv'
<1> DEFINE s == Head(aplan)
<1>1. /\ s.do \in {"binding_write", "binding_delete"}
      /\ s.do = "binding_write" => s.button \in Buttons
      /\ aodd' = aodd /\ live' = live /\ session' = session
  BY StepIs DEF Act!BindingStep, StepOK, StepFrame, Act!Calm
<1>2. CASE s.do = "binding_delete"
  <2>1. PICK w : w = [op |-> "unbind", button |-> s.button]
    OBVIOUS
  <2>2. w.op = "unbind" /\ writes' = <<w>> /\ WriteOK(w)
    BY <1>2, <2>1 DEF WriteOK, Ops, Act!BindingStep
  <2>3. WritesOf(writes') /\ Head(writes').op # "map" /\ \A i : ~Strikes(writes', i)
    BY <2>2, OneWrite, StrikesOne
  <2> QED
    BY <1>1, <2>3, UnreadStep
<1>3. CASE s.do = "binding_write"
  <2>1. \E t : writes' = <<[op |-> "bind", button |-> s.button, to |-> t]>>
    BY <1>3 DEF Act!BindingStep
  <2>2. PICK t : writes' = <<[op |-> "bind", button |-> s.button, to |-> t]>>
    BY <2>1
  <2>3. PICK w : w = [op |-> "bind", button |-> s.button, to |-> t]
    OBVIOUS
  <2>4. w.op = "bind" /\ writes' = <<w>> /\ WriteOK(w)
    BY <1>1, <1>3, <2>2, <2>3 DEF WriteOK, Ops
  <2>5. WritesOf(writes') /\ Head(writes').op # "map" /\ \A i : ~Strikes(writes', i)
    BY <2>4, OneWrite, StrikesOne
  <2> QED
    BY <1>1, <2>5, UnreadStep
<1> QED
  BY <1>1, <1>2, <1>3

LEMMA ActFavoriteAdd ==
  ASSUME AInv, StepFrame, Act!FavoriteAdd(Head(aplan)) PROVE AInv'
<1> DEFINE s == Head(aplan)
<1>1. Late(s)
  BY DEF Act!FavoriteAdd, Late
<1>2. PICK r \in {ahub.order, << >>} :
        /\ IF x1 THEN Act!Heard(r, ahub.order, << >>) ELSE r = << >> /\ Act!Calm
        /\ writes' = <<[op |-> "map", what |-> s.what, after |-> r]>>
        /\ live' = live /\ session' = session
  BY DEF Act!FavoriteAdd
<1>3. "deaf" \notin aodd' => "deaf" \notin aodd
  BY <1>2 DEF Act!Heard, Act!Calm, Act!Trouble
<1>4. r \in Seq(Act!Ids)
  <2>1. ahub.order \in Seq(Act!Ids)
    BY DEF AInv, ActivityOK
  <2>2. << >> \in Seq(Act!Ids)
    OBVIOUS
  <2> QED
    BY <1>2, <2>1, <2>2
<1>5. PICK w : w = [op |-> "map", what |-> s.what, after |-> r]
  OBVIOUS
<1>6. w.op = "map" /\ writes' = <<w>> /\ WriteOK(w)
  BY <1>2, <1>4, <1>5 DEF WriteOK, Ops
<1>7. WritesOf(writes') /\ \A i : ~Strikes(writes', i)
  BY <1>6, OneWrite, StrikesOne
<1> QED
  BY <1>1, <1>2, <1>3, <1>7, UnreadStep

LEMMA ActFavoriteDelete ==
  ASSUME AInv, StepFrame, Act!FavoriteDelete(Head(aplan)) PROVE AInv'
<1> DEFINE s == Head(aplan)
<1>1. /\ s.id \in Act!Favorites(abaseline) /\ abaseline.keys[s.id].what = s.what
      /\ s.what \notin Act!Content(aedited) /\ Fragile(aplan)
  BY StepIs DEF Act!FavoriteDelete, StepOK, Late, StepFrame
<1>2. PICK r \in Act!Reads :
        /\ Act!FirstRead(r) /\ session' = session
        /\ \/ writes' = << >> \/ writes' = Act!GiveUp
           \/ \E i : /\ IF s.id \in Act!Range(r) THEN i = s.id ELSE s.what \in DOMAIN r /\ i = r[s.what]
                     /\ writes' = <<[op |-> "delete", id |-> i],
                                    [op |-> "sort", ids |-> Act!Those(ahub.order, Act!Ids \ {i})]>>
  BY DEF Act!FavoriteDelete
<1>3. session' \subseteq Act!Ids
  BY <1>2 DEF AInv, ActivityOK
<1>4. CASE writes' = << >>
  BY <1>1, <1>2, <1>3, <1>4, NoWrites, ReadStep DEF Strikes
<1>5. CASE writes' = Act!GiveUp
  BY <1>1, <1>2, <1>3, <1>5, Gives, ReadStep
<1>6. ASSUME NEW i, IF s.id \in Act!Range(r) THEN i = s.id ELSE s.what \in DOMAIN r /\ i = r[s.what],
             writes' = <<[op |-> "delete", id |-> i],
                         [op |-> "sort", ids |-> Act!Those(ahub.order, Act!Ids \ {i})]>>
      PROVE  AInv'
  <2>1. PICK w, v : w = [op |-> "delete", id |-> i]
                    /\ v = [op |-> "sort", ids |-> Act!Those(ahub.order, Act!Ids \ {i})]
    OBVIOUS
  <2>2. Act!Those(ahub.order, Act!Ids \ {i}) \in Seq(Act!Ids)
    <3>1. ahub.order \in Seq(Act!Ids)
      BY DEF AInv, ActivityOK
    <3>2. Act!Those(ahub.order, Act!Ids \ {i}) \in Seq(Act!Ids \cap (Act!Ids \ {i}))
      BY <3>1, ThoseIn
    <3> QED
      BY <3>2, SeqMonotonic
  <2>3. w.op = "delete" /\ w.id = i /\ writes' = <<w, v>> /\ WriteOK(w) /\ WriteOK(v) /\ v.op = "sort"
    BY <1>6, <2>1, <2>2 DEF WriteOK, Ops
  <2>4. WritesOf(writes') /\ Head(writes') = w
    BY <2>3, TwoWrites
  <2>5. ASSUME "deaf" \notin aodd', NEW c \in kept PROVE i # Act!Min(Act!Places(ahub, c))
    <3>1. /\ ReadOK(r) /\ c \in DOMAIN r /\ r[c] = Act!Min(Act!Places(ahub, c)) /\ "deaf" \notin aodd
      BY <1>1, <1>2, <2>5, FirstReadIs
    <3>2. KeepsIn(c, ahub, abaseline, aedited, aplan, writes, live, astatus) /\ Formed(ahub)
      BY <2>5, <3>1 DEF AInv, KeptOK, ActivityOK
    <3>3. c # s.what
      BY <1>1, <3>2 DEF KeepsIn, StepFrame
    <3>4. CASE s.id \in Act!Range(r)
      <4>1. PICK j : j = Act!Min(Act!Places(ahub, c))
        OBVIOUS
      <4>2. j \in DOMAIN ahub.keys /\ ahub.keys[j].what = c
        BY <3>2, <4>1, SpotIs DEF KeepsIn
      <4>3. j \in DOMAIN abaseline.keys => abaseline.keys[j] = ahub.keys[j]
        BY <1>1, <3>2, <4>1 DEF KeepsIn, Fit
      <4>4. i = s.id /\ i \in DOMAIN abaseline.keys /\ abaseline.keys[i].what = s.what
        BY <1>1, <1>6, <3>4 DEF Act!Favorites, Act!Kind
      <4> QED
        BY <3>3, <4>1, <4>2, <4>3, <4>4
    <3>5. CASE s.id \notin Act!Range(r)
      <4>1. s.what \in DOMAIN r /\ i = r[s.what]
        BY <1>6, <3>5
      <4> QED
        BY <3>1, <3>3, <4>1 DEF ReadOK, Injective
    <3> QED
      BY <3>4, <3>5
  <2>6. "deaf" \notin aodd' => \A c \in kept : ~Strikes(writes', Act!Min(Act!Places(ahub, c)))
    BY <2>3, <2>4, <2>5 DEF Strikes
  <2>7. Head(writes').op # "map"
    BY <2>3, <2>4
  <2> QED
    BY <1>1, <1>2, <1>3, <2>4, <2>6, <2>7, ReadStep
<1> QED
  BY <1>2, <1>4, <1>5, <1>6

LEMMA ActFavoriteOrder ==
  ASSUME AInv, StepFrame, Act!FavoriteOrder(Head(aplan)) PROVE AInv'
<1> DEFINE s == Head(aplan)
<1>1. s.tokens \in Seq(Act!Range(s.tokens))
  BY StepIs DEF Act!FavoriteOrder, StepOK, StepFrame
<1>2. PICK r \in {Act!Found(ahub), Act!Nothing} :
       LET follow(i)   == IF i \in DOMAIN remap THEN remap[i] ELSE i
           resolves(t) == IF t.is = "favorite" THEN t.what \in DOMAIN r
                          ELSE t.new => follow(t.id) \in session
           tokens      == Act!Those(s.tokens, {t \in Act!Range(s.tokens) : resolves(t)})
           order       == [k \in DOMAIN tokens |->
                             IF tokens[k].is = "favorite" THEN r[tokens[k].what]
                                                          ELSE follow(tokens[k].id)]
           known       == Act!Those(order, {i \in Act!Range(order) : Act!Known(i, Act!Range(r))})
       IN /\ Act!Heard(r, Act!Found(ahub), Act!Nothing)
          /\ writes' = IF order = << >> THEN << >>
                       ELSE IF known = << >> THEN Act!GiveUp ELSE <<[op |-> "sort", ids |-> known]>>
  BY DEF Act!FavoriteOrder
<1> DEFINE follow(i)   == IF i \in DOMAIN remap THEN remap[i] ELSE i
           resolves(t) == IF t.is = "favorite" THEN t.what \in DOMAIN r
                          ELSE t.new => follow(t.id) \in session
           T           == {t \in Act!Range(s.tokens) : resolves(t)}
           tokens      == Act!Those(s.tokens, T)
           at(k)       == IF tokens[k].is = "favorite" THEN r[tokens[k].what]
                                                          ELSE follow(tokens[k].id)
           order       == [k \in DOMAIN tokens |-> at(k)]
           K           == {i \in Act!Range(order) : Act!Known(i, Act!Range(r))}
           known       == Act!Those(order, K)
<1>3. /\ Act!Heard(r, Act!Found(ahub), Act!Nothing)
      /\ writes' = << >> \/ writes' = Act!GiveUp \/ writes' = <<[op |-> "sort", ids |-> known]>>
  BY <1>2
<1>4. session' = session /\ live' = live
  BY DEF Act!FavoriteOrder
<1>5. "deaf" \notin aodd' => "deaf" \notin aodd
  BY <1>3 DEF Act!Heard, Act!Calm, Act!Trouble
<1>6. known \in Seq(Act!Ids)
  <2>1. tokens \in Seq(Act!Range(s.tokens) \cap T)
    BY <1>1, ThoseIn
  <2> HIDE DEF T, tokens, at, K
  <2>2. DOMAIN tokens = 1 .. Len(tokens) /\ Len(tokens) \in Nat
    BY <2>1, LenProperties
  <2>3. order \in [1 .. Len(tokens) -> Act!Range(order)]
    <3>1. DOMAIN order = 1 .. Len(tokens) /\ order = [k \in 1 .. Len(tokens) |-> order[k]]
      BY <2>2
    <3> HIDE DEF order
    <3>2. \A k \in 1 .. Len(tokens) : order[k] \in Act!Range(order)
      BY <3>1, RangeIs
    <3> QED
      BY <3>1, <3>2
  <2> HIDE DEF order
  <2>4. order \in Seq(Act!Range(order))
    BY <2>2, <2>3, SeqDef
  <2>5. known \in Seq(Act!Range(order) \cap K)
    BY <2>4, ThoseIn
  <2>6. K \subseteq Act!Ids
    <3>1. Formed(ahub) /\ seen \subseteq Act!Ids /\ session \subseteq Act!Ids /\ ahub.order \in Seq(Act!Ids)
      BY DEF AInv, ActivityOK
    <3>2. Act!Range(r) \subseteq Act!Ids
      BY <1>2, <3>1, FoundOK DEF ReadOK
    <3>3. Act!Range(ahub.order) \subseteq Act!Ids
      <4>1. \A k \in DOMAIN ahub.order : ahub.order[k] \in Act!Ids
        BY <3>1, LenProperties
      <4> QED
        BY <4>1, RangeIs
    <3>4. \A i : Act!Known(i, Act!Range(r)) => i \in Act!Ids
      BY <3>1, <3>2, <3>3 DEF Act!Known
    <3> QED
      BY <3>4 DEF K
  <2> HIDE DEF known
  <2>7. Act!Range(order) \cap K \subseteq Act!Ids
    BY <2>6
  <2> QED
    BY <2>5, <2>7, SeqMonotonic
<1> HIDE DEF known
<1>7. CASE writes' = << >>
  BY <1>4, <1>5, <1>7, NoWrites, UnreadStep DEF Strikes
<1>8. CASE writes' = Act!GiveUp
  BY <1>4, <1>5, <1>8, Gives, UnreadStep
<1>9. CASE writes' = <<[op |-> "sort", ids |-> known]>>
  <2>1. PICK w : w = [op |-> "sort", ids |-> known]
    OBVIOUS
  <2>2. w.op = "sort" /\ writes' = <<w>> /\ WriteOK(w)
    BY <1>6, <1>9, <2>1 DEF WriteOK, Ops
  <2>3. WritesOf(writes') /\ Head(writes').op # "map" /\ \A i : ~Strikes(writes', i)
    BY <2>2, OneWrite, StrikesOne
  <2> QED
    BY <1>4, <1>5, <2>3, UnreadStep
<1> QED
  BY <1>3, <1>7, <1>8, <1>9

LEMMA ActStep == ASSUME AInv, Act!Step PROVE AInv'
<1>1. StepFrame
  BY DEF Act!Step, StepFrame, Act!editor
<1> QED
  BY <1>1, ActMacroWrite, ActMacroDelete, ActBindingStep, ActFavoriteAdd, ActFavoriteDelete,
     ActFavoriteOrder DEF Act!Step

\* The run is over; what was to be kept is there.
LEMMA RunOver ==
  ASSUME ActivityOK', astatus' \in {"success", "failed"}, aplan' = << >>, writes' = << >>, live' = << >>,
         "deaf" \notin aodd' => \A c \in kept' : Act!Places(ahub', c) # {}
  PROVE  AInv'
<1>1. PlanOf(aplan', abaseline', aedited') /\ WritesOf(writes')
  BY EmptyPlan, NoWrites
<1>2. CourseOK'
  BY <1>1 DEF CourseOK
<1>3. KeptOK'
  <2>1. ASSUME "deaf" \notin aodd', NEW c \in kept'
        PROVE KeepsIn(c, ahub', abaseline', aedited', aplan', writes', live', astatus')
    BY <2>1, NothingKept
  <2> QED
    BY <2>1 DEF KeptOK
<1> QED
  BY <1>2, <1>3 DEF AInv

LEMMA KeptNow ==
  ASSUME AInv PROVE "deaf" \notin aodd => \A c \in kept : Act!Places(ahub, c) # {}
BY DEF AInv, KeptOK, KeepsIn

LEMMA ActFail == ASSUME AInv, Act!Fail PROVE AInv'
<1>1. /\ astatus' = "failed" /\ aplan' = << >> /\ writes' = << >> /\ live' = << >> /\ session' = {}
      /\ "deaf" \notin aodd' => "deaf" \notin aodd
      /\ UNCHANGED <<ahub, abaseline, aedited, seen, kept>>
  BY DEF Act!Fail, Act!Ends, Act!Calm, Act!Trouble, Act!editor
<1>2. ActivityOK'
  BY <1>1 DEF AInv, ActivityOK
<1> QED
  BY <1>1, <1>2, KeptNow, RunOver

LEMMA ActDone == ASSUME AInv, Act!Done PROVE AInv'
<1>1. /\ astatus' = "success" /\ aplan' = << >> /\ writes' = << >> /\ live' = << >> /\ session' = {}
      /\ aodd' = aodd /\ UNCHANGED <<ahub, abaseline, aedited, seen, kept>>
  BY DEF Act!Done, Act!Ends, Act!Calm, Act!editor
<1>2. ActivityOK'
  BY <1>1 DEF AInv, ActivityOK
<1> QED
  BY <1>1, <1>2, KeptNow, RunOver

LEMMA ActRebase == ASSUME AInv, Act!Rebase PROVE AInv'
<1>1. /\ astatus \in {"success", "failed"} /\ astatus' = "editing" /\ kept' = {}
      /\ abaseline' = ahub \/ abaseline' = aedited
      /\ aedited' = ahub \/ aedited' = aedited
      /\ seen' = Act!Macros(ahub) \/ seen' = seen
      /\ UNCHANGED <<ahub, aplan, writes, live, session>>
  BY DEF Act!Rebase
<1>2. aplan = << >> /\ writes = << >> /\ live = << >>
  BY <1>1 DEF AInv, CourseOK
<1>3. seen' \subseteq Act!Ids
  BY <1>1 DEF AInv, ActivityOK, Act!Macros, Act!Kind, Formed
<1>4. ActivityOK'
  BY <1>1, <1>3 DEF AInv, ActivityOK
<1>5. CourseOK'
  BY <1>1, <1>2, NoWrites, EmptyPlan DEF CourseOK
<1>6. KeptOK'
  BY <1>1, <1>2 DEF KeptOK
<1> QED
  BY <1>4, <1>5, <1>6 DEF AInv

LEMMA ActInit == ASSUME Act!Init PROVE AInv
<1>1. /\ ahub \in Bases /\ abaseline = ahub /\ aedited = ahub /\ astatus = "editing" /\ aplan = << >>
      /\ writes = << >> /\ seen = Act!Macros(ahub) /\ live = << >> /\ session = {} /\ kept = {}
  BY DEF Act!Init
<1>2. Formed(ahub) /\ ahub.order \in Seq(Act!Ids)
  BY <1>1, BoundsHold, ActivityFormed DEF Act!BasesAreActivities
<1>3. seen \subseteq Act!Ids
  BY <1>1, <1>2 DEF Act!Macros, Act!Kind, Formed
<1>4. ActivityOK
  BY <1>1, <1>2, <1>3 DEF ActivityOK
<1>5. CourseOK
  BY <1>1, NoWrites, EmptyPlan DEF CourseOK
<1>6. KeptOK
  BY <1>1 DEF KeptOK
<1> QED
  BY <1>4, <1>5, <1>6 DEF AInv

\* A place that stays, and no place before it: it is where the favorite is first found.
LEMMA FirstStays ==
  ASSUME NEW g, Formed(g), NEW h, NEW c, Act!Places(g, c) # {}, Act!Places(h, c) \in SUBSET Act!Places(g, c),
         Act!Min(Act!Places(g, c)) \in Act!Places(h, c)
  PROVE  Act!Places(h, c) # {} /\ Act!Min(Act!Places(h, c)) = Act!Min(Act!Places(g, c))
<1>1. Act!Places(g, c) \in SUBSET Nat
  BY PlacesNat
<1> QED
  BY <1>1, MinStays

\* A write takes a favorite's place only when it strikes it, and gives it none.
LEMMA Applied ==
  ASSUME Formed(ahub), ahub.order \in Seq(Act!Ids), NEW w, WriteOK(w), w.op \notin {"map", "give_up"}, Act!Apply(w)
  PROVE  /\ Formed(ahub') /\ ahub'.order \in Seq(Act!Ids)
         /\ \A c : Act!Places(ahub', c) \subseteq Act!Places(ahub, c)
         /\ \A c : \A i \in Act!Places(ahub, c) :
              (w.op \in {"save", "delete"} /\ w.id = i)
              \/ (i \in Act!Places(ahub', c) /\ ahub'.keys[i] = ahub.keys[i])
<1>1. w.op \in {"save", "delete", "sort", "bind", "unbind"}
  BY DEF WriteOK, Ops
<1>2. CASE w.op = "save"
  <2>1. w.id \in Act!Ids /\ w.key.is = "macro" /\ ahub' = Act!WithKey(ahub, w.id, w.key)
    BY <1>2 DEF WriteOK, Act!Apply
  <2>2. PICK i, e : i = w.id /\ e = w.key
    OBVIOUS
  <2>3. PICK h : h = Act!WithKey(ahub, i, e)
    OBVIOUS
  <2>4. /\ DOMAIN h = DOMAIN ahub /\ h.order = ahub.order /\ Formed(h)
        /\ DOMAIN h.keys = DOMAIN ahub.keys \cup {i}
        /\ \A j \in DOMAIN h.keys : h.keys[j] = IF j = i THEN e ELSE ahub.keys[j]
    BY <2>1, <2>2, <2>3, WithKeyIs, WithKeyFormed
  <2>5. e.is = "macro" /\ ahub' = h
    BY <2>1, <2>2, <2>3
  <2>6. \A c : Act!Places(h, c) \subseteq Act!Places(ahub, c)
    BY <2>4, <2>5, PlacesAre
  <2>7. \A c : \A j \in Act!Places(ahub, c) : j = i \/ (j \in Act!Places(h, c) /\ h.keys[j] = ahub.keys[j])
    BY <2>4, PlacesAre
  <2> QED
    BY <1>2, <2>2, <2>4, <2>5, <2>6, <2>7
<1>3. CASE w.op = "delete"
  <2>1. ahub' = [ahub EXCEPT !.keys = Act!Without(ahub.keys, w.id)]
    BY <1>3 DEF Act!Apply
  <2>2. PICK i : i = w.id
    OBVIOUS
  <2>3. /\ DOMAIN ahub' = DOMAIN ahub /\ ahub'.order = ahub.order /\ ahub'.binds = ahub.binds
        /\ ahub'.keys = Act!Without(ahub.keys, i)
    BY <2>1, <2>2 DEF Formed
  <2>4. DOMAIN ahub'.keys = DOMAIN ahub.keys \ {i} /\ \A j \in DOMAIN ahub'.keys : ahub'.keys[j] = ahub.keys[j]
    BY <2>3 DEF Act!Without
  <2>5. Formed(ahub') /\ ahub'.order \in Seq(Act!Ids)
    BY <2>3, <2>4 DEF Formed
  <2>6. \A c : Act!Places(ahub', c) \subseteq Act!Places(ahub, c)
    BY <2>4, PlacesAre
  <2>7. \A c : \A j \in Act!Places(ahub, c) : j = i \/ (j \in Act!Places(ahub', c) /\ ahub'.keys[j] = ahub.keys[j])
    BY <2>4, PlacesAre
  <2> QED
    BY <1>3, <2>2, <2>5, <2>6, <2>7
<1>4. ASSUME ahub'.keys = ahub.keys, Formed(ahub'), ahub'.order \in Seq(Act!Ids)
      PROVE  /\ \A c : Act!Places(ahub', c) \subseteq Act!Places(ahub, c)
             /\ \A c : \A i \in Act!Places(ahub, c) : i \in Act!Places(ahub', c) /\ ahub'.keys[i] = ahub.keys[i]
  BY <1>4, PlacesAre
<1>5. CASE w.op = "sort"
  <2>1. ahub' = [ahub EXCEPT !.order = w.ids] /\ w.ids \in Seq(Act!Ids)
    BY <1>5 DEF Act!Apply, WriteOK
  <2>2. ahub'.keys = ahub.keys /\ Formed(ahub') /\ ahub'.order \in Seq(Act!Ids)
    BY <2>1 DEF Formed
  <2> QED
    BY <1>4, <2>2
<1>6. CASE w.op = "bind"
  <2>1. ahub' = [ahub EXCEPT !.binds = Act!Upd(ahub.binds, w.button, w.to)] /\ w.button \in Buttons
    BY <1>6 DEF Act!Apply, WriteOK
  <2>2. ahub'.keys = ahub.keys /\ Formed(ahub') /\ ahub'.order \in Seq(Act!Ids)
    BY <2>1 DEF Formed, Act!Upd
  <2> QED
    BY <1>4, <2>2
<1>7. CASE w.op = "unbind"
  <2>1. ahub' = [ahub EXCEPT !.binds = Act!Without(ahub.binds, w.button)]
    BY <1>7 DEF Act!Apply
  <2>2. ahub'.keys = ahub.keys /\ Formed(ahub') /\ ahub'.order \in Seq(Act!Ids)
    BY <2>1 DEF Formed, Act!Without
  <2> QED
    BY <1>4, <2>2
<1> QED
  BY <1>1, <1>2, <1>3, <1>5, <1>6, <1>7

LEMMA ActWrite == ASSUME AInv, Act!Write PROVE AInv'
<1>1. /\ astatus = "running" /\ writes # << >> /\ Head(writes).op \notin {"map", "give_up"}
      /\ Act!Apply(Head(writes)) /\ UNCHANGED <<abaseline, aedited, seen, kept>>
      /\ \/ writes' = Tail(writes) /\ aodd' = aodd /\ UNCHANGED <<astatus, aplan, live, session>>
         \/ /\ astatus' = "failed" /\ aplan' = << >> /\ writes' = << >> /\ live' = << >>
            /\ session' = {}
            /\ "deaf" \notin aodd' => "deaf" \notin aodd
  BY DEF Act!Write, Act!Ends, Act!Calm, Act!Trouble, Act!editor
<1>2. PICK w : w = Head(writes)
  OBVIOUS
<1>3. WritesOf(writes) /\ Formed(ahub) /\ ahub.order \in Seq(Act!Ids)
  BY DEF AInv, CourseOK, ActivityOK
<1>4. /\ WritesOf(Tail(writes)) /\ WriteOK(w)
      /\ Tail(writes) # << >> => Head(Tail(writes)).op = "sort"
  BY <1>1, <1>2, <1>3, WritesTail
<1>5. /\ Formed(ahub') /\ ahub'.order \in Seq(Act!Ids)
      /\ \A c : Act!Places(ahub', c) \subseteq Act!Places(ahub, c)
      /\ \A c : \A i \in Act!Places(ahub, c) :
           (w.op \in {"save", "delete"} /\ w.id = i)
           \/ (i \in Act!Places(ahub', c) /\ ahub'.keys[i] = ahub.keys[i])
  BY <1>1, <1>2, <1>3, <1>4, Applied
<1>6. "deaf" \notin aodd' => "deaf" \notin aodd
  BY <1>1
<1>7. ASSUME "deaf" \notin aodd', NEW c \in kept
      PROVE  /\ KeepsIn(c, ahub, abaseline, aedited, aplan, writes, live, astatus)
             /\ Act!Places(ahub', c) # {} /\ Act!Min(Act!Places(ahub', c)) = Act!Min(Act!Places(ahub, c))
             /\ ahub'.keys[Act!Min(Act!Places(ahub, c))] = ahub.keys[Act!Min(Act!Places(ahub, c))]
  <2>1. KeepsIn(c, ahub, abaseline, aedited, aplan, writes, live, astatus)
    BY <1>6, <1>7 DEF AInv, KeptOK
  <2>2. PICK i : i = Act!Min(Act!Places(ahub, c))
    OBVIOUS
  <2>3. Act!Places(ahub, c) # {} /\ i \in Act!Places(ahub, c)
    BY <1>3, <2>1, <2>2, SpotIs DEF KeepsIn
  <2>4. ~(w.op \in {"save", "delete"} /\ w.id = i)
    BY <1>1, <1>2, <2>1, <2>2 DEF KeepsIn, Strikes
  <2>5. i \in Act!Places(ahub', c) /\ ahub'.keys[i] = ahub.keys[i]
    BY <1>5, <2>3, <2>4
  <2>6. Act!Places(ahub', c) \in SUBSET Act!Places(ahub, c)
    BY <1>5
  <2>7. Act!Places(ahub', c) # {} /\ Act!Min(Act!Places(ahub', c)) = Act!Min(Act!Places(ahub, c))
    BY <1>3, <2>2, <2>3, <2>5, <2>6, FirstStays
  <2> QED
    BY <2>1, <2>2, <2>5, <2>7
<1>8. CASE writes' = Tail(writes) /\ aodd' = aodd /\ UNCHANGED <<astatus, aplan, live, session>>
  <2>1. ActivityOK'
    BY <1>1, <1>5, <1>8 DEF AInv, ActivityOK
  <2>2. CourseOK'
    BY <1>1, <1>4, <1>8 DEF AInv, CourseOK
  <2>3. ASSUME "deaf" \notin aodd', NEW c \in kept
        PROVE KeepsIn(c, ahub', abaseline', aedited', aplan', writes', live', astatus')
    <3>1. /\ KeepsIn(c, ahub, abaseline, aedited, aplan, writes, live, astatus)
          /\ Act!Places(ahub', c) # {} /\ Act!Min(Act!Places(ahub', c)) = Act!Min(Act!Places(ahub, c))
          /\ ahub'.keys[Act!Min(Act!Places(ahub, c))] = ahub.keys[Act!Min(Act!Places(ahub, c))]
      BY <1>7, <2>3
    <3>2. PICK i : i = Act!Min(Act!Places(ahub, c)) /\ i = Act!Min(Act!Places(ahub', c))
      BY <3>1
    <3>3. ~Strikes(writes', i)
      BY <1>4, <1>8 DEF Strikes
    <3>4. Fragile(aplan) => Fit(abaseline, ahub', i)
      BY <3>1, <3>2 DEF KeepsIn, Fit
    <3> QED
      BY <1>1, <1>8, <3>1, <3>2, <3>3, <3>4 DEF KeepsIn
  <2>4. ~(writes' # << >> /\ Head(writes').op = "map")
    BY <1>4, <1>8
  <2>5. KeptOK'
    BY <1>1, <2>3, <2>4 DEF KeptOK
  <2> QED
    BY <2>1, <2>2, <2>5 DEF AInv
<1>9. CASE astatus' = "failed" /\ aplan' = << >> /\ writes' = << >> /\ live' = << >> /\ session' = {}
  <2>1. ActivityOK'
    BY <1>1, <1>5, <1>9 DEF AInv, ActivityOK
  <2>2. "deaf" \notin aodd' => \A c \in kept' : Act!Places(ahub', c) # {}
    BY <1>1, <1>7
  <2> QED
    BY <1>9, <2>1, <2>2, RunOver
<1> QED
  BY <1>1, <1>8, <1>9

\* A favorite that is mapped takes free ids: what was there stays there.
LEMMA Mapped ==
  ASSUME Formed(ahub), ahub.order \in Seq(Act!Ids), NEW i \in Act!Free, NEW j \in Act!Free, NEW e,
         ahub' = Act!WithKey(ahub, i, e) \/ ahub' = Act!WithKey(Act!WithKey(ahub, i, e), j, e)
  PROVE  /\ Formed(ahub') /\ ahub'.order \in Seq(Act!Ids)
         /\ \A c : Act!Places(ahub, c) \subseteq Act!Places(ahub', c)
<1>1. i \in Act!Ids /\ j \in Act!Ids /\ i \notin DOMAIN ahub.keys /\ j \notin DOMAIN ahub.keys
  BY DEF Act!Free
<1>2. PICK h : h = Act!WithKey(ahub, i, e)
  OBVIOUS
<1>3. /\ h.order = ahub.order /\ Formed(h)
      /\ DOMAIN h.keys = DOMAIN ahub.keys \cup {i}
      /\ \A n \in DOMAIN h.keys : h.keys[n] = IF n = i THEN e ELSE ahub.keys[n]
  BY <1>1, <1>2, WithKeyIs, WithKeyFormed
<1>4. PICK g : g = Act!WithKey(h, j, e)
  OBVIOUS
<1>5. /\ g.order = h.order /\ Formed(g)
      /\ DOMAIN g.keys = DOMAIN h.keys \cup {j}
      /\ \A n \in DOMAIN g.keys : g.keys[n] = IF n = j THEN e ELSE h.keys[n]
  BY <1>1, <1>3, <1>4, WithKeyIs, WithKeyFormed
<1>6. \A c : Act!Places(ahub, c) \subseteq Act!Places(h, c)
  BY <1>1, <1>3, PlacesAre
<1>7. \A c : Act!Places(ahub, c) \subseteq Act!Places(g, c)
  BY <1>1, <1>3, <1>5, PlacesAre
<1>8. ahub' = h \/ ahub' = g
  BY <1>2, <1>4
<1> QED
  BY <1>3, <1>5, <1>6, <1>7, <1>8

LEMMA ActMap == ASSUME AInv, Act!Map PROVE AInv'
<1>1. PICK i \in Act!Free, j \in Act!Free :
       LET w      == Head(writes)
           once   == Act!WithKey(ahub, i, Act!Favorite(w.what))
           sorted == [op |-> "sort", ids |-> IF x1 THEN Append(w.after, i) ELSE [k \in 1..i |-> k]]
       IN \/ i = j /\ ahub' = once /\ Act!Calm
             /\ writes' = <<sorted>> /\ UNCHANGED <<astatus, aplan, live, session, remap>>
          \/ i # j /\ ahub' = Act!WithKey(once, j, Act!Favorite(w.what)) /\ Act!Trouble("twice")
             /\ writes' = <<sorted>> /\ UNCHANGED <<astatus, aplan, live, session, remap>>
          \/ i = j /\ ahub' = once /\ Act!Trouble("unacked") /\ Act!Ends("failed")
  BY DEF Act!Map
<1>2. /\ astatus = "running" /\ writes # << >> /\ Head(writes).op = "map"
      /\ UNCHANGED <<abaseline, aedited, seen, kept>>
  BY DEF Act!Map, Act!editor
<1>3. WritesOf(writes) /\ Formed(ahub) /\ ahub.order \in Seq(Act!Ids) /\ ~Fragile(aplan)
  BY <1>2 DEF AInv, CourseOK, ActivityOK, KeptOK
<1>4. PICK w, e : w = Head(writes) /\ e = Act!Favorite(w.what)
  OBVIOUS
<1>5. w.after \in Seq(Act!Ids)
  BY <1>2, <1>3, <1>4, WritesTail DEF WriteOK
<1>6. PICK sorted : sorted = [op |-> "sort", ids |-> IF x1 THEN Append(w.after, i) ELSE [k \in 1..i |-> k]]
  OBVIOUS
<1>7. ahub' = Act!WithKey(ahub, i, e) \/ ahub' = Act!WithKey(Act!WithKey(ahub, i, e), j, e)
  BY <1>1, <1>4
<1>8. /\ "deaf" \notin aodd' => "deaf" \notin aodd
      /\ \/ writes' = <<sorted>> /\ UNCHANGED <<astatus, aplan, live, session>>
         \/ /\ astatus' = "failed" /\ aplan' = << >> /\ writes' = << >> /\ live' = << >>
            /\ session' = {}
  BY <1>1, <1>4, <1>6 DEF Act!Calm, Act!Trouble, Act!Ends
<1>9. /\ Formed(ahub') /\ ahub'.order \in Seq(Act!Ids)
      /\ \A c : Act!Places(ahub, c) \subseteq Act!Places(ahub', c)
  BY <1>3, <1>7, Mapped
<1>10. "deaf" \notin aodd' => \A c \in kept : Act!Places(ahub', c) # {}
  BY <1>8, <1>9, KeptNow
<1>11. CASE writes' = <<sorted>> /\ UNCHANGED <<astatus, aplan, live, session>>
  <2>1. sorted.op = "sort" /\ sorted.ids \in Seq(Act!Ids)
    <3>1. i \in Act!Ids
      BY DEF Act!Free
    <3>2. Append(w.after, i) \in Seq(Act!Ids)
      BY <1>5, <3>1, AppendProperties
    <3>3. [k \in 1..i |-> k] \in Seq(Act!Ids)
      <4>1. MaxKey \in Nat /\ i \in Nat
        BY <3>1, BoundsHold DEF Act!EditBounds, Act!Ids
      <4>2. 1 .. i \subseteq Act!Ids
        BY <3>1, <4>1 DEF Act!Ids
      <4>3. [k \in 1..i |-> k] \in [1..i -> Act!Ids]
        BY <4>2
      <4> QED
        BY <4>1, <4>3, SeqDef
    <3> QED
      BY <1>6, <3>2, <3>3
  <2>2. WriteOK(sorted)
    BY <2>1 DEF WriteOK, Ops
  <2>3. WritesOf(writes') /\ Head(writes').op = "sort" /\ writes' # << >>
    BY <1>11, <2>1, <2>2, OneWrite
  <2>4. ActivityOK'
    BY <1>2, <1>9, <1>11 DEF AInv, ActivityOK
  <2>5. CourseOK'
    BY <1>2, <1>11, <2>3 DEF AInv, CourseOK
  <2>6. ASSUME "deaf" \notin aodd', NEW c \in kept
        PROVE KeepsIn(c, ahub', abaseline', aedited', aplan', writes', live', astatus')
    <3>1. KeepsIn(c, ahub, abaseline, aedited, aplan, writes, live, astatus)
      BY <1>8, <2>6 DEF AInv, KeptOK
    <3>2. ~Strikes(writes', Act!Min(Act!Places(ahub', c)))
      BY <2>3 DEF Strikes
    <3> QED
      BY <1>2, <1>3, <1>10, <1>11, <2>6, <3>1, <3>2 DEF KeepsIn
  <2>7. KeptOK'
    BY <1>2, <2>3, <2>6 DEF KeptOK
  <2> QED
    BY <2>4, <2>5, <2>7 DEF AInv
<1>12. CASE astatus' = "failed" /\ aplan' = << >> /\ writes' = << >> /\ live' = << >> /\ session' = {}
  <2>1. ActivityOK'
    BY <1>2, <1>9, <1>12 DEF AInv, ActivityOK
  <2>2. "deaf" \notin aodd' => \A c \in kept' : Act!Places(ahub', c) # {}
    BY <1>2, <1>10
  <2> QED
    BY <1>12, <2>1, <2>2, RunOver
<1> QED
  BY <1>8, <1>11, <1>12

LEMMA ActKeeps == ASSUME AInv, [Act!Next]_(Act!vars) PROVE AInv'
<1>1. CASE Act!Next
  BY <1>1, ActEdit, ActForeign, ActRequest, ActPreflight, ActStep, ActFail, ActWrite, ActMap,
     ActDone, ActRebase DEF Act!Next
<1>2. CASE UNCHANGED Act!vars
  <2>1. UNCHANGED <<ahub, abaseline, aedited, astatus, aplan, writes, seen, live, session, kept, aodd>>
    BY <1>2 DEF Act!vars
  <2>2. ActivityOK'
    BY <2>1 DEF AInv, ActivityOK
  <2>3. CourseOK'
    BY <2>1 DEF AInv, CourseOK
  <2>4. KeptOK'
    BY <2>1 DEF AInv, KeptOK
  <2> QED
    BY <2>2, <2>3, <2>4 DEF AInv
<1> QED
  BY <1>1, <1>2

\* What the hub holds of the favorites to keep, from the invariant.
LEMMA KeptIsThere == ASSUME AInv PROVE Act!NothingElseLost
<1>1. Formed(ahub)
  BY DEF AInv, ActivityOK
<1> QED
  BY <1>1, KeptNow, PlacesNat DEF Act!NothingElseLost

\* Every state of a sync of an activity satisfies the inductive invariant:
\* ids in range, a plan whose steps name ids of the baseline and end with those
\* that destroy nothing, writes that follow from them, and, until a read fails
\* unnoticed, every favorite to keep at a place that no write to come strikes.
THEOREM ActivityInvariant == Act!Spec => []AInv
<1>1. Act!Init => AInv
  BY ActInit
<1>2. AInv /\ [Act!Next]_(Act!vars) => AInv'
  BY ActKeeps
<1> QED
  BY <1>1, <1>2, PTL DEF Act!Spec

\* No favorite that the sync found and was to keep disappears from the hub,
\* whatever ids it and the macros have there, whichever step fails, is lost or
\* is repeated, and whatever others do to the other favorites meanwhile.
THEOREM KeptFavoritesStay == Act!Spec => []NothingElseLost
<1>1. AInv => NothingElseLost
  BY KeptIsThere DEF NothingElseLost
<1> QED
  BY <1>1, ActivityInvariant, PTL
=============================================================================
