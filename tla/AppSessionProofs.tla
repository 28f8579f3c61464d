--------------------------- MODULE AppSessionProofs ---------------------------
(* What holds of the app's way in for any number of bridges, threads and     *)
(* CALL_MEs: no session is cut by the switch, the listeners are told what is *)
(* so, a hub that is off is not offered and one that is free is.             *)
(*                                                                           *)
(* A thread is the list of its steps, so the proofs rest on what a list may  *)
(* look like: Ordered says which steps may come behind which (Behind).  From *)
(* there on no proof looks into a list: Advance says what a step makes of    *)
(* At (the step a thread is at) and Holds (the steps before it).             *)
(*                                                                           *)
(* None of the properties is inductive.  TellingInv adds who is about to     *)
(* tell the listeners; Orderly, that one thread at a time is inside a        *)
(* registration, and what is true at each of its steps; Promise, who will    *)
(* register a hub that is free and not offered.                              *)
EXTENDS AppSession, SequenceTheorems, TLAPS

Reg      == {"register", "list", "mark"}
Unreg    == {"unregister", "unlist", "unmark"}
Critical == {"list", "mark", "unlist", "unmark"}

CallSteps   == Reg \cup Unreg \cup {"answer", "connect", "install", "failed", "tell up"}
BridgeSteps == Reg \cup {"down", "tell down"}
AdminSteps  == Reg \cup Unreg \cup
  {"want", "refuse", "enable", "disable", "announce", "mdns", "listen", "retract",
   "unlisten", "withdraw", "note on", "note off", "stop", "close", "down",
   "tell down", "unlock", "stopped"}

Steps == CallSteps \cup BridgeSteps \cup AdminSteps

\* The steps that may come behind a step, in any list.
Behind(x) ==
  CASE x = "want" -> {"enable", "announce", "note on"}
    [] x = "enable" -> {"announce", "note on"}
    [] x \in {"announce", "mdns", "listen"} -> {"note on"}
    [] x = "retract" -> {"announce"}
    [] x = "refuse" -> {"disable", "unlisten", "withdraw", "note off"}
    [] x = "disable" -> {"unlisten", "withdraw", "note off"}
    [] x = "unlisten" -> {"withdraw", "announce", "note off", "stop", "close", "stopped"}
    [] x = "withdraw" -> {"announce", "note off", "stop", "close", "stopped"}
    [] x = "stop" -> {"close", "stopped"}
    [] x = "close" -> {"stopped"}
    [] x = "down" -> {"tell down", "unlock", "stopped"}
    [] x = "tell down" -> {"unlock", "stopped"}
    [] x = "unlock" -> {"stopped"}
    [] x \in Reg -> {"announce", "note on", "tell down", "unlock", "stopped"}
    [] x \in Unreg -> {"unlisten", "withdraw", "announce", "note off", "stop", "close",
                       "stopped", "connect", "tell up"}
    [] OTHER -> {}

Ordered(s) == \A i, j \in 1 .. Len(s) : i < j => s[j] \in Behind(s[i])

StepsOf(t) ==
  IF t \in Calls THEN CallSteps ELSE IF t \in Bridges THEN BridgeSteps ELSE AdminSteps

BridgeState ==
  [life : {"new", "up", "stopping", "stopped"}, wanted : BOOLEAN, enabled : BOOLEAN,
   discovery : BOOLEAN, adv : BOOLEAN, flag : BOOLEAN, app : Calls \cup {None},
   told : BOOLEAN, sampled : Calls \cup {None}]

Typed ==
  /\ bridge \in [Bridges -> BridgeState]
  /\ listed \in Bridges \cup {None} /\ setting \in BOOLEAN
  /\ of \in [Threads -> Bridges \cup {None}]
  /\ \A b \in Bridges : of[b] = b
  /\ todo \in [Threads -> Seq(Steps)]
  /\ \A t \in Threads : todo[t] # << >> => of[t] \in Bridges

\* Every thread's list, and what it says of its bridge whatever the others do.
Ways ==
  /\ \A t \in Threads : Ordered(todo[t]) /\ \A x : Holds(t, x) => x \in StepsOf(t)
  /\ \A a \in Admins :
       /\ Holds(a, "tell down") => Holds(a, "unlock")
       /\ Holds(a, "stop") => Holds(a, "close")
       /\ Holds(a, "close") => Holds(a, "stopped")
       /\ Holds(a, "stopped") =>
            Holds(a, "stop") \/ bridge[of[a]].life \in {"stopping", "stopped"}
  /\ \A c \in Calls : \A x \in Unreg :
       At(c, x) => Holds(c, "connect") \/ Holds(c, "tell up")

\* What the listeners of b heard last, and who is about to tell them otherwise.
TellingInv ==
  \A b \in Bridges \ late :
    /\ bridge[b].app = None =>
         /\ ~Unannounced(b)
         /\ bridge[b].told => \E t \in Threads : of[t] = b /\ Holds(t, "tell down")
    /\ bridge[b].app # None =>
         /\ \A t \in Threads : of[t] = b => ~Holds(t, "tell down")
         /\ ~bridge[b].told => Unannounced(b)

InCritical(t) == \E x \in Critical : At(t, x)

OneAdmin  == \A a, e \in Admins : todo[a] # << >> /\ todo[e] # << >> => a = e
Exclusive == \A t, u \in Threads : InCritical(t) /\ InCritical(u) => t = u

\* Bridges come one after another, and only one that is up is announced.
Succession ==
  /\ \A b, c \in Bridges : b < c /\ bridge[c].life # "new" => bridge[b].life = "stopped"
  /\ \A b \in Bridges : bridge[b].discovery => bridge[b].life = "up"

\* The one thread that switches and stops.
AdminInv ==
  \A a \in Admins : todo[a] # << >> =>
    LET s == bridge[of[a]] IN
    /\ s.life \in {"up", "stopping"}
    /\ ~Holds(a, "stopped") => s.life = "up"
    /\ Holds(a, "stop") /\ ~Holds(a, "unlisten") => ~s.discovery
    /\ \A x \in Unreg : At(a, x) => ~(s.enabled /\ s.discovery)

\* No thread registers or dials for a hub that is off.
OnIsOn ==
  /\ \A t \in Threads : \A x \in Reg :
       At(t, x) => bridge[of[t]].enabled /\ bridge[of[t]].discovery
  /\ \A c \in Calls : todo[c] # << >> =>
       bridge[of[c]].discovery /\ (~At(c, "answer") => bridge[of[c]].enabled)

\* The flags of the bridges and the demuxer's registration, step by step.
Agree ==
  /\ (\A t \in Threads : ~InCritical(t) \/ At(t, "unlist")) =>
       \A b \in Bridges : bridge[b].flag = (listed = b)
  /\ \A t \in Threads :
       /\ At(t, "list") => \A b \in Bridges : ~bridge[b].flag
       /\ At(t, "unlist") => listed = of[t]
       /\ At(t, "mark") => listed = of[t] /\ \A b \in Bridges : ~bridge[b].flag
       /\ At(t, "unmark") =>
            listed = None /\ \A b \in Bridges : bridge[b].flag = (of[t] = b)

\* What is offered is on, or about to be withdrawn.
Offered ==
  \A b \in Bridges : listed = b =>
    \/ bridge[b].enabled /\ bridge[b].discovery
    \/ \E a \in Admins : of[a] = b /\ (At(a, "unregister") \/ At(a, "unlist"))

Closing ==
  \A b \in Bridges : bridge[b].app # None =>
    /\ bridge[b].life # "stopped"
    /\ bridge[b].life = "stopping" => \E a \in Admins : of[a] = b /\ Holds(a, "close")

Orderly == /\ OneAdmin /\ Exclusive /\ Succession /\ AdminInv
           /\ OnIsOn /\ Agree /\ Offered /\ Closing

\* Thread t will register its bridge, or bring it a session.
Promises(t) ==
  /\ ~Holds(t, "tell up")
  /\ \/ \E x \in {"unlist", "unmark", "connect", "install", "failed", "register", "list"} : At(t, x)
     \/ t \in Bridges /\ At(t, "down")

Promise ==
  \A b \in Bridges :
    bridge[b].enabled /\ bridge[b].discovery /\ bridge[b].app = None =>
      listed = b \/ \E t \in Threads : of[t] = b /\ Promises(t)

SessionInv ==
  /\ Typed /\ Ways /\ TellingInv
  /\ crossed = {} /\ cut = {} => Orderly
  /\ crossed = {} /\ cut = {} /\ late = {} => Promise

-----------------------------------------------------------------------------
(* Lists of steps.                                                           *)

Elements(s) == {s[i] : i \in 1 .. Len(s)}

\* A step replaced by the steps r: what the list is then.
LEMMA Replaced ==
  ASSUME NEW s \in Seq(Steps), s # << >>, NEW r \in Seq(Steps)
  PROVE  LET n == r \o Tail(s) IN
         /\ n \in Seq(Steps) /\ Len(n) = Len(r) + Len(s) - 1
         /\ \A i \in 1 .. Len(r) : n[i] = r[i]
         /\ \A i \in 2 .. Len(s) : n[Len(r) + i - 1] = s[i]
<1>1. /\ Tail(s) \in Seq(Steps) /\ Len(Tail(s)) = Len(s) - 1 /\ Len(s) \in Nat
      /\ Len(r) \in Nat
      /\ \A i \in 1 .. Len(s) - 1 : Tail(s)[i] = s[i + 1]
  OBVIOUS
<1>. DEFINE q == Tail(s)
<1>. HIDE DEF q
<1>2. /\ r \o q \in Seq(Steps) /\ Len(r \o q) = Len(r) + Len(q)
      /\ \A i \in 1 .. Len(r) + Len(q) :
           (r \o q)[i] = IF i <= Len(r) THEN r[i] ELSE q[i - Len(r)]
  BY <1>1, ConcatProperties DEF q
<1>3. ASSUME NEW i \in 2 .. Len(s)
      PROVE  (r \o q)[Len(r) + i - 1] = s[i]
  <2>1. /\ Len(r) + i - 1 \in 1 .. Len(r) + Len(q) /\ ~(Len(r) + i - 1 <= Len(r))
        /\ Len(r) + i - 1 - Len(r) = i - 1 /\ i - 1 \in 1 .. Len(s) - 1 /\ i - 1 + 1 = i
    BY <1>1 DEF q
  <2>2. q[i - 1] = s[i]
    BY <1>1, <2>1 DEF q
  <2>. QED
    BY <1>2, <2>1, <2>2
<1>4. \A i \in 1 .. Len(r) : (r \o q)[i] = r[i]
  BY <1>1, <1>2 DEF q
<1>. QED
  BY <1>1, <1>2, <1>3, <1>4 DEF q

\* The new list is in order if the steps r are and nothing is behind the old step
\* that may not be behind each of them.
LEMMA ReplacedInOrder ==
  ASSUME NEW s \in Seq(Steps), s # << >>, Ordered(s), NEW r \in Seq(Steps), Ordered(r),
         \A i \in 1 .. Len(r) : Behind(s[1]) \subseteq Behind(r[i])
  PROVE  Ordered(r \o Tail(s))
<1>. DEFINE n == r \o Tail(s)
<1>1. /\ Len(n) = Len(r) + Len(s) - 1 /\ Len(s) \in Nat /\ Len(r) \in Nat
      /\ \A i \in 1 .. Len(r) : n[i] = r[i]
      /\ \A i \in 2 .. Len(s) : n[Len(r) + i - 1] = s[i]
  BY Replaced
<1>. HIDE DEF n
<1>2. ASSUME NEW i \in 1 .. Len(n), ~(i <= Len(r))
      PROVE  i - Len(r) + 1 \in 2 .. Len(s) /\ n[i] = s[i - Len(r) + 1]
  <2>1. i - Len(r) + 1 \in 2 .. Len(s) /\ Len(r) + (i - Len(r) + 1) - 1 = i
    BY <1>1, <1>2
  <2>. QED
    BY <1>1, <2>1
<1>3. ASSUME NEW i \in 1 .. Len(n), NEW j \in 1 .. Len(n), i < j
      PROVE  n[j] \in Behind(n[i])
  <2>1. CASE j <= Len(r)
    <3>1. i \in 1 .. Len(r) /\ j \in 1 .. Len(r)
      BY <1>1, <1>3, <2>1
    <3>2. r[j] \in Behind(r[i])
      BY <1>3, <3>1 DEF Ordered
    <3>. QED
      BY <1>1, <3>1, <3>2
  <2>2. CASE ~(j <= Len(r)) /\ i <= Len(r)
    <3>1. n[j] = s[j - Len(r) + 1] /\ j - Len(r) + 1 \in 2 .. Len(s)
      BY <1>2, <2>2
    <3>2. n[i] = r[i] /\ i \in 1 .. Len(r)
      BY <1>1, <2>2
    <3>3. s[j - Len(r) + 1] \in Behind(s[1])
      <4>1. /\ 1 \in 1 .. Len(s) /\ j - Len(r) + 1 \in 1 .. Len(s)
            /\ 1 < j - Len(r) + 1
        BY <1>1, <3>1
      <4>. QED
        BY <4>1 DEF Ordered
    <3>. QED
      BY <3>1, <3>2, <3>3
  <2>3. CASE ~(j <= Len(r)) /\ ~(i <= Len(r))
    <3>1. n[j] = s[j - Len(r) + 1] /\ j - Len(r) + 1 \in 2 .. Len(s)
      BY <1>2, <2>3
    <3>2. n[i] = s[i - Len(r) + 1] /\ i - Len(r) + 1 \in 2 .. Len(s)
      BY <1>2, <2>3
    <3>3. i - Len(r) + 1 < j - Len(r) + 1
      BY <1>1, <1>3
    <3>4. i - Len(r) + 1 \in 1 .. Len(s) /\ j - Len(r) + 1 \in 1 .. Len(s)
      BY <1>1, <3>1, <3>2
    <3>. QED
      BY <3>1, <3>2, <3>3, <3>4 DEF Ordered
  <2>. QED
    BY <2>1, <2>2, <2>3
<1>. QED
  BY <1>3 DEF Ordered, n

\* What thread t's step x leaves of At and Holds, when the steps of the set new,
\* of which f is the first, come in its place.
Advance(t, x, new, f) ==
  /\ \A u \in Threads \ {t} : todo'[u] = todo[u]
  /\ \A z : Holds(t, z)' => z \in new \/ (Holds(t, z) /\ z \in Behind(x))
  /\ \A z \in new : Holds(t, z)'
  /\ \A z : Holds(t, z) /\ z # x => Holds(t, z)'
  /\ \A z : At(t, z)' => Holds(t, z)'
  /\ new # {} => At(t, f)'
  /\ \A z, y : At(t, z)' /\ At(t, y)' => z = y
  /\ todo'[t] = << >> => \A z : ~Holds(t, z)'
  /\ todo'[t] # << >> => \E z : At(t, z)'

\* The lists, apart from what they say of the bridges.
Lists ==
  /\ todo \in [Threads -> Seq(Steps)]
  /\ \A t \in Threads : Ordered(todo[t])

LEMMA Replace ==
  ASSUME Lists, NEW t \in Threads, NEW x, At(t, x), NEW r \in Seq(Steps), Then(t, r),
         Ordered(r), \A i \in 1 .. Len(r) : Behind(x) \subseteq Behind(r[i])
  PROVE  Lists' /\ Advance(t, x, Elements(r), r[1])
<1>. DEFINE s == todo[t]
            n == r \o Tail(s)
<1>1. s \in Seq(Steps) /\ s # << >> /\ Ordered(s) /\ x = s[1]
  BY DEF Lists, At
<1>2. todo' = [todo EXCEPT ![t] = n]
  BY DEF Then
<1>3. /\ n \in Seq(Steps) /\ Len(n) = Len(r) + Len(s) - 1
      /\ Len(s) \in Nat \ {0} /\ Len(r) \in Nat
      /\ \A i \in 1 .. Len(r) : n[i] = r[i]
      /\ \A i \in 2 .. Len(s) : n[Len(r) + i - 1] = s[i]
  <2>1. Len(s) \in Nat \ {0} /\ Len(r) \in Nat
    BY <1>1
  <2>. QED
    BY <1>1, <2>1, Replaced
<1>4. Ordered(n)
  BY <1>1, ReplacedInOrder
<1>. HIDE DEF n
<1>5. todo'[t] = n /\ \A u \in Threads \ {t} : todo'[u] = todo[u]
  BY <1>2 DEF Lists
<1>6. Lists'
  <2>1. todo' \in [Threads -> Seq(Steps)]
    BY <1>2, <1>3 DEF Lists
  <2>. QED
    BY <1>4, <1>5, <2>1 DEF Lists
<1>7. \A z : Holds(t, z)' <=> \E i \in 1 .. Len(n) : n[i] = z
  BY <1>5 DEF Holds
<1>8. \A z : Holds(t, z) <=> \E i \in 1 .. Len(s) : s[i] = z
  BY DEF Holds
<1>9. \A z : At(t, z)' <=> n # << >> /\ n[1] = z
  BY <1>3, <1>5 DEF At
<1>10. n # << >> => 1 \in 1 .. Len(n)
  BY <1>3
<1>11. ASSUME NEW z, Holds(t, z)'
       PROVE  z \in Elements(r) \/ (Holds(t, z) /\ z \in Behind(x))
  <2>1. PICK i \in 1 .. Len(n) : n[i] = z
    BY <1>7, <1>11
  <2>2. CASE i <= Len(r)
    <3>1. i \in 1 .. Len(r) /\ n[i] = r[i]
      BY <1>3, <2>2
    <3>. QED
      BY <2>1, <3>1 DEF Elements
  <2>3. CASE ~(i <= Len(r))
    <3>1. i - Len(r) + 1 \in 2 .. Len(s) /\ Len(r) + (i - Len(r) + 1) - 1 = i
      BY <1>3, <2>3
    <3>2. s[i - Len(r) + 1] = z
      BY <1>3, <2>1, <3>1
    <3>3. 1 < i - Len(r) + 1 /\ 1 \in 1 .. Len(s) /\ i - Len(r) + 1 \in 1 .. Len(s)
      BY <1>3, <3>1
    <3>. QED
      BY <1>1, <1>8, <3>2, <3>3 DEF Ordered
  <2>. QED
    BY <2>2, <2>3
<1>12. ASSUME NEW z \in Elements(r) PROVE Holds(t, z)'
  <2>1. PICK i \in 1 .. Len(r) : r[i] = z
    BY <1>12 DEF Elements
  <2>2. i \in 1 .. Len(n) /\ n[i] = z
    BY <1>3, <2>1
  <2>. QED
    BY <1>7, <2>2
<1>13. ASSUME NEW z, Holds(t, z), z # x PROVE Holds(t, z)'
  <2>1. PICK i \in 1 .. Len(s) : s[i] = z
    BY <1>8, <1>13
  <2>2. i \in 2 .. Len(s)
    BY <1>1, <1>13, <2>1
  <2>3. Len(r) + i - 1 \in 1 .. Len(n) /\ n[Len(r) + i - 1] = z
    BY <1>3, <2>1, <2>2
  <2>. QED
    BY <1>7, <2>3
<1>14. \A z : At(t, z)' => Holds(t, z)'
  BY <1>7, <1>9, <1>10
<1>15. Elements(r) # {} => At(t, r[1])'
  <2>. SUFFICES ASSUME Elements(r) # {} PROVE n # << >> /\ n[1] = r[1]
    BY <1>9
  <2>1. 1 \in 1 .. Len(r)
    BY <1>3 DEF Elements
  <2>2. n[1] = r[1] /\ Len(n) # 0
    BY <1>3, <2>1
  <2>. QED
    BY <1>3, <2>2
<1>16. \A z, y : At(t, z)' /\ At(t, y)' => z = y
  BY <1>9
<1>17. todo'[t] = << >> => \A z : ~Holds(t, z)'
  BY <1>5, <1>7
<1>18. todo'[t] # << >> => \E z : At(t, z)'
  BY <1>5, <1>9
<1>. QED
  BY <1>5, <1>6, <1>11, <1>12, <1>13, <1>14, <1>15, <1>16, <1>17, <1>18 DEF Advance

\* Nothing, one step, two steps or three in place of the old one.
LEMMA Pop ==
  ASSUME Lists, NEW t \in Threads, NEW x, At(t, x), Then(t, << >>)
  PROVE  Lists' /\ \E f : Advance(t, x, {}, f)
<1>1. << >> \in Seq(Steps) /\ Len(<< >>) = 0 /\ Ordered(<< >>) /\ Elements(<< >>) = {}
  BY DEF Ordered, Elements
<1>2. \A i \in 1 .. Len(<< >>) : Behind(x) \subseteq Behind(<< >>[i])
  BY <1>1
<1>3. Lists' /\ Advance(t, x, Elements(<< >>), << >>[1])
  BY <1>1, <1>2, Replace
<1>. QED
  BY <1>1, <1>3

LEMMA Push ==
  ASSUME Lists, NEW t \in Threads, NEW x, At(t, x), NEW y \in Steps, Then(t, << y >>),
         Behind(x) \subseteq Behind(y)
  PROVE  Lists' /\ Advance(t, x, {y}, y)
<1>. DEFINE r == << y >>
<1>1. r \in Seq(Steps) /\ Len(r) = 1 /\ r[1] = y
  OBVIOUS
<1>. HIDE DEF r
<1>2. Ordered(r) /\ Elements(r) = {y}
  BY <1>1 DEF Ordered, Elements
<1>3. \A i \in 1 .. Len(r) : Behind(x) \subseteq Behind(r[i])
  <2>. SUFFICES ASSUME NEW i \in 1 .. Len(r) PROVE Behind(x) \subseteq Behind(r[i])
    OBVIOUS
  <2>1. r[i] = y
    BY <1>1
  <2>. QED
    BY <2>1
<1>4. Lists' /\ Advance(t, x, Elements(r), r[1])
  BY <1>1, <1>2, <1>3, Replace DEF r
<1>. QED
  BY <1>1, <1>2, <1>4

LEMMA PushTwo ==
  ASSUME Lists, NEW t \in Threads, NEW x, At(t, x), NEW y \in Steps, NEW z \in Steps,
         Then(t, << y, z >>), z \in Behind(y),
         Behind(x) \subseteq Behind(y), Behind(x) \subseteq Behind(z)
  PROVE  Lists' /\ Advance(t, x, {y, z}, y)
<1>. DEFINE r == << y, z >>
<1>1. r \in Seq(Steps) /\ Len(r) = 2 /\ r[1] = y /\ r[2] = z
  OBVIOUS
<1>. HIDE DEF r
<1>2. Ordered(r) /\ Elements(r) = {y, z}
  <2>1. 1 .. Len(r) = {1, 2}
    BY <1>1
  <2>2. \A i, j \in 1 .. Len(r) : i < j => r[j] \in Behind(r[i])
    BY <1>1, <2>1
  <2>. QED
    BY <1>1, <2>1, <2>2 DEF Ordered, Elements
<1>3. \A i \in 1 .. Len(r) : Behind(x) \subseteq Behind(r[i])
  <2>. SUFFICES ASSUME NEW i \in 1 .. Len(r) PROVE Behind(x) \subseteq Behind(r[i])
    OBVIOUS
  <2>1. r[i] = y \/ r[i] = z
    BY <1>1
  <2>. QED
    BY <1>1, <2>1
<1>4. Lists' /\ Advance(t, x, Elements(r), r[1])
  BY <1>1, <1>2, <1>3, Replace DEF r
<1>. QED
  BY <1>1, <1>2, <1>4

LEMMA PushThree ==
  ASSUME Lists, NEW t \in Threads, NEW x, At(t, x),
         NEW y \in Steps, NEW z \in Steps, NEW w \in Steps,
         Then(t, << y, z, w >>), z \in Behind(y), w \in Behind(y), w \in Behind(z),
         Behind(x) \subseteq Behind(y), Behind(x) \subseteq Behind(z),
         Behind(x) \subseteq Behind(w)
  PROVE  Lists' /\ Advance(t, x, {y, z, w}, y)
<1>. DEFINE r == << y, z, w >>
<1>1. r \in Seq(Steps) /\ Len(r) = 3 /\ r[1] = y /\ r[2] = z /\ r[3] = w
  OBVIOUS
<1>. HIDE DEF r
<1>2. Ordered(r) /\ Elements(r) = {y, z, w}
  <2>1. 1 .. Len(r) = {1, 2, 3}
    BY <1>1
  <2>2. \A i, j \in 1 .. Len(r) : i < j => r[j] \in Behind(r[i])
    BY <1>1, <2>1
  <2>. QED
    BY <1>1, <2>1, <2>2 DEF Ordered, Elements
<1>3. \A i \in 1 .. Len(r) : Behind(x) \subseteq Behind(r[i])
  <2>. SUFFICES ASSUME NEW i \in 1 .. Len(r) PROVE Behind(x) \subseteq Behind(r[i])
    OBVIOUS
  <2>1. r[i] = y \/ r[i] = z \/ r[i] = w
    BY <1>1
  <2>. QED
    BY <1>1, <2>1
<1>4. Lists' /\ Advance(t, x, Elements(r), r[1])
  BY <1>1, <1>2, <1>3, Replace DEF r
<1>. QED
  BY <1>1, <1>2, <1>4

-----------------------------------------------------------------------------
(* What each step does: which steps come in its place, and which fields of   *)
(* its bridge it may have changed.                                           *)

Moves(t, x, new, f) == At(t, x) /\ Lists' /\ Advance(t, x, new, f)

\* All fields of all bridges but those of b in F are as they were.
Same(b, F) ==
  /\ bridge' \in [Bridges -> BridgeState]
  /\ \A c \in Bridges :
       /\ c # b \/ "life" \notin F => bridge'[c].life = bridge[c].life
       /\ c # b \/ "enabled" \notin F => bridge'[c].enabled = bridge[c].enabled
       /\ c # b \/ "discovery" \notin F => bridge'[c].discovery = bridge[c].discovery
       /\ c # b \/ "flag" \notin F => bridge'[c].flag = bridge[c].flag
       /\ c # b \/ "app" \notin F => bridge'[c].app = bridge[c].app
       /\ c # b \/ "told" \notin F => bridge'[c].told = bridge[c].told

SameMarks == UNCHANGED << late, cut, crossed >>

\* A bridge that is not touched.
LEMMA NoneTouched ==
  ASSUME Typed, UNCHANGED bridge, NEW b
  PROVE  Same(b, {})
BY DEF Typed, Same

\* A bridge with a new value.
LEMMA Touched ==
  ASSUME Typed, NEW b \in Bridges, NEW new \in BridgeState,
         bridge' = [bridge EXCEPT ![b] = new]
  PROVE  /\ bridge' \in [Bridges -> BridgeState] /\ bridge'[b] = new
         /\ \A c \in Bridges : c # b => bridge'[c] = bridge[c]
BY DEF Typed

\* One field written.
LEMMA OneField ==
  ASSUME Typed, NEW b \in Bridges
  PROVE  LET s == bridge[b] IN
    /\ \A v \in {"up", "stopping", "stopped"} :
         bridge' = [bridge EXCEPT ![b] = [s EXCEPT !.life = v]] =>
           Same(b, {"life"}) /\ bridge'[b].life = v
    /\ \A v \in BOOLEAN :
         /\ bridge' = [bridge EXCEPT ![b] = [s EXCEPT !.enabled = v]] =>
              Same(b, {"enabled"}) /\ bridge'[b].enabled = v
         /\ bridge' = [bridge EXCEPT ![b] = [s EXCEPT !.discovery = v]] =>
              Same(b, {"discovery"}) /\ bridge'[b].discovery = v
         /\ bridge' = [bridge EXCEPT ![b] = [s EXCEPT !.flag = v]] =>
              Same(b, {"flag"}) /\ bridge'[b].flag = v
         /\ bridge' = [bridge EXCEPT ![b] = [s EXCEPT !.told = v]] =>
              Same(b, {"told"}) /\ bridge'[b].told = v
         /\ bridge' = [bridge EXCEPT ![b] = [s EXCEPT !.wanted = v]] => Same(b, {})
         /\ bridge' = [bridge EXCEPT ![b] = [s EXCEPT !.adv = v]] => Same(b, {})
    /\ \A v \in Calls \cup {None} :
         /\ bridge' = [bridge EXCEPT ![b] = [s EXCEPT !.app = v]] =>
              Same(b, {"app"}) /\ bridge'[b].app = v
         /\ bridge' = [bridge EXCEPT ![b] = [s EXCEPT !.sampled = v]] => Same(b, {})
         /\ bridge' = [bridge EXCEPT ![b] = [s EXCEPT !.app = v, !.sampled = v]] =>
              Same(b, {"app"}) /\ bridge'[b].app = v
<1>. DEFINE s == bridge[b]
<1>1. s \in BridgeState
  BY DEF Typed
<1>2. ASSUME NEW v \in {"up", "stopping", "stopped"},
             bridge' = [bridge EXCEPT ![b] = [s EXCEPT !.life = v]]
      PROVE  Same(b, {"life"}) /\ bridge'[b].life = v
  <2>. DEFINE n == [s EXCEPT !.life = v]
  <2>1. n \in BridgeState /\ n.life = v
        /\ n.enabled = s.enabled /\ n.discovery = s.discovery /\ n.flag = s.flag
        /\ n.app = s.app /\ n.told = s.told
    BY <1>1 DEF BridgeState
  <2>. HIDE DEF n
  <2>2. bridge' = [bridge EXCEPT ![b] = n]
    BY <1>2 DEF n
  <2>. QED
    BY <2>1, <2>2, Touched DEF Same
<1>3. ASSUME NEW v \in BOOLEAN
      PROVE
         /\ bridge' = [bridge EXCEPT ![b] = [s EXCEPT !.enabled = v]] =>
              Same(b, {"enabled"}) /\ bridge'[b].enabled = v
         /\ bridge' = [bridge EXCEPT ![b] = [s EXCEPT !.discovery = v]] =>
              Same(b, {"discovery"}) /\ bridge'[b].discovery = v
         /\ bridge' = [bridge EXCEPT ![b] = [s EXCEPT !.flag = v]] =>
              Same(b, {"flag"}) /\ bridge'[b].flag = v
         /\ bridge' = [bridge EXCEPT ![b] = [s EXCEPT !.told = v]] =>
              Same(b, {"told"}) /\ bridge'[b].told = v
         /\ bridge' = [bridge EXCEPT ![b] = [s EXCEPT !.wanted = v]] => Same(b, {})
         /\ bridge' = [bridge EXCEPT ![b] = [s EXCEPT !.adv = v]] => Same(b, {})
  <2>1. ASSUME bridge' = [bridge EXCEPT ![b] = [s EXCEPT !.enabled = v]]
        PROVE  Same(b, {"enabled"}) /\ bridge'[b].enabled = v
    <3>. DEFINE n == [s EXCEPT !.enabled = v]
    <3>1. n \in BridgeState /\ n.enabled = v
          /\ n.life = s.life /\ n.discovery = s.discovery /\ n.flag = s.flag
          /\ n.app = s.app /\ n.told = s.told
      BY <1>1 DEF BridgeState
    <3>. HIDE DEF n
    <3>2. bridge' = [bridge EXCEPT ![b] = n]
      BY <2>1 DEF n
    <3>. QED
      BY <3>1, <3>2, Touched DEF Same
  <2>2. ASSUME bridge' = [bridge EXCEPT ![b] = [s EXCEPT !.discovery = v]]
        PROVE  Same(b, {"discovery"}) /\ bridge'[b].discovery = v
    <3>. DEFINE n == [s EXCEPT !.discovery = v]
    <3>1. n \in BridgeState /\ n.discovery = v
          /\ n.life = s.life /\ n.enabled = s.enabled /\ n.flag = s.flag
          /\ n.app = s.app /\ n.told = s.told
      BY <1>1 DEF BridgeState
    <3>. HIDE DEF n
    <3>2. bridge' = [bridge EXCEPT ![b] = n]
      BY <2>2 DEF n
    <3>. QED
      BY <3>1, <3>2, Touched DEF Same
  <2>3. ASSUME bridge' = [bridge EXCEPT ![b] = [s EXCEPT !.flag = v]]
        PROVE  Same(b, {"flag"}) /\ bridge'[b].flag = v
    <3>. DEFINE n == [s EXCEPT !.flag = v]
    <3>1. n \in BridgeState /\ n.flag = v
          /\ n.life = s.life /\ n.enabled = s.enabled /\ n.discovery = s.discovery
          /\ n.app = s.app /\ n.told = s.told
      BY <1>1 DEF BridgeState
    <3>. HIDE DEF n
    <3>2. bridge' = [bridge EXCEPT ![b] = n]
      BY <2>3 DEF n
    <3>. QED
      BY <3>1, <3>2, Touched DEF Same
  <2>4. ASSUME bridge' = [bridge EXCEPT ![b] = [s EXCEPT !.told = v]]
        PROVE  Same(b, {"told"}) /\ bridge'[b].told = v
    <3>. DEFINE n == [s EXCEPT !.told = v]
    <3>1. n \in BridgeState /\ n.told = v
          /\ n.life = s.life /\ n.enabled = s.enabled /\ n.discovery = s.discovery
          /\ n.flag = s.flag /\ n.app = s.app
      BY <1>1 DEF BridgeState
    <3>. HIDE DEF n
    <3>2. bridge' = [bridge EXCEPT ![b] = n]
      BY <2>4 DEF n
    <3>. QED
      BY <3>1, <3>2, Touched DEF Same
  <2>5. ASSUME bridge' = [bridge EXCEPT ![b] = [s EXCEPT !.wanted = v]]
        PROVE  Same(b, {})
    <3>. DEFINE n == [s EXCEPT !.wanted = v]
    <3>1. n \in BridgeState
          /\ n.life = s.life /\ n.enabled = s.enabled /\ n.discovery = s.discovery
          /\ n.flag = s.flag /\ n.app = s.app /\ n.told = s.told
      BY <1>1 DEF BridgeState
    <3>. HIDE DEF n
    <3>2. bridge' = [bridge EXCEPT ![b] = n]
      BY <2>5 DEF n
    <3>. QED
      BY <3>1, <3>2, Touched DEF Same
  <2>6. ASSUME bridge' = [bridge EXCEPT ![b] = [s EXCEPT !.adv = v]]
        PROVE  Same(b, {})
    <3>. DEFINE n == [s EXCEPT !.adv = v]
    <3>1. n \in BridgeState
          /\ n.life = s.life /\ n.enabled = s.enabled /\ n.discovery = s.discovery
          /\ n.flag = s.flag /\ n.app = s.app /\ n.told = s.told
      BY <1>1 DEF BridgeState
    <3>. HIDE DEF n
    <3>2. bridge' = [bridge EXCEPT ![b] = n]
      BY <2>6 DEF n
    <3>. QED
      BY <3>1, <3>2, Touched DEF Same
  <2>. QED
    BY <2>1, <2>2, <2>3, <2>4, <2>5, <2>6
<1>4. ASSUME NEW v \in Calls \cup {None}
      PROVE
         /\ bridge' = [bridge EXCEPT ![b] = [s EXCEPT !.app = v]] =>
              Same(b, {"app"}) /\ bridge'[b].app = v
         /\ bridge' = [bridge EXCEPT ![b] = [s EXCEPT !.sampled = v]] => Same(b, {})
         /\ bridge' = [bridge EXCEPT ![b] = [s EXCEPT !.app = v, !.sampled = v]] =>
              Same(b, {"app"}) /\ bridge'[b].app = v
  <2>1. ASSUME bridge' = [bridge EXCEPT ![b] = [s EXCEPT !.app = v]]
        PROVE  Same(b, {"app"}) /\ bridge'[b].app = v
    <3>. DEFINE n == [s EXCEPT !.app = v]
    <3>1. n \in BridgeState /\ n.app = v
          /\ n.life = s.life /\ n.enabled = s.enabled /\ n.discovery = s.discovery
          /\ n.flag = s.flag /\ n.told = s.told
      BY <1>1 DEF BridgeState
    <3>. HIDE DEF n
    <3>2. bridge' = [bridge EXCEPT ![b] = n]
      BY <2>1 DEF n
    <3>. QED
      BY <3>1, <3>2, Touched DEF Same
  <2>2. ASSUME bridge' = [bridge EXCEPT ![b] = [s EXCEPT !.sampled = v]]
        PROVE  Same(b, {})
    <3>. DEFINE n == [s EXCEPT !.sampled = v]
    <3>1. n \in BridgeState
          /\ n.life = s.life /\ n.enabled = s.enabled /\ n.discovery = s.discovery
          /\ n.flag = s.flag /\ n.app = s.app /\ n.told = s.told
      BY <1>1 DEF BridgeState
    <3>. HIDE DEF n
    <3>2. bridge' = [bridge EXCEPT ![b] = n]
      BY <2>2 DEF n
    <3>. QED
      BY <3>1, <3>2, Touched DEF Same
  <2>3. ASSUME bridge' = [bridge EXCEPT ![b] = [s EXCEPT !.app = v, !.sampled = v]]
        PROVE  Same(b, {"app"}) /\ bridge'[b].app = v
    <3>. DEFINE n == [s EXCEPT !.app = v, !.sampled = v]
    <3>1. n \in BridgeState /\ n.app = v
          /\ n.life = s.life /\ n.enabled = s.enabled /\ n.discovery = s.discovery
          /\ n.flag = s.flag /\ n.told = s.told
      BY <1>1 DEF BridgeState
    <3>. HIDE DEF n
    <3>2. bridge' = [bridge EXCEPT ![b] = n]
      BY <2>3 DEF n
    <3>. QED
      BY <3>1, <3>2, Touched DEF Same
  <2>. QED
    BY <2>1, <2>2, <2>3
<1>. QED
  BY <1>2, <1>3, <1>4

\* No other thread is inside a registration, if nothing has crossed after the step.
Clear(t) ==
  crossed' = {} => crossed = {} /\ \A u \in Threads \ {t} : ~InCritical(u)

LEMMA MeetsClear == ASSUME NEW t \in Threads, NEW b, Meets(t, b) PROVE Clear(t)
BY DEF Meets, Clear, InCritical, Critical

LEMMA RegisterDoes ==
  ASSUME Typed, Lists, NEW t \in Threads, NEW b \in Bridges, Register(t, b)
  PROVE  /\ \/ bridge[b].flag /\ \E f : Moves(t, "register", {}, f)
            \/ ~bridge[b].flag /\ Moves(t, "register", {"list"}, "list")
         /\ Same(b, {}) /\ Clear(t)
         /\ UNCHANGED << listed, of, late, cut >>
<1>1. Same(b, {}) /\ Clear(t) /\ UNCHANGED << listed, of, late, cut >> /\ At(t, "register")
  BY NoneTouched, MeetsClear DEF Register, base
<1>2. CASE bridge[b].flag
  <2>1. Then(t, << >>)
    BY <1>2 DEF Register, ThenIf
  <2>. QED
    BY <1>1, <1>2, <2>1, Pop DEF Moves
<1>3. CASE ~bridge[b].flag
  <2>1. Then(t, <<"list">>)
    BY <1>3 DEF Register, ThenIf
  <2>2. Behind("register") \subseteq Behind("list") /\ "list" \in Steps
    BY DEF Behind, Steps, AdminSteps, Reg, Unreg
  <2>. QED
    BY <1>1, <1>3, <2>1, <2>2, Push DEF Moves
<1>. QED
  BY <1>1, <1>2, <1>3

LEMMA UnregisterDoes ==
  ASSUME Typed, Lists, NEW t \in Threads, NEW b \in Bridges, Unregister(t, b)
  PROVE  /\ \/ ~bridge[b].flag /\ \E f : Moves(t, "unregister", {}, f)
            \/ bridge[b].flag /\ Moves(t, "unregister", {"unlist"}, "unlist")
         /\ Same(b, {}) /\ Clear(t)
         /\ UNCHANGED << listed, of, late, cut >>
<1>1. Same(b, {}) /\ Clear(t) /\ UNCHANGED << listed, of, late, cut >> /\ At(t, "unregister")
  BY NoneTouched, MeetsClear DEF Unregister, base
<1>2. CASE ~bridge[b].flag
  <2>1. Then(t, << >>)
    BY <1>2 DEF Unregister, ThenIf
  <2>. QED
    BY <1>1, <1>2, <2>1, Pop DEF Moves
<1>3. CASE bridge[b].flag
  <2>1. Then(t, <<"unlist">>)
    BY <1>3 DEF Unregister, ThenIf
  <2>2. Behind("unregister") \subseteq Behind("unlist") /\ "unlist" \in Steps
    BY DEF Behind, Steps, AdminSteps, Reg, Unreg
  <2>. QED
    BY <1>1, <1>3, <2>1, <2>2, Push DEF Moves
<1>. QED
  BY <1>1, <1>2, <1>3

LEMMA ListDoes ==
  ASSUME Typed, Lists, NEW t \in Threads, NEW b \in Bridges, List(t, b)
  PROVE  /\ Moves(t, "list", {"mark"}, "mark")
         /\ Same(b, {}) /\ listed' = b /\ UNCHANGED << of, late, cut, crossed >>
<1>1. Behind("list") \subseteq Behind("mark") /\ "mark" \in Steps
  BY DEF Behind, Steps, AdminSteps, Reg, Unreg
<1>. QED
  BY <1>1, Push, NoneTouched DEF List, Moves, others, base

LEMMA UnlistDoes ==
  ASSUME Typed, Lists, NEW t \in Threads, NEW b \in Bridges, Unlist(t)
  PROVE  /\ Moves(t, "unlist", {"unmark"}, "unmark")
         /\ Same(b, {}) /\ listed' = None /\ UNCHANGED << of, late, cut, crossed >>
<1>1. Behind("unlist") \subseteq Behind("unmark") /\ "unmark" \in Steps
  BY DEF Behind, Steps, AdminSteps, Reg, Unreg
<1>. QED
  BY <1>1, Push, NoneTouched DEF Unlist, Moves, others, base

LEMMA MarkDoes ==
  ASSUME Typed, Lists, NEW t \in Threads, NEW b \in Bridges, Mark(t, b)
  PROVE  /\ \E f : Moves(t, "mark", {}, f)
         /\ Same(b, {"flag"}) /\ bridge'[b].flag
         /\ UNCHANGED << listed, of, late, cut, crossed >>
BY Pop, OneField DEF Mark, Set, Moves, others, base

LEMMA UnmarkDoes ==
  ASSUME Typed, Lists, NEW t \in Threads, NEW b \in Bridges, Unmark(t, b)
  PROVE  /\ \E f : Moves(t, "unmark", {}, f)
         /\ Same(b, {"flag"}) /\ ~bridge'[b].flag
         /\ UNCHANGED << listed, of, late, cut, crossed >>
BY Pop, OneField DEF Unmark, Set, Moves, others, base

LEMMA TellUpDoes ==
  ASSUME Typed, Lists, NEW t \in Threads, NEW b \in Bridges, TellUp(t, b)
  PROVE  /\ \E f : Moves(t, "tell up", {}, f)
         /\ Same(b, {"told"}) /\ bridge'[b].told
         /\ UNCHANGED << listed, of, late, cut, crossed >>
BY Pop, OneField DEF TellUp, Set, Moves, others, base

LEMMA TellDownDoes ==
  ASSUME Typed, Lists, NEW t \in Threads, NEW b \in Bridges, TellDown(t, b)
  PROVE  /\ \E f : Moves(t, "tell down", {}, f)
         /\ Same(b, {"told"}) /\ ~bridge'[b].told
         /\ UNCHANGED << listed, of, late, cut, crossed >>
BY Pop, OneField DEF TellDown, Set, Moves, others, base

LEMMA StoppedDoes ==
  ASSUME Typed, Lists, NEW t \in Threads, NEW b \in Bridges, Stopped(t, b)
  PROVE  /\ \E f : Moves(t, "stopped", {}, f)
         /\ Same(b, {"life"}) /\ bridge'[b].life = "stopped"
         /\ UNCHANGED << listed, of, late, cut, crossed >>
BY Pop, OneField DEF Stopped, Set, Moves, others, base

\* The steps that touch nothing the invariants speak of.
PlainSteps == {"want", "refuse", "withdraw", "note on", "note off", "unlock", "retract",
               "announce", "mdns"}
Plain(x, new, f) ==
  /\ x \in PlainSteps
  /\ \/ new = {}
     \/ x = "retract" /\ new = {"unlisten", "withdraw"} /\ f = "unlisten"
     \/ x = "announce" /\ new = {"mdns"} /\ f = "mdns"
     \/ x = "mdns" /\ new = {"listen"} /\ f = "listen"

PlainStep(t, b) ==
  \/ Want(t, b) \/ Refuse(t, b) \/ Withdraw(t, b)
  \/ Note(t, "note on", TRUE) \/ Note(t, "note off", FALSE) \/ Unlock(t)
  \/ Retract(t, b) \/ Announce(t, b) \/ Mdns(t, b)

LEMMA PlainDoes ==
  ASSUME Typed, Lists, NEW t \in Threads, NEW b \in Bridges, PlainStep(t, b)
  PROVE  /\ \E x, new, f : Moves(t, x, new, f) /\ Plain(x, new, f)
         /\ Same(b, {}) /\ UNCHANGED << listed, of, late, cut, crossed >>
<1>. USE DEF others, base, PlainSteps
<1>1. /\ Behind("retract") \subseteq Behind("unlisten")
      /\ Behind("retract") \subseteq Behind("withdraw")
      /\ "withdraw" \in Behind("unlisten")
      /\ Behind("announce") \subseteq Behind("mdns")
      /\ Behind("mdns") \subseteq Behind("listen")
  BY DEF Behind, Reg, Unreg
<1>2. {"unlisten", "withdraw", "mdns", "listen"} \subseteq Steps
  BY DEF Steps, AdminSteps
<1>3. ASSUME NEW x \in PlainSteps, At(t, x), Then(t, << >>)
      PROVE  \E z, new, f : Moves(t, z, new, f) /\ Plain(z, new, f)
  BY <1>3, Pop DEF Moves, Plain
<1>4. CASE Want(t, b)
  BY <1>3, <1>4, OneField DEF Want, Set
<1>5. CASE Refuse(t, b)
  BY <1>3, <1>5, OneField DEF Refuse, Set
<1>6. CASE Withdraw(t, b)
  BY <1>3, <1>6, OneField DEF Withdraw, Set
<1>7. CASE Note(t, "note on", TRUE) \/ Note(t, "note off", FALSE) \/ Unlock(t)
  BY <1>3, <1>7, NoneTouched DEF Note, Unlock
<1>8. CASE Retract(t, b)
  <2>1. Same(b, {}) /\ UNCHANGED << listed, of, late, cut, crossed >> /\ At(t, "retract")
    BY <1>8, NoneTouched DEF Retract
  <2>2. Then(t, << >>) \/ Then(t, <<"unlisten", "withdraw">>)
    BY <1>8 DEF Retract, ThenIf
  <2>3. CASE Then(t, <<"unlisten", "withdraw">>)
    <3>1. Moves(t, "retract", {"unlisten", "withdraw"}, "unlisten")
      BY <1>1, <1>2, <2>1, <2>3, PushTwo DEF Moves
    <3>. QED
      BY <2>1, <3>1 DEF Plain
  <2>. QED
    BY <1>3, <2>1, <2>2, <2>3
<1>9. CASE Announce(t, b)
  <2>1. Same(b, {}) /\ UNCHANGED << listed, of, late, cut, crossed >> /\ At(t, "announce")
    BY <1>9, NoneTouched DEF Announce
  <2>2. Then(t, << >>) \/ Then(t, <<"mdns">>)
    BY <1>9 DEF Announce, ThenIf
  <2>3. CASE Then(t, <<"mdns">>)
    <3>1. Moves(t, "announce", {"mdns"}, "mdns")
      BY <1>1, <1>2, <2>1, <2>3, Push DEF Moves
    <3>. QED
      BY <2>1, <3>1 DEF Plain
  <2>. QED
    BY <1>3, <2>1, <2>2, <2>3
<1>10. CASE Mdns(t, b)
  <2>1. UNCHANGED << listed, of, late, cut, crossed >> /\ At(t, "mdns")
    BY <1>10 DEF Mdns
  <2>2. CASE Then(t, << >>) /\ UNCHANGED bridge
    BY <1>3, <2>1, <2>2, NoneTouched
  <2>3. CASE Then(t, <<"listen">>) /\ bridge' = [bridge EXCEPT ![b].adv = TRUE]
    <3>1. Moves(t, "mdns", {"listen"}, "listen")
      BY <1>1, <1>2, <2>1, <2>3, Push DEF Moves
    <3>2. Same(b, {})
      BY <2>3, OneField
    <3>. QED
      BY <2>1, <3>1, <3>2 DEF Plain
  <2>. QED
    BY <1>10, <2>2, <2>3 DEF Mdns
<1>. QED
  BY <1>4, <1>5, <1>6, <1>7, <1>8, <1>9, <1>10 DEF PlainStep

\* Switching on registers, unless that is not called for.
OnStep(t, b) == Enable(t, b) \/ Listen(t, b)

LEMMA OnDoes ==
  ASSUME Typed, Lists, NEW t \in Threads, NEW b \in Bridges, OnStep(t, b)
  PROVE  /\ \/ /\ Same(b, {"enabled"}) /\ bridge'[b].enabled
               /\ \/ /\ bridge[b].discovery /\ ~bridge[b].flag /\ bridge[b].app = None
                     /\ Moves(t, "enable", {"register"}, "register")
                  \/ /\ ~(bridge[b].discovery /\ ~bridge[b].flag /\ bridge[b].app = None)
                     /\ \E f : Moves(t, "enable", {}, f)
            \/ /\ Same(b, {"discovery"}) /\ bridge'[b].discovery
               /\ \/ /\ bridge[b].enabled /\ bridge[b].app = None
                     /\ Moves(t, "listen", {"register"}, "register")
                  \/ /\ ~(bridge[b].enabled /\ bridge[b].app = None)
                     /\ \E f : Moves(t, "listen", {}, f)
         /\ UNCHANGED << listed, of, late, cut, crossed >>
<1>1. /\ Behind("enable") \subseteq Behind("register")
      /\ Behind("listen") \subseteq Behind("register") /\ "register" \in Steps
  BY DEF Behind, Reg, Unreg, Steps, AdminSteps
<1>2. UNCHANGED << listed, of, late, cut, crossed >>
  BY DEF OnStep, Enable, Listen, others, base
<1>3. CASE Enable(t, b)
  <2>. DEFINE test == bridge[b].discovery /\ ~bridge[b].flag /\ bridge[b].app = None
  <2>1. Same(b, {"enabled"}) /\ bridge'[b].enabled
    <3>1. bridge' = [bridge EXCEPT ![b] = [bridge[b] EXCEPT !.enabled = TRUE]]
      BY <1>3 DEF Enable
    <3>. QED
      BY <3>1, OneField
  <2>2. At(t, "enable") /\ Then(t, IF test THEN <<"register">> ELSE << >>)
    BY <1>3 DEF Enable, ThenIf
  <2>3. \/ test /\ Moves(t, "enable", {"register"}, "register")
        \/ ~test /\ \E f : Moves(t, "enable", {}, f)
    <3>. HIDE DEF test
    <3>. QED
      BY <1>1, <2>2, Push, Pop DEF Moves
  <2>. QED
    BY <1>2, <2>1, <2>3
<1>4. CASE Listen(t, b)
  <2>. DEFINE test == bridge[b].enabled /\ bridge[b].app = None
  <2>1. Same(b, {"discovery"}) /\ bridge'[b].discovery
    <3>1. bridge' = [bridge EXCEPT ![b] = [bridge[b] EXCEPT !.discovery = TRUE]]
      BY <1>4 DEF Listen
    <3>. QED
      BY <3>1, OneField
  <2>2. At(t, "listen") /\ Then(t, IF test THEN <<"register">> ELSE << >>)
    BY <1>4 DEF Listen, ThenIf
  <2>3. \/ test /\ Moves(t, "listen", {"register"}, "register")
        \/ ~test /\ \E f : Moves(t, "listen", {}, f)
    <3>. HIDE DEF test
    <3>. QED
      BY <1>1, <2>2, Push, Pop DEF Moves
  <2>. QED
    BY <1>2, <2>1, <2>3
<1>. QED
  BY <1>3, <1>4 DEF OnStep

\* Switching off, and the threads under way that it finds.
OffStep(t, b) == Disable(t, b) \/ Unlisten(t, b) \/ Stop(t, b)

LEMMA OffDoes ==
  ASSUME Typed, Lists, NEW t \in Threads, NEW b \in Bridges, OffStep(t, b)
  PROVE  /\ \/ /\ Same(b, {"enabled"}) /\ ~bridge'[b].enabled
               /\ Moves(t, "disable", {"unregister"}, "unregister")
            \/ /\ Same(b, {"discovery"}) /\ ~bridge'[b].discovery
               /\ Moves(t, "unlisten", {"unregister"}, "unregister")
            \/ /\ Same(b, {"life"}) /\ bridge'[b].life = "stopping"
               /\ Moves(t, "stop", {"unregister"}, "unregister")
         /\ cut' = {} => cut = {} /\ \A u \in Calls \cup {b} : of[u] = b => todo[u] = << >>
         /\ UNCHANGED << listed, of, late, crossed >>
<1>1. /\ Behind("disable") \subseteq Behind("unregister")
      /\ Behind("unlisten") \subseteq Behind("unregister")
      /\ Behind("stop") \subseteq Behind("unregister") /\ "unregister" \in Steps
  BY DEF Behind, Reg, Unreg, Steps, AdminSteps
<1>2. /\ Off(b) /\ UNCHANGED << listed, of, late, crossed >>
      /\ Then(t, <<"unregister">>)
  BY DEF OffStep, Disable, Unlisten, Stop, SwitchOff, others, base
<1>3. cut' = {} => cut = {} /\ \A u \in Calls \cup {b} : of[u] = b => todo[u] = << >>
  BY <1>2 DEF Off
<1>4. CASE Disable(t, b)
  <2>1. /\ At(t, "disable")
        /\ bridge' = [bridge EXCEPT ![b] = [bridge[b] EXCEPT !.enabled = FALSE]]
    BY <1>4 DEF Disable, SwitchOff
  <2>2. Same(b, {"enabled"}) /\ ~bridge'[b].enabled
    BY <2>1, OneField
  <2>3. Moves(t, "disable", {"unregister"}, "unregister")
    BY <1>1, <1>2, <2>1, Push DEF Moves
  <2>. QED
    BY <1>2, <1>3, <2>2, <2>3
<1>5. CASE Unlisten(t, b)
  <2>1. /\ At(t, "unlisten")
        /\ bridge' = [bridge EXCEPT ![b] = [bridge[b] EXCEPT !.discovery = FALSE]]
    BY <1>5 DEF Unlisten, SwitchOff
  <2>2. Same(b, {"discovery"}) /\ ~bridge'[b].discovery
    BY <2>1, OneField
  <2>3. Moves(t, "unlisten", {"unregister"}, "unregister")
    BY <1>1, <1>2, <2>1, Push DEF Moves
  <2>. QED
    BY <1>2, <1>3, <2>2, <2>3
<1>6. CASE Stop(t, b)
  <2>1. /\ At(t, "stop")
        /\ bridge' = [bridge EXCEPT ![b] = [bridge[b] EXCEPT !.life = "stopping"]]
    BY <1>6 DEF Stop, SwitchOff
  <2>2. Same(b, {"life"}) /\ bridge'[b].life = "stopping"
    BY <2>1, OneField
  <2>3. Moves(t, "stop", {"unregister"}, "unregister")
    BY <1>1, <1>2, <2>1, Push DEF Moves
  <2>. QED
    BY <1>2, <1>3, <2>2, <2>3
<1>. QED
  BY <1>4, <1>5, <1>6 DEF OffStep

\* A session that ends before it was announced is marked.
Told(b) == b \notin late' => b \notin late /\ ~Unannounced(b)

LEMMA EndsTold ==
  ASSUME NEW b, NEW new, SessionEnds(b, new)
  PROVE  Told(b) /\ (\A c : c \notin late' => c \notin late)
         /\ UNCHANGED << listed, of, cut, crossed >>
BY DEF SessionEnds, Told

LEMMA CloseDoes ==
  ASSUME Typed, Lists, NEW t \in Threads, NEW b \in Bridges, Close(t, b)
  PROVE  /\ \/ /\ bridge[b].app # None
               /\ Moves(t, "close", {"down", "tell down", "unlock"}, "down")
            \/ bridge[b].app = None /\ \E f : Moves(t, "close", {}, f)
         /\ Same(b, {"app"}) /\ bridge'[b].app = None
         /\ Told(b) /\ (\A c : c \notin late' => c \notin late)
         /\ UNCHANGED << listed, of, cut, crossed >>
<1>1. /\ Behind("close") \subseteq Behind("down")
      /\ Behind("close") \subseteq Behind("tell down")
      /\ Behind("close") \subseteq Behind("unlock")
      /\ "tell down" \in Behind("down") /\ "unlock" \in Behind("down")
      /\ "unlock" \in Behind("tell down")
      /\ {"down", "tell down", "unlock"} \subseteq Steps
  BY DEF Behind, Reg, Unreg, Steps, AdminSteps
<1>2. /\ Told(b) /\ (\A c : c \notin late' => c \notin late)
      /\ UNCHANGED << listed, of, cut, crossed >>
  BY EndsTold DEF Close
<1>3. Same(b, {"app"}) /\ bridge'[b].app = None
  BY OneField DEF Close, SessionEnds
<1>4. At(t, "close")
      /\ Then(t, IF bridge[b].app # None THEN <<"down", "tell down", "unlock">> ELSE << >>)
  BY DEF Close, ThenIf
<1>5. CASE bridge[b].app # None
  <2>1. Moves(t, "close", {"down", "tell down", "unlock"}, "down")
    BY <1>1, <1>4, <1>5, PushThree DEF Moves
  <2>. QED
    BY <1>2, <1>3, <1>5, <2>1
<1>6. CASE bridge[b].app = None
  <2>1. \E f : Moves(t, "close", {}, f)
    BY <1>4, <1>6, Pop DEF Moves
  <2>. QED
    BY <1>2, <1>3, <1>6, <2>1
<1>. QED
  BY <1>5, <1>6

\* The steps that register the bridge again, if it is on.
DownDoes(t, b) ==
  \/ /\ bridge[b].enabled /\ bridge[b].discovery
     /\ Moves(t, "down", {"register"}, "register")
  \/ ~(bridge[b].enabled /\ bridge[b].discovery) /\ \E f : Moves(t, "down", {}, f)
FailedDoes(t, b) ==
  \/ bridge[b].enabled /\ Moves(t, "failed", {"register"}, "register")
  \/ ~bridge[b].enabled /\ \E f : Moves(t, "failed", {}, f)

LEMMA AgainDoes ==
  ASSUME Typed, Lists, NEW t \in Threads, NEW b \in Bridges, Down(t, b) \/ Failed(t, b)
  PROVE  /\ DownDoes(t, b) \/ FailedDoes(t, b)
         /\ Same(b, {}) /\ UNCHANGED << listed, of, late, cut, crossed >>
<1>1. /\ Behind("down") \subseteq Behind("register")
      /\ Behind("failed") \subseteq Behind("register") /\ "register" \in Steps
  BY DEF Behind, Reg, Unreg, Steps, AdminSteps
<1>2. Same(b, {}) /\ UNCHANGED << listed, of, late, cut, crossed >>
  BY NoneTouched DEF Down, Failed, others, base
<1>3. CASE Down(t, b)
  <2>. DEFINE test == bridge[b].enabled /\ bridge[b].discovery
  <2>1. At(t, "down") /\ Then(t, IF test THEN <<"register">> ELSE << >>)
    BY <1>3 DEF Down, ThenIf
  <2>2. \/ test /\ Moves(t, "down", {"register"}, "register")
        \/ ~test /\ \E f : Moves(t, "down", {}, f)
    <3>. HIDE DEF test
    <3>. QED
      BY <1>1, <2>1, Push, Pop DEF Moves
  <2>. QED
    BY <1>2, <2>2 DEF DownDoes
<1>4. CASE Failed(t, b)
  <2>. DEFINE test == bridge[b].enabled
  <2>1. At(t, "failed") /\ Then(t, IF test THEN <<"register">> ELSE << >>)
    BY <1>4 DEF Failed, ThenIf
  <2>2. \/ test /\ Moves(t, "failed", {"register"}, "register")
        \/ ~test /\ \E f : Moves(t, "failed", {}, f)
    <3>. HIDE DEF test
    <3>. QED
      BY <1>1, <2>1, Push, Pop DEF Moves
  <2>. QED
    BY <1>2, <2>2 DEF FailedDoes
<1>. QED
  BY <1>3, <1>4

\* The dial, up to the session.
LEMMA DialDoes ==
  ASSUME Typed, Lists, NEW t \in Threads, NEW b \in Bridges, Answer(t, b) \/ Connect(t)
  PROVE  /\ \/ /\ bridge[b].enabled /\ bridge[b].life = "up"
               /\ Moves(t, "answer", {"unregister", "connect"}, "unregister")
            \/ \E f : Moves(t, "answer", {}, f)
            \/ Moves(t, "connect", {"install"}, "install")
            \/ Moves(t, "connect", {"failed"}, "failed")
         /\ Same(b, {}) /\ UNCHANGED << listed, of, late, cut, crossed >>
<1>1. /\ Behind("answer") \subseteq Behind("unregister")
      /\ Behind("answer") \subseteq Behind("connect")
      /\ "connect" \in Behind("unregister")
      /\ Behind("connect") \subseteq Behind("install")
      /\ Behind("connect") \subseteq Behind("failed")
      /\ {"unregister", "connect", "install", "failed"} \subseteq Steps
  BY DEF Behind, Reg, Unreg, Steps, AdminSteps, CallSteps
<1>2. Same(b, {}) /\ UNCHANGED << listed, of, late, cut, crossed >>
  BY NoneTouched DEF Answer, Connect, others, base
<1>3. CASE Answer(t, b)
  <2>. DEFINE test == bridge[b].enabled /\ bridge[b].life = "up"
  <2>1. At(t, "answer") /\ Then(t, IF test THEN <<"unregister", "connect">> ELSE << >>)
    BY <1>3 DEF Answer, ThenIf
  <2>2. \/ test /\ Moves(t, "answer", {"unregister", "connect"}, "unregister")
        \/ \E f : Moves(t, "answer", {}, f)
    <3>. HIDE DEF test
    <3>. QED
      BY <1>1, <2>1, PushTwo, Pop DEF Moves
  <2>. QED
    BY <1>2, <2>2
<1>4. CASE Connect(t)
  BY <1>1, <1>2, <1>4, Push DEF Moves, Connect
<1>. QED
  BY <1>3, <1>4

LEMMA InstallDoes ==
  ASSUME Typed, Lists, NEW t \in Calls, NEW b \in Bridges, Install(t, b)
  PROVE  /\ Moves(t, "install", {"unregister", "tell up"}, "unregister")
         /\ ~AppLocked(b)
         /\ Same(b, {"app"}) /\ bridge'[b].app = t
         /\ b \notin late' => todo[b] = << >>
         /\ \A c : c \notin late' => c \notin late
         /\ UNCHANGED << listed, of, cut, crossed >>
<1>1. /\ Behind("install") \subseteq Behind("unregister")
      /\ Behind("install") \subseteq Behind("tell up")
      /\ "tell up" \in Behind("unregister") /\ {"unregister", "tell up"} \subseteq Steps
  BY DEF Behind, Reg, Unreg, Steps, AdminSteps, CallSteps
<1>2. t \in Threads
  BY DEF Threads
<1>3. At(t, "install") /\ Then(t, <<"unregister", "tell up">>) /\ ~AppLocked(b)
  BY DEF Install
<1>4. Moves(t, "install", {"unregister", "tell up"}, "unregister")
  BY <1>1, <1>2, <1>3, PushTwo DEF Moves
<1>5. Same(b, {"app"}) /\ bridge'[b].app = t
  BY OneField DEF Install
<1>. QED
  BY <1>3, <1>4, <1>5 DEF Install

-----------------------------------------------------------------------------
(* Any step, in three parts: what it leads to, what it writes, and what it   *)
(* finds.                                                                    *)

\* The steps that come in the place of x.
Leads(x, new, f) ==
  \/ new = {} /\ x \notin {"list", "unlist", "disable", "unlisten", "stop", "connect", "install"}
  \/ /\ new = {f}
     /\ \/ x = "announce" /\ f = "mdns"
        \/ x = "mdns" /\ f = "listen"
        \/ x \in {"enable", "listen", "down", "failed"} /\ f = "register"
        \/ x \in {"disable", "unlisten", "stop"} /\ f = "unregister"
        \/ x = "register" /\ f = "list"
        \/ x = "list" /\ f = "mark"
        \/ x = "unregister" /\ f = "unlist"
        \/ x = "unlist" /\ f = "unmark"
        \/ x = "connect" /\ f \in {"install", "failed"}
  \/ x = "retract" /\ new = {"unlisten", "withdraw"} /\ f = "unlisten"
  \/ x = "close" /\ new = {"down", "tell down", "unlock"} /\ f = "down"
  \/ x = "answer" /\ new = {"unregister", "connect"} /\ f = "unregister"
  \/ x = "install" /\ new = {"unregister", "tell up"} /\ f = "unregister"

\* What step x of thread t on b writes.
Writes(t, b, x) ==
  /\ bridge' \in [Bridges -> BridgeState]
  /\ \A c \in Bridges :
       /\ c # b \/ x \notin {"stop", "stopped"} => bridge'[c].life = bridge[c].life
       /\ c # b \/ x \notin {"enable", "disable"} => bridge'[c].enabled = bridge[c].enabled
       /\ c # b \/ x \notin {"listen", "unlisten"} =>
            bridge'[c].discovery = bridge[c].discovery
       /\ c # b \/ x \notin {"mark", "unmark"} => bridge'[c].flag = bridge[c].flag
       /\ c # b \/ x \notin {"close", "install"} => bridge'[c].app = bridge[c].app
       /\ c # b \/ x \notin {"tell up", "tell down"} => bridge'[c].told = bridge[c].told
  /\ x = "stop" => bridge'[b].life = "stopping"
  /\ x = "stopped" => bridge'[b].life = "stopped"
  /\ x = "enable" => bridge'[b].enabled
  /\ x = "disable" => ~bridge'[b].enabled
  /\ x = "listen" => bridge'[b].discovery
  /\ x = "unlisten" => ~bridge'[b].discovery
  /\ x = "mark" => bridge'[b].flag
  /\ x = "unmark" => ~bridge'[b].flag
  /\ x = "close" => bridge'[b].app = None
  /\ x = "install" => bridge'[b].app = t
  /\ x = "tell up" => bridge'[b].told
  /\ x = "tell down" => ~bridge'[b].told
  /\ x \notin {"list", "unlist"} => listed' = listed
  /\ x = "list" => listed' = b
  /\ x = "unlist" => listed' = None
  /\ of' = of

\* What it found, and the marks it leaves.
Finds(t, b, x, new) ==
  /\ x = "register" => (new = {} <=> bridge[b].flag)
  /\ x = "unregister" => (new = {} <=> ~bridge[b].flag)
  /\ x \in {"register", "unregister"} => Clear(t)
  /\ x = "enable" => (new = {} <=> ~(bridge[b].discovery /\ ~bridge[b].flag /\ bridge[b].app = None))
  /\ x = "listen" => (new = {} <=> ~(bridge[b].enabled /\ bridge[b].app = None))
  /\ x \in {"disable", "unlisten", "stop"} /\ cut' = {} =>
       \A u \in Calls \cup {b} : of[u] = b => todo[u] = << >>
  /\ x = "close" => (new = {} <=> bridge[b].app = None)
  /\ x \in {"close", "install"} => (b \notin late' => x = "close" \/ todo[b] = << >>)
  /\ x = "close" => Told(b)
  /\ x = "install" => ~AppLocked(b)
  /\ x = "down" => (new = {} <=> ~(bridge[b].enabled /\ bridge[b].discovery))
  /\ x = "failed" => (new = {} <=> ~bridge[b].enabled)
  /\ x = "answer" /\ new # {} => bridge[b].enabled
  /\ \A c : c \notin late' => c \notin late
  /\ cut' = {} => cut = {}
  /\ crossed' = {} => crossed = {}

Does(t, b, x, new, f) ==
  Moves(t, x, new, f) /\ Leads(x, new, f) /\ Writes(t, b, x) /\ Finds(t, b, x, new)

LEMMA StepDoes ==
  ASSUME Typed, Ways, NEW t \in Threads, NEW b \in Bridges, Step(t, b)
  PROVE  \E x, new, f : Does(t, b, x, new, f)
<1>. USE DEF Does, Same
<1>1. Lists
  BY DEF Typed, Ways, Lists
<1>2. CASE Register(t, b)
  <2>1. PICK new, f : /\ Moves(t, "register", new, f)
                      /\ \/ bridge[b].flag /\ new = {}
                         \/ ~bridge[b].flag /\ new = {"list"} /\ f = "list"
    BY <1>1, <1>2, RegisterDoes
  <2>2. Same(b, {}) /\ Clear(t) /\ UNCHANGED << listed, of, late, cut >>
    BY <1>1, <1>2, RegisterDoes
  <2>3. Leads("register", new, f)
    BY <2>1 DEF Leads
  <2>4. Writes(t, b, "register")
    BY <2>2 DEF Writes
  <2>5. Finds(t, b, "register", new)
    BY <2>1, <2>2 DEF Finds, Clear
  <2>. QED
    BY <2>1, <2>3, <2>4, <2>5
<1>3. CASE Unregister(t, b)
  <2>1. PICK new, f : /\ Moves(t, "unregister", new, f)
                      /\ \/ ~bridge[b].flag /\ new = {}
                         \/ bridge[b].flag /\ new = {"unlist"} /\ f = "unlist"
    BY <1>1, <1>3, UnregisterDoes
  <2>2. Same(b, {}) /\ Clear(t) /\ UNCHANGED << listed, of, late, cut >>
    BY <1>1, <1>3, UnregisterDoes
  <2>3. Leads("unregister", new, f)
    BY <2>1 DEF Leads
  <2>4. Writes(t, b, "unregister")
    BY <2>2 DEF Writes
  <2>5. Finds(t, b, "unregister", new)
    BY <2>1, <2>2 DEF Finds, Clear
  <2>. QED
    BY <2>1, <2>3, <2>4, <2>5
<1>4. CASE List(t, b)
  <2>1. /\ Moves(t, "list", {"mark"}, "mark")
        /\ Same(b, {}) /\ listed' = b /\ UNCHANGED << of, late, cut, crossed >>
    BY <1>1, <1>4, ListDoes
  <2>2. Leads("list", {"mark"}, "mark")
    BY DEF Leads
  <2>3. Writes(t, b, "list")
    BY <2>1 DEF Writes
  <2>4. Finds(t, b, "list", {"mark"})
    BY <2>1 DEF Finds
  <2>. QED
    BY <2>1, <2>2, <2>3, <2>4
<1>5. CASE Unlist(t)
  <2>1. /\ Moves(t, "unlist", {"unmark"}, "unmark")
        /\ Same(b, {}) /\ listed' = None /\ UNCHANGED << of, late, cut, crossed >>
    BY <1>1, <1>5, UnlistDoes
  <2>2. Leads("unlist", {"unmark"}, "unmark")
    BY DEF Leads
  <2>3. Writes(t, b, "unlist")
    BY <2>1 DEF Writes
  <2>4. Finds(t, b, "unlist", {"unmark"})
    BY <2>1 DEF Finds
  <2>. QED
    BY <2>1, <2>2, <2>3, <2>4
<1>6. ASSUME NEW x \in {"mark", "unmark", "tell up", "tell down", "stopped"}, Writes(t, b, x),
             \E f : Moves(t, x, {}, f), UNCHANGED << late, cut, crossed >>
      PROVE  \E new, f : Does(t, b, x, new, f)
  <2>1. PICK f : Moves(t, x, {}, f)
    BY <1>6
  <2>2. Leads(x, {}, f)
    BY DEF Leads
  <2>3. Finds(t, b, x, {})
    BY <1>6 DEF Finds
  <2>. QED
    BY <1>6, <2>1, <2>2, <2>3
<1>7. CASE Mark(t, b)
  <2>1. Writes(t, b, "mark")
    BY <1>1, <1>7, MarkDoes DEF Writes
  <2>. QED
    BY <1>1, <1>6, <1>7, <2>1, MarkDoes
<1>8. CASE Unmark(t, b)
  <2>1. Writes(t, b, "unmark")
    BY <1>1, <1>8, UnmarkDoes DEF Writes
  <2>. QED
    BY <1>1, <1>6, <1>8, <2>1, UnmarkDoes
<1>9. CASE TellUp(t, b)
  <2>1. Writes(t, b, "tell up")
    BY <1>1, <1>9, TellUpDoes DEF Writes
  <2>. QED
    BY <1>1, <1>6, <1>9, <2>1, TellUpDoes
<1>10. CASE TellDown(t, b)
  <2>1. Writes(t, b, "tell down")
    BY <1>1, <1>10, TellDownDoes DEF Writes
  <2>. QED
    BY <1>1, <1>6, <1>10, <2>1, TellDownDoes
<1>11. CASE Stopped(t, b)
  <2>1. Writes(t, b, "stopped")
    BY <1>1, <1>11, StoppedDoes DEF Writes
  <2>. QED
    BY <1>1, <1>6, <1>11, <2>1, StoppedDoes
<1>12. CASE PlainStep(t, b)
  <2>1. PICK x, new, f : Moves(t, x, new, f) /\ Plain(x, new, f)
    BY <1>1, <1>12, PlainDoes
  <2>2. Same(b, {}) /\ UNCHANGED << listed, of, late, cut, crossed >>
    BY <1>1, <1>12, PlainDoes
  <2>3. Leads(x, new, f)
    BY <2>1 DEF Leads, Plain, PlainSteps
  <2>4. Writes(t, b, x)
    BY <2>1, <2>2 DEF Writes, Plain, PlainSteps
  <2>5. Finds(t, b, x, new)
    BY <2>1, <2>2 DEF Finds, Plain, PlainSteps
  <2>. QED
    BY <2>1, <2>3, <2>4, <2>5
<1>13. CASE OnStep(t, b)
  <2>1. PICK x, new, f :
          /\ Moves(t, x, new, f) /\ new \in {{}, {"register"}} /\ (new # {} => f = "register")
          /\ \/ /\ x = "enable" /\ Same(b, {"enabled"}) /\ bridge'[b].enabled
                /\ new = {} <=> ~(bridge[b].discovery /\ ~bridge[b].flag /\ bridge[b].app = None)
             \/ /\ x = "listen" /\ Same(b, {"discovery"}) /\ bridge'[b].discovery
                /\ new = {} <=> ~(bridge[b].enabled /\ bridge[b].app = None)
    BY <1>1, <1>13, OnDoes
  <2>2. UNCHANGED << listed, of, late, cut, crossed >>
    BY <1>1, <1>13, OnDoes
  <2>3. Leads(x, new, f)
    BY <2>1 DEF Leads
  <2>4. Writes(t, b, x)
    BY <2>1, <2>2 DEF Writes
  <2>5. Finds(t, b, x, new)
    BY <2>1, <2>2 DEF Finds
  <2>. QED
    BY <2>1, <2>3, <2>4, <2>5
<1>14. CASE OffStep(t, b)
  <2>1. PICK x, new, f :
          /\ Moves(t, x, new, f) /\ new = {"unregister"} /\ f = "unregister"
          /\ \/ x = "disable" /\ Same(b, {"enabled"}) /\ ~bridge'[b].enabled
             \/ x = "unlisten" /\ Same(b, {"discovery"}) /\ ~bridge'[b].discovery
             \/ x = "stop" /\ Same(b, {"life"}) /\ bridge'[b].life = "stopping"
    BY <1>1, <1>14, OffDoes
  <2>2. /\ UNCHANGED << listed, of, late, crossed >>
        /\ cut' = {} => cut = {} /\ \A u \in Calls \cup {b} : of[u] = b => todo[u] = << >>
    BY <1>1, <1>14, OffDoes
  <2>3. Leads(x, new, f)
    BY <2>1 DEF Leads
  <2>4. Writes(t, b, x)
    BY <2>1, <2>2 DEF Writes
  <2>5. Finds(t, b, x, new)
    BY <2>1, <2>2 DEF Finds
  <2>. QED
    BY <2>1, <2>3, <2>4, <2>5
<1>15. CASE Close(t, b)
  <2>1. PICK new, f :
          /\ Moves(t, "close", new, f)
          /\ \/ bridge[b].app # None /\ new = {"down", "tell down", "unlock"} /\ f = "down"
             \/ bridge[b].app = None /\ new = {}
    BY <1>1, <1>15, CloseDoes
  <2>2. /\ Same(b, {"app"}) /\ bridge'[b].app = None
        /\ Told(b) /\ (\A c : c \notin late' => c \notin late)
        /\ UNCHANGED << listed, of, cut, crossed >>
    BY <1>1, <1>15, CloseDoes
  <2>3. Leads("close", new, f)
    BY <2>1 DEF Leads
  <2>4. Writes(t, b, "close")
    BY <2>2 DEF Writes
  <2>5. Finds(t, b, "close", new)
    BY <2>1, <2>2 DEF Finds
  <2>. QED
    BY <2>1, <2>3, <2>4, <2>5
<1>16. CASE Down(t, b) \/ Failed(t, b)
  <2>1. PICK x, new, f :
          /\ Moves(t, x, new, f) /\ new \in {{}, {"register"}} /\ (new # {} => f = "register")
          /\ \/ x = "down" /\ (new = {} <=> ~(bridge[b].enabled /\ bridge[b].discovery))
             \/ x = "failed" /\ (new = {} <=> ~bridge[b].enabled)
    BY <1>1, <1>16, AgainDoes DEF DownDoes, FailedDoes
  <2>2. Same(b, {}) /\ UNCHANGED << listed, of, late, cut, crossed >>
    BY <1>1, <1>16, AgainDoes
  <2>3. Leads(x, new, f)
    BY <2>1 DEF Leads
  <2>4. Writes(t, b, x)
    BY <2>1, <2>2 DEF Writes
  <2>5. Finds(t, b, x, new)
    BY <2>1, <2>2 DEF Finds
  <2>. QED
    BY <2>1, <2>3, <2>4, <2>5
<1>17. CASE Answer(t, b) \/ Connect(t)
  <2>1. PICK x, new, f :
          /\ Moves(t, x, new, f)
          /\ \/ /\ x = "answer" /\ bridge[b].enabled
                /\ new = {"unregister", "connect"} /\ f = "unregister"
             \/ x = "answer" /\ new = {}
             \/ x = "connect" /\ f \in {"install", "failed"} /\ new = {f}
    BY <1>1, <1>17, DialDoes
  <2>2. Same(b, {}) /\ UNCHANGED << listed, of, late, cut, crossed >>
    BY <1>1, <1>17, DialDoes
  <2>3. Leads(x, new, f)
    BY <2>1 DEF Leads
  <2>4. Writes(t, b, x)
    BY <2>1, <2>2 DEF Writes
  <2>5. Finds(t, b, x, new)
    BY <2>1, <2>2 DEF Finds
  <2>. QED
    BY <2>1, <2>3, <2>4, <2>5
<1>18. CASE Install(t, b)
  <2>1. t \in Calls
    <3>1. At(t, "install") /\ Holds(t, "install")
      <4>1. At(t, "install")
        BY <1>18 DEF Install
      <4>2. todo[t] \in Seq(Steps)
        BY DEF Typed
      <4>. QED
        BY <4>1, <4>2 DEF At, Holds
    <3>2. "install" \in StepsOf(t)
      BY <3>1 DEF Ways
    <3>. QED
      BY <3>2 DEF StepsOf, AdminSteps, BridgeSteps, Reg, Unreg
  <2>2. /\ Moves(t, "install", {"unregister", "tell up"}, "unregister")
        /\ ~AppLocked(b)
        /\ Same(b, {"app"}) /\ bridge'[b].app = t
        /\ b \notin late' => todo[b] = << >>
        /\ \A c : c \notin late' => c \notin late
        /\ UNCHANGED << listed, of, cut, crossed >>
    BY <1>1, <1>18, <2>1, InstallDoes
  <2>3. Leads("install", {"unregister", "tell up"}, "unregister")
    BY DEF Leads
  <2>4. Writes(t, b, "install")
    BY <2>2 DEF Writes
  <2>5. Finds(t, b, "install", {"unregister", "tell up"})
    BY <2>2 DEF Finds
  <2>. QED
    BY <2>2, <2>3, <2>4, <2>5
<1>. QED
  BY <1>2, <1>3, <1>4, <1>5, <1>7, <1>8, <1>9, <1>10, <1>11, <1>12, <1>13, <1>14,
     <1>15, <1>16, <1>17, <1>18 DEF Step, PlainStep, OnStep, OffStep

-----------------------------------------------------------------------------
(* A thread that is given its first steps.                                   *)

\* The idle thread t takes on the steps of S, with f first.
Takes(t, S, f) ==
  /\ todo[t] = << >> /\ Lists' /\ f \in S
  /\ \A u \in Threads \ {t} : todo'[u] = todo[u]
  /\ \A z : Holds(t, z)' <=> z \in S
  /\ \A z : At(t, z)' <=> z = f

LEMMA Take ==
  ASSUME Lists, NEW t \in Threads, todo[t] = << >>, NEW s \in Seq(Steps), s # << >>,
         Ordered(s), todo' = [todo EXCEPT ![t] = s]
  PROVE  Takes(t, Elements(s), s[1])
<1>1. todo'[t] = s /\ \A u \in Threads \ {t} : todo'[u] = todo[u]
  BY DEF Lists
<1>2. Lists'
  <2>1. todo' \in [Threads -> Seq(Steps)]
    BY DEF Lists
  <2>. QED
    BY <1>1, <2>1 DEF Lists
<1>3. 1 \in 1 .. Len(s)
  OBVIOUS
<1>4. s[1] \in Elements(s)
  BY <1>3 DEF Elements
<1>5. \A z : Holds(t, z)' <=> z \in Elements(s)
  BY <1>1 DEF Holds, Elements
<1>6. \A z : At(t, z)' <=> z = s[1]
  BY <1>1 DEF At
<1>. QED
  BY <1>1, <1>2, <1>4, <1>5, <1>6 DEF Takes

\* A task: to stop is to unlisten first and to close and be stopped at the end.
Task(S, f) ==
  /\ S \subseteq AdminSteps \ {"tell down", "unlock"}
  /\ f \in {"want", "refuse", "announce", "retract", "unlisten"}
  /\ "stop" \in S => "unlisten" \in S
  /\ "stop" \in S <=> "close" \in S
  /\ "stop" \in S <=> "stopped" \in S

LEMMA ProgramIsTask ==
  ASSUME NEW task \in Tasks
  PROVE  LET s == Program(task) IN
         s \in Seq(Steps) /\ s # << >> /\ Ordered(s) /\ Task(Elements(s), s[1])
<1>1. CASE task = "enable"
  <2>. DEFINE s == <<"want", "enable", "announce", "note on">>
  <2>1. Program(task) = s
    BY <1>1 DEF Program
  <2>2. s \in Seq(Steps) /\ s # << >> /\ Len(s) = 4 /\ s[1] = "want" /\ s[2] = "enable"
        /\ s[3] = "announce" /\ s[4] = "note on"
    BY DEF Steps, AdminSteps
  <2>. HIDE DEF s
  <2>3. 1 .. Len(s) = {1, 2, 3, 4}
    <3>1. Len(s) = 4
      BY <2>2
    <3>. QED
      BY <3>1
  <2>4. Elements(s) = {"want", "enable", "announce", "note on"}
    BY <2>2, <2>3 DEF Elements
  <2>5. Ordered(s)
    <3>1. /\ "enable" \in Behind("want") /\ "announce" \in Behind("want")
          /\ "note on" \in Behind("want") /\ "announce" \in Behind("enable")
          /\ "note on" \in Behind("enable") /\ "note on" \in Behind("announce")
      BY DEF Behind, Reg, Unreg
    <3>3. s[1] = "want" /\ s[2] = "enable" /\ s[3] = "announce" /\ s[4] = "note on"
      BY <2>2
    <3>2. \A i, j \in {1, 2, 3, 4} : i < j => s[j] \in Behind(s[i])
      <4>. SUFFICES ASSUME NEW i \in {1, 2, 3, 4}, NEW j \in {1, 2, 3, 4}, i < j
                    PROVE  s[j] \in Behind(s[i])
        OBVIOUS
      <4>1. \/ (i = 1 /\ j = 2) \/ (i = 1 /\ j = 3) \/ (i = 1 /\ j = 4)
            \/ (i = 2 /\ j = 3) \/ (i = 2 /\ j = 4) \/ (i = 3 /\ j = 4)
        OBVIOUS
      <4>. QED
        BY <4>1, <3>1, <3>3
    <3>. QED
      BY <2>3, <3>2 DEF Ordered
  <2>6. Task(Elements(s), s[1])
    BY <2>2, <2>4 DEF Task, AdminSteps
  <2>. QED
    BY <2>1, <2>2, <2>5, <2>6
<1>2. CASE task = "disable"
  <2>. DEFINE s == <<"refuse", "disable", "unlisten", "withdraw", "note off">>
  <2>1. Program(task) = s
    BY <1>2 DEF Program
  <2>2. s \in Seq(Steps) /\ s # << >> /\ Len(s) = 5 /\ s[1] = "refuse" /\ s[2] = "disable"
        /\ s[3] = "unlisten" /\ s[4] = "withdraw" /\ s[5] = "note off"
    BY DEF Steps, AdminSteps
  <2>. HIDE DEF s
  <2>3. 1 .. Len(s) = {1, 2, 3, 4, 5}
    <3>1. Len(s) = 5
      BY <2>2
    <3>. QED
      BY <3>1
  <2>4. Elements(s) = {"refuse", "disable", "unlisten", "withdraw", "note off"}
    BY <2>2, <2>3 DEF Elements
  <2>5. Ordered(s)
    <3>1. /\ "disable" \in Behind("refuse") /\ "unlisten" \in Behind("refuse")
          /\ "withdraw" \in Behind("refuse") /\ "note off" \in Behind("refuse")
          /\ "unlisten" \in Behind("disable") /\ "withdraw" \in Behind("disable")
          /\ "note off" \in Behind("disable") /\ "withdraw" \in Behind("unlisten")
          /\ "note off" \in Behind("unlisten") /\ "note off" \in Behind("withdraw")
      BY DEF Behind, Reg, Unreg
    <3>3. s[1] = "refuse" /\ s[2] = "disable" /\ s[3] = "unlisten" /\ s[4] = "withdraw" /\ s[5] = "note off"
      BY <2>2
    <3>2. \A i, j \in {1, 2, 3, 4, 5} : i < j => s[j] \in Behind(s[i])
      <4>. SUFFICES ASSUME NEW i \in {1, 2, 3, 4, 5}, NEW j \in {1, 2, 3, 4, 5}, i < j
                    PROVE  s[j] \in Behind(s[i])
        OBVIOUS
      <4>1. \/ (i = 1 /\ j = 2) \/ (i = 1 /\ j = 3) \/ (i = 1 /\ j = 4)
            \/ (i = 1 /\ j = 5) \/ (i = 2 /\ j = 3) \/ (i = 2 /\ j = 4)
            \/ (i = 2 /\ j = 5) \/ (i = 3 /\ j = 4) \/ (i = 3 /\ j = 5)
            \/ i = 4 /\ j = 5
        OBVIOUS
      <4>. QED
        BY <4>1, <3>1, <3>3
    <3>. QED
      BY <2>3, <3>2 DEF Ordered
  <2>6. Task(Elements(s), s[1])
    BY <2>2, <2>4 DEF Task, AdminSteps
  <2>. QED
    BY <2>1, <2>2, <2>5, <2>6
<1>3. CASE task = "banner"
  <2>. DEFINE s == <<"announce">>
  <2>1. Program(task) = s
    BY <1>3 DEF Program
  <2>2. s \in Seq(Steps) /\ s # << >> /\ Len(s) = 1 /\ s[1] = "announce"
    BY DEF Steps, AdminSteps
  <2>. HIDE DEF s
  <2>3. Elements(s) = {"announce"} /\ Ordered(s)
    BY <2>2 DEF Elements, Ordered
  <2>4. Task(Elements(s), s[1])
    BY <2>2, <2>3 DEF Task, AdminSteps
  <2>. QED
    BY <2>1, <2>2, <2>3, <2>4
<1>4. CASE task = "rename"
  <2>. DEFINE s == <<"retract", "announce">>
  <2>1. Program(task) = s
    BY <1>4 DEF Program
  <2>2. s \in Seq(Steps) /\ s # << >> /\ Len(s) = 2 /\ s[1] = "retract" /\ s[2] = "announce"
    BY DEF Steps, AdminSteps
  <2>. HIDE DEF s
  <2>3. 1 .. Len(s) = {1, 2}
    <3>1. Len(s) = 2
      BY <2>2
    <3>. QED
      BY <3>1
  <2>4. Elements(s) = {"retract", "announce"}
    BY <2>2, <2>3 DEF Elements
  <2>5. Ordered(s)
    <3>1. /\ "announce" \in Behind("retract")
      BY DEF Behind, Reg, Unreg
    <3>2. \A i, j \in {1, 2} : i < j => s[j] \in Behind(s[i])
      BY <2>2, <3>1
    <3>. QED
      BY <2>3, <3>2 DEF Ordered
  <2>6. Task(Elements(s), s[1])
    BY <2>2, <2>4 DEF Task, AdminSteps
  <2>. QED
    BY <2>1, <2>2, <2>5, <2>6
<1>5. CASE task = "stop"
  <2>. DEFINE s == <<"unlisten", "withdraw", "stop", "close", "stopped">>
  <2>1. Program(task) = s
    BY <1>5 DEF Program
  <2>2. s \in Seq(Steps) /\ s # << >> /\ Len(s) = 5 /\ s[1] = "unlisten" /\ s[2] = "withdraw"
        /\ s[3] = "stop" /\ s[4] = "close" /\ s[5] = "stopped"
    BY DEF Steps, AdminSteps
  <2>. HIDE DEF s
  <2>3. 1 .. Len(s) = {1, 2, 3, 4, 5}
    <3>1. Len(s) = 5
      BY <2>2
    <3>. QED
      BY <3>1
  <2>4. Elements(s) = {"unlisten", "withdraw", "stop", "close", "stopped"}
    BY <2>2, <2>3 DEF Elements
  <2>5. Ordered(s)
    <3>1. /\ "withdraw" \in Behind("unlisten") /\ "stop" \in Behind("unlisten")
          /\ "close" \in Behind("unlisten") /\ "stopped" \in Behind("unlisten")
          /\ "stop" \in Behind("withdraw") /\ "close" \in Behind("withdraw")
          /\ "stopped" \in Behind("withdraw") /\ "close" \in Behind("stop")
          /\ "stopped" \in Behind("stop") /\ "stopped" \in Behind("close")
      BY DEF Behind, Reg, Unreg
    <3>2. \A i, j \in {1, 2, 3, 4, 5} : i < j => s[j] \in Behind(s[i])
      BY <2>2, <3>1
    <3>. QED
      BY <2>3, <3>2 DEF Ordered
  <2>6. Task(Elements(s), s[1])
    BY <2>2, <2>4 DEF Task, AdminSteps
  <2>. QED
    BY <2>1, <2>2, <2>5, <2>6
<1>. QED
  BY <1>1, <1>2, <1>3, <1>4, <1>5 DEF Tasks

LEMMA AskDoes ==
  ASSUME Typed, Ways, NEW a \in Admins, NEW b \in Bridges, NEW task \in Tasks,
         Ask(a, b, task)
  PROVE  /\ \E S, f : Takes(a, S, f) /\ Task(S, f)
         /\ of' = [of EXCEPT ![a] = b] /\ bridge[b].life = "up"
         /\ crossed' = {} => crossed = {} /\ \A e \in Admins : todo[e] = << >>
         /\ UNCHANGED << bridge, listed, late, cut >>
<1>1. Lists /\ a \in Threads
  BY DEF Typed, Ways, Lists, Threads
<1>2. Takes(a, Elements(Program(task)), Program(task)[1])
  BY <1>1, Take, ProgramIsTask DEF Ask
<1>. QED
  BY <1>2, ProgramIsTask DEF Ask

LEMMA CallMeDoes ==
  ASSUME Typed, Ways, NEW c \in Calls, CallMe(c)
  PROVE  /\ Takes(c, {"answer"}, "answer")
         /\ listed \in Bridges /\ of' = [of EXCEPT ![c] = listed]
         /\ cut' = {} => cut = {} /\ bridge[listed].discovery
         /\ UNCHANGED << bridge, listed, late, crossed >>
<1>1. Lists /\ c \in Threads
  BY DEF Typed, Ways, Lists, Threads
<1>2. todo[c] = << >>
  BY <1>1, ThreadsAreDistinct DEF CallMe, Typed
<1>. DEFINE s == <<"answer">>
<1>3. s \in Seq(Steps) /\ s # << >> /\ Len(s) = 1 /\ s[1] = "answer"
  BY DEF Steps, CallSteps
<1>4. todo' = [todo EXCEPT ![c] = s]
  BY DEF CallMe
<1>. HIDE DEF s
<1>5. Elements(s) = {"answer"} /\ Ordered(s)
  BY <1>3 DEF Elements, Ordered
<1>6. Takes(c, Elements(s), s[1])
  BY <1>1, <1>2, <1>3, <1>4, <1>5, Take
<1>. QED
  BY <1>3, <1>5, <1>6 DEF CallMe, Typed

LEMMA EndOfFileDoes ==
  ASSUME Typed, Ways, NEW b \in Bridges, EndOfFile(b)
  PROVE  /\ Takes(b, {"down", "tell down"}, "down")
         /\ Same(b, {"app"}) /\ bridge'[b].app = None
         /\ Told(b) /\ (\A c : c \notin late' => c \notin late)
         /\ UNCHANGED << listed, of, cut, crossed >>
<1>1. Lists /\ b \in Threads
  BY DEF Typed, Ways, Lists, Threads
<1>. DEFINE s == <<"down", "tell down">>
<1>2. s \in Seq(Steps) /\ s # << >> /\ Len(s) = 2 /\ s[1] = "down" /\ s[2] = "tell down"
  BY DEF Steps, BridgeSteps
<1>3. todo[b] = << >> /\ todo' = [todo EXCEPT ![b] = s]
  BY DEF EndOfFile
<1>. HIDE DEF s
<1>4. 1 .. Len(s) = {1, 2}
  <2>1. Len(s) = 2
    BY <1>2
  <2>. QED
    BY <2>1
<1>5. Elements(s) = {"down", "tell down"}
  BY <1>2, <1>4 DEF Elements
<1>6. Ordered(s)
  <2>1. "tell down" \in Behind("down")
    BY DEF Behind, Reg, Unreg
  <2>3. s[1] = "down" /\ s[2] = "tell down"
    BY <1>2
  <2>2. \A i, j \in {1, 2} : i < j => s[j] \in Behind(s[i])
    <3>. SUFFICES ASSUME NEW i \in {1, 2}, NEW j \in {1, 2}, i < j
                  PROVE  s[j] \in Behind(s[i])
      OBVIOUS
    <3>1. \/ i = 1 /\ j = 2
      OBVIOUS
    <3>. QED
      BY <3>1, <2>1, <2>3
  <2>. QED
    BY <1>4, <2>2 DEF Ordered
<1>7. Takes(b, Elements(s), s[1])
  BY <1>1, <1>2, <1>3, <1>6, Take
<1>8. /\ Told(b) /\ (\A c : c \notin late' => c \notin late)
      /\ UNCHANGED << listed, of, cut, crossed >>
  BY EndsTold DEF EndOfFile
<1>9. Same(b, {"app"}) /\ bridge'[b].app = None
  BY OneField DEF EndOfFile, SessionEnds
<1>. QED
  BY <1>2, <1>5, <1>7, <1>8, <1>9

\* The actions that start a bridge, read its socket, or let the app go.
LEMMA OthersDo ==
  ASSUME Typed, NEW b \in Bridges,
         Start(b) \/ Sample(b) \/ \E c \in Calls : AppLeaves(c)
  PROVE  /\ \/ Same(b, {})
            \/ /\ Same(b, {"life"}) /\ bridge[b].life = "new" /\ bridge'[b].life = "up"
               /\ \A d \in Bridges : d < b => bridge[d].life = "stopped"
         /\ UNCHANGED << todo, listed, of, late, cut, crossed >>
<1>1. CASE Start(b)
  <2>. DEFINE s == bridge[b]
              n == [s EXCEPT !.life = "up", !.wanted = setting]
  <2>1. s \in BridgeState /\ setting \in BOOLEAN
    BY DEF Typed
  <2>2. n \in BridgeState /\ n.life = "up"
        /\ n.enabled = s.enabled /\ n.discovery = s.discovery /\ n.flag = s.flag
        /\ n.app = s.app /\ n.told = s.told
    BY <2>1 DEF BridgeState
  <2>. HIDE DEF n
  <2>3. bridge' = [bridge EXCEPT ![b] = n]
    BY <1>1 DEF Start, n
  <2>4. Same(b, {"life"}) /\ bridge'[b].life = "up"
    BY <2>2, <2>3, Touched DEF Same
  <2>. QED
    BY <1>1, <2>4 DEF Start, others, base
<1>2. CASE Sample(b)
  <2>1. bridge[b].app \in Calls \cup {None}
    BY DEF Typed, BridgeState
  <2>. QED
    BY <1>2, <2>1, OneField DEF Sample, others, base
<1>3. CASE \E c \in Calls : AppLeaves(c)
  BY <1>3, NoneTouched DEF AppLeaves, others, base
<1>. QED
  BY <1>1, <1>2, <1>3

-----------------------------------------------------------------------------
(* What a step leaves of the lists.                                          *)

\* No list has these steps but at its head.
LEMMA NeverBehind ==
  ASSUME NEW x,
         NEW z \in Reg \cup Unreg \cup
           {"answer", "install", "failed", "mdns", "listen", "down", "retract", "want",
            "refuse"}
  PROVE  z \notin Behind(x)
<1>1. z \notin {"enable", "announce", "note on", "disable", "unlisten", "withdraw", "note off",
                "stop", "close", "stopped", "tell down", "unlock", "connect", "tell up"}
  BY DEF Reg, Unreg
<1>2. Behind(x) \subseteq
        {"enable", "announce", "note on", "disable", "unlisten", "withdraw", "note off",
         "stop", "close", "stopped", "tell down", "unlock", "connect", "tell up"}
  BY DEF Behind
<1>. QED
  BY <1>1, <1>2

\* What step x of thread t, with the steps new in its place, leaves.
Turn(t, x, new, f) ==
  /\ At(t, x) /\ Holds(t, x) /\ todo[t] # << >>
  /\ \A y : At(t, y) => y = x
  /\ \A z : Holds(t, z) => z = x \/ z \in Behind(x)
  /\ \A u \in Threads \ {t} : todo'[u] = todo[u]
  /\ \A u \in Threads \ {t} : \A z : (At(u, z)' <=> At(u, z)) /\ (Holds(u, z)' <=> Holds(u, z))
  /\ \A z : Holds(t, z)' => z \in new \/ (Holds(t, z) /\ z \in Behind(x))
  /\ \A z \in new : Holds(t, z)'
  /\ \A z : Holds(t, z) /\ z # x => Holds(t, z)'
  /\ \A z, y : At(t, z)' /\ At(t, y)' => z = y
  /\ \A z : At(t, z)' => Holds(t, z)'
  /\ new # {} => At(t, f)'
  /\ todo'[t] # << >> => \E z : At(t, z)'

LEMMA MovesTurn ==
  ASSUME Lists, NEW t \in Threads, NEW x, NEW new, NEW f, Moves(t, x, new, f)
  PROVE  Turn(t, x, new, f)
<1>1. todo[t] \in Seq(Steps) /\ todo[t] # << >> /\ x = todo[t][1] /\ Ordered(todo[t])
  BY DEF Lists, Moves, At
<1>2. 1 \in 1 .. Len(todo[t])
  BY <1>1
<1>3. At(t, x) /\ Holds(t, x) /\ \A y : At(t, y) => y = x
  BY <1>1, <1>2 DEF At, Holds
<1>4. ASSUME NEW z, Holds(t, z) PROVE z = x \/ z \in Behind(x)
  <2>1. PICK i \in 1 .. Len(todo[t]) : todo[t][i] = z
    BY <1>4 DEF Holds
  <2>2. i = 1 \/ 1 < i
    BY <1>1
  <2>. QED
    BY <1>1, <1>2, <2>1, <2>2 DEF Ordered
<1>5. \A u \in Threads \ {t} : todo'[u] = todo[u]
  BY DEF Moves, Advance
<1>6. \A u \in Threads \ {t} : \A z : (At(u, z)' <=> At(u, z)) /\ (Holds(u, z)' <=> Holds(u, z))
  BY <1>5 DEF At, Holds
<1>. QED
  BY <1>1, <1>3, <1>4, <1>5, <1>6 DEF Turn, Moves, Advance

\* The same of a thread that takes on its first steps.
LEMMA TakesTurn ==
  ASSUME Lists, NEW t \in Threads, NEW S, NEW f, Takes(t, S, f)
  PROVE  /\ \A z : ~At(t, z) /\ ~Holds(t, z)
         /\ \A u \in Threads \ {t} : todo'[u] = todo[u]
         /\ \A u \in Threads \ {t} : \A z : (At(u, z)' <=> At(u, z)) /\ (Holds(u, z)' <=> Holds(u, z))
         /\ todo'[t] # << >>
<1>1. \A z : ~At(t, z) /\ ~Holds(t, z)
  BY DEF Takes, At, Holds
<1>2. \A u \in Threads \ {t} : todo'[u] = todo[u]
  BY DEF Takes
<1>3. \A u \in Threads \ {t} : \A z : (At(u, z)' <=> At(u, z)) /\ (Holds(u, z)' <=> Holds(u, z))
  BY <1>2 DEF At, Holds
<1>4. At(t, f)'
  BY DEF Takes
<1>5. todo'[t] # << >>
  BY <1>4 DEF At
<1>. QED
  BY <1>1, <1>2, <1>3, <1>5

\* Nothing at the head, nothing in the list; and what is held is behind or at it.
LEMMA Idle ==
  ASSUME Lists, NEW t \in Threads, NEW z
  PROVE  /\ Holds(t, z) => todo[t] # << >>
         /\ At(t, z) => Holds(t, z) /\ todo[t] # << >>
         /\ \A x : At(t, x) /\ Holds(t, z) => z = x \/ z \in Behind(x)
         /\ \A x : At(t, x) /\ At(t, z) => x = z
         /\ todo[t] # << >> => \E x : At(t, x)
<1>1. todo[t] \in Seq(Steps) /\ Ordered(todo[t])
  BY DEF Lists
<1>2. ASSUME NEW x, At(t, x), Holds(t, z) PROVE z = x \/ z \in Behind(x)
  <2>1. PICK i \in 1 .. Len(todo[t]) : todo[t][i] = z
    BY <1>2 DEF Holds
  <2>2. (i = 1 \/ 1 < i) /\ 1 \in 1 .. Len(todo[t]) /\ x = todo[t][1]
    BY <1>1, <1>2 DEF At
  <2>. QED
    BY <1>1, <2>1, <2>2 DEF Ordered
<1>3. At(t, z) => Holds(t, z) /\ todo[t] # << >>
  BY <1>1 DEF At, Holds
<1>4. Holds(t, z) => todo[t] # << >>
  BY <1>1 DEF Holds
<1>5. todo[t] # << >> => \E x : At(t, x)
  BY DEF At
<1>6. \A x : At(t, x) /\ At(t, z) => x = z
  BY DEF At
<1>. QED
  BY <1>2, <1>3, <1>4, <1>5, <1>6

-----------------------------------------------------------------------------
(* Types and lists.                                                          *)

LEMMA SettingTyped == ASSUME Typed, Next PROVE setting' \in BOOLEAN
<1>. USE DEF Typed, base, others
<1>1. ASSUME NEW a \in Admins, NEW b \in Bridges, NEW task \in Tasks, Ask(a, b, task)
      PROVE  setting' \in BOOLEAN
  BY <1>1 DEF Ask
<1>2. ASSUME NEW b \in Bridges, Start(b) \/ Sample(b) \/ EndOfFile(b)
      PROVE  setting' \in BOOLEAN
  BY <1>2 DEF Start, Sample, EndOfFile, SessionEnds
<1>3. ASSUME NEW c \in Calls, CallMe(c) \/ AppLeaves(c)
      PROVE  setting' \in BOOLEAN
  BY <1>3 DEF CallMe, AppLeaves
<1>4. ASSUME NEW t \in Threads, NEW b \in Bridges, Step(t, b)
      PROVE  setting' \in BOOLEAN
  <2>1. CASE Note(t, "note on", TRUE) \/ Note(t, "note off", FALSE)
    BY <2>1 DEF Note
  <2>2. CASE Close(t, b) \/ Install(t, b)
    BY <2>2 DEF Close, Install, SessionEnds
  <2>3. CASE Disable(t, b) \/ Unlisten(t, b) \/ Stop(t, b)
    BY <2>3 DEF Disable, Unlisten, Stop, SwitchOff
  <2>4. CASE \/ Mark(t, b) \/ Unmark(t, b) \/ Want(t, b) \/ Refuse(t, b) \/ Withdraw(t, b)
             \/ Stopped(t, b) \/ TellUp(t, b) \/ TellDown(t, b)
    BY <2>4 DEF Mark, Unmark, Want, Refuse, Withdraw, Stopped, TellUp, TellDown, Set
  <2>5. CASE \/ Register(t, b) \/ Unregister(t, b) \/ List(t, b) \/ Unlist(t)
             \/ Enable(t, b) \/ Retract(t, b) \/ Announce(t, b) \/ Mdns(t, b)
             \/ Listen(t, b) \/ Unlock(t) \/ Down(t, b) \/ Answer(t, b) \/ Connect(t)
             \/ Failed(t, b)
    BY <2>5 DEF Register, Unregister, List, Unlist, Enable, Retract, Announce, Mdns,
                Listen, Unlock, Down, Answer, Connect, Failed
  <2>. QED
    BY <1>4, <2>1, <2>2, <2>3, <2>4, <2>5 DEF Step
<1>. QED
  BY <1>1, <1>2, <1>3, <1>4 DEF Next

LEMMA StepTyped ==
  ASSUME Typed, Lists, NEW t \in Threads, NEW b \in Bridges, of[t] = b, setting' \in BOOLEAN,
         NEW x, NEW new, NEW f, Does(t, b, x, new, f)
  PROVE  Typed'
<1>1. bridge' \in [Bridges -> BridgeState] /\ of' = of /\ listed' \in Bridges \cup {None}
  BY DEF Does, Writes, Typed
<1>2. Turn(t, x, new, f) /\ Lists'
  BY MovesTurn DEF Does, Moves
<1>3. \A u \in Threads : todo'[u] # << >> => of'[u] \in Bridges
  BY <1>1, <1>2 DEF Turn, Typed
<1>. QED
  BY <1>1, <1>2, <1>3 DEF Typed, Lists

\* A step writes only what its thread may write.
LEMMA LeadsInKind ==
  ASSUME NEW t \in Threads, NEW x \in StepsOf(t), NEW new, NEW f, Leads(x, new, f)
  PROVE  new \subseteq StepsOf(t)
<1>1. CASE t \in Calls
  <2>1. x \in CallSteps /\ StepsOf(t) = CallSteps
    BY <1>1 DEF StepsOf
  <2>2. new \subseteq CallSteps
    BY <2>1 DEF Leads, CallSteps, Reg, Unreg
  <2>. QED
    BY <2>1, <2>2
<1>2. CASE t \notin Calls /\ t \in Bridges
  <2>1. x \in BridgeSteps /\ StepsOf(t) = BridgeSteps
    BY <1>2 DEF StepsOf
  <2>2. new \subseteq BridgeSteps
    BY <2>1 DEF Leads, BridgeSteps, Reg
  <2>. QED
    BY <2>1, <2>2
<1>3. CASE t \notin Calls /\ t \notin Bridges
  <2>1. x \in AdminSteps /\ StepsOf(t) = AdminSteps
    BY <1>3 DEF StepsOf
  <2>2. new \subseteq AdminSteps
    BY <2>1 DEF Leads, AdminSteps, Reg, Unreg
  <2>. QED
    BY <2>1, <2>2
<1>. QED
  BY <1>1, <1>2, <1>3

LEMMA LeadsAdds ==
  ASSUME NEW x, NEW new, NEW f, Leads(x, new, f)
  PROVE  /\ "stop" \notin new /\ "close" \notin new /\ "stopped" \notin new
         /\ "tell down" \in new => x = "close" /\ "unlock" \in new
         /\ "unlock" \in new => x = "close"
         /\ "tell up" \in new => x = "install"
         /\ x = "install" => "tell up" \in new
         /\ x = "close" /\ new # {} => "tell down" \in new /\ "unlock" \in new
         /\ new # {} => f \in new
BY DEF Leads

\* Which threads have which steps.
LEMMA WhoHas ==
  ASSUME Ways, NEW t \in Threads, NEW z, Holds(t, z)
  PROVE  /\ z \in StepsOf(t)
         /\ t \in Calls => z \in CallSteps
         /\ t \in Bridges => z \in BridgeSteps
         /\ z \in AdminSteps \ (CallSteps \cup BridgeSteps) => t \in Admins
         /\ z \in {"answer", "connect", "install", "failed", "tell up"} => t \in Calls
<1>1. z \in StepsOf(t)
  BY DEF Ways
<1>2. t \in Bridges => t \notin Calls
  BY ThreadsAreDistinct
<1>3. t \in Calls => z \in CallSteps
  BY <1>1 DEF StepsOf
<1>4. t \in Bridges => z \in BridgeSteps
  BY <1>1, <1>2 DEF StepsOf
<1>5. z \in AdminSteps \ (CallSteps \cup BridgeSteps) => t \in Admins
  BY <1>3, <1>4 DEF Threads
<1>6. z \in {"answer", "connect", "install", "failed", "tell up"} => t \in Calls
  <2>1. z \in {"answer", "connect", "install", "failed", "tell up"} =>
          z \notin AdminSteps /\ z \notin BridgeSteps
    BY DEF AdminSteps, BridgeSteps, Reg, Unreg
  <2>. QED
    BY <1>1, <2>1 DEF StepsOf
<1>. QED
  BY <1>1, <1>3, <1>4, <1>5, <1>6

LEMMA StepWays ==
  ASSUME Typed, Ways, NEW t \in Threads, NEW b \in Bridges, of[t] = b,
         NEW x, NEW new, NEW f, Does(t, b, x, new, f)
  PROVE  Ways'
<1>1. Lists
  BY DEF Typed, Ways, Lists
<1>2. Turn(t, x, new, f) /\ Lists' /\ Leads(x, new, f) /\ of' = of
  BY <1>1, MovesTurn DEF Does, Moves, Writes
<1>3. ASSUME NEW u \in Threads, NEW z, Holds(u, z)'
      PROVE  z \in StepsOf(u)
  <2>1. CASE u # t
    BY <1>2, <1>3, <2>1 DEF Turn, Ways
  <2>2. CASE u = t /\ z \in new
    <3>1. x \in StepsOf(t)
      BY <1>2 DEF Turn, Ways
    <3>. QED
      BY <1>2, <2>2, <3>1, LeadsInKind
  <2>3. CASE u = t /\ z \notin new
    BY <1>2, <1>3, <2>3 DEF Turn, Ways
  <2>. QED
    BY <2>1, <2>2, <2>3
<1>4. ASSUME NEW c \in Bridges, bridge[c].life \in {"stopping", "stopped"}
      PROVE  bridge'[c].life \in {"stopping", "stopped"}
  BY <1>4 DEF Does, Writes
<1>5. ASSUME NEW a \in Admins
      PROVE  /\ Holds(a, "tell down")' => Holds(a, "unlock")'
             /\ Holds(a, "stop")' => Holds(a, "close")'
             /\ Holds(a, "close")' => Holds(a, "stopped")'
             /\ Holds(a, "stopped")' =>
                  Holds(a, "stop")' \/ bridge'[of[a]].life \in {"stopping", "stopped"}
  <2>1. a \in Threads
    BY DEF Threads
  <2>2. /\ Holds(a, "tell down") => Holds(a, "unlock")
        /\ Holds(a, "stop") => Holds(a, "close")
        /\ Holds(a, "close") => Holds(a, "stopped")
        /\ Holds(a, "stopped") =>
             Holds(a, "stop") \/ bridge[of[a]].life \in {"stopping", "stopped"}
    BY DEF Ways
  <2>3. Holds(a, "stopped") => of[a] \in Bridges
    <3>1. Holds(a, "stopped") => todo[a] # << >>
      BY <1>1, <2>1, Idle
    <3>. QED
      BY <2>1, <3>1 DEF Typed
  <2>4. CASE a # t
    BY <1>2, <1>4, <2>1, <2>2, <2>3, <2>4 DEF Turn
  <2>5. CASE a = t
    <3>1. /\ "stop" \notin new /\ "close" \notin new /\ "stopped" \notin new
          /\ "tell down" \in new => "unlock" \in new
      BY <1>2, LeadsAdds
    <3>2. /\ \A z \in new : Holds(a, z)'
          /\ \A z : Holds(a, z) /\ z # x => Holds(a, z)'
          /\ \A z : Holds(a, z)' => z \in new \/ (Holds(a, z) /\ z \in Behind(x))
      BY <1>2, <2>5 DEF Turn
    <3>3. /\ "tell down" \notin Behind("unlock") /\ "stop" \notin Behind("close")
          /\ "close" \notin Behind("stopped")
      BY DEF Behind, Reg, Unreg
    <3>4. Holds(a, "tell down")' => Holds(a, "unlock")'
      BY <2>2, <3>1, <3>2, <3>3
    <3>5. Holds(a, "stop")' => Holds(a, "close")'
      BY <2>2, <3>1, <3>2, <3>3
    <3>6. Holds(a, "close")' => Holds(a, "stopped")'
      BY <2>2, <3>1, <3>2, <3>3
    <3>7. ASSUME Holds(a, "stopped")', ~Holds(a, "stop")'
          PROVE  bridge'[of[a]].life \in {"stopping", "stopped"}
      <4>1. Holds(a, "stopped")
        BY <3>1, <3>2, <3>7
      <4>2. CASE Holds(a, "stop")
        <5>1. x = "stop"
          BY <3>2, <3>7, <4>2
        <5>. QED
          BY <2>5, <5>1 DEF Does, Writes
      <4>3. CASE ~Holds(a, "stop")
        BY <1>4, <2>2, <2>3, <4>1, <4>3
      <4>. QED
        BY <4>2, <4>3
    <3>. QED
      BY <3>4, <3>5, <3>6, <3>7
  <2>. QED
    BY <2>4, <2>5
<1>6. ASSUME NEW c \in Calls, NEW z \in Unreg, At(c, z)'
      PROVE  Holds(c, "connect")' \/ Holds(c, "tell up")'
  <2>1. c \in Threads
    BY DEF Threads
  <2>2. CASE c # t
    BY <1>2, <1>6, <2>1, <2>2 DEF Turn, Ways
  <2>3. CASE c = t
    <3>1. new # {} /\ z = f
      <4>1. z \in new \/ z \in Behind(x)
        BY <1>2, <1>6, <2>3 DEF Turn
      <4>2. z \notin Behind(x)
        BY NeverBehind
      <4>. QED
        BY <1>2, <1>6, <2>3, <4>1, <4>2 DEF Turn
    <3>2. \/ x \in {"disable", "unlisten", "stop"}
          \/ x \in {"unregister", "unlist"}
          \/ x = "answer" /\ "connect" \in new
          \/ x = "install" /\ "tell up" \in new
      BY <1>2, <3>1 DEF Leads, Unreg
    <3>3. x \in CallSteps
      BY <1>2, <2>1, <2>3, WhoHas DEF Turn
    <3>4. x \notin {"disable", "unlisten", "stop"}
      BY <3>3 DEF CallSteps, Reg, Unreg
    <3>5. CASE x \in {"unregister", "unlist"}
      <4>1. Holds(c, "connect") \/ Holds(c, "tell up")
        <5>1. x \in Unreg /\ At(c, x)
          BY <1>2, <2>3, <3>5 DEF Unreg, Turn
        <5>. QED
          BY <5>1 DEF Ways
      <4>. QED
        BY <1>2, <2>3, <3>5, <4>1 DEF Turn
    <3>. QED
      BY <1>2, <2>3, <3>2, <3>4, <3>5 DEF Turn
  <2>. QED
    BY <2>2, <2>3
<1>7. \A u \in Threads : Ordered(todo[u])'
  BY <1>2 DEF Lists
<1>. QED
  BY <1>2, <1>3, <1>5, <1>6, <1>7 DEF Ways

LEMMA StepTelling ==
  ASSUME Typed, Ways, TellingInv, NEW t \in Threads, NEW b \in Bridges, of[t] = b,
         NEW x, NEW new, NEW f, Does(t, b, x, new, f)
  PROVE  TellingInv'
<1>1. Lists
  BY DEF Typed, Ways, Lists
<1>2. /\ Turn(t, x, new, f) /\ Leads(x, new, f) /\ Writes(t, b, x) /\ Finds(t, b, x, new)
      /\ of' = of
  BY <1>1, MovesTurn DEF Does, Moves, Writes
<1>. SUFFICES ASSUME NEW d \in Bridges, d \notin late'
              PROVE  /\ bridge'[d].app = None =>
                          /\ ~Unannounced(d)'
                          /\ bridge'[d].told =>
                               \E u \in Threads : of[u] = d /\ Holds(u, "tell down")'
                     /\ bridge'[d].app # None =>
                          /\ \A u \in Threads : of[u] = d => ~Holds(u, "tell down")'
                          /\ ~bridge'[d].told => Unannounced(d)'
  BY <1>2 DEF TellingInv
<1>3. d \notin late
  BY <1>2 DEF Finds
<1>4. /\ bridge[d].app = None =>
           /\ ~Unannounced(d)
           /\ bridge[d].told => \E u \in Threads : of[u] = d /\ Holds(u, "tell down")
      /\ bridge[d].app # None =>
           /\ \A u \in Threads : of[u] = d => ~Holds(u, "tell down")
           /\ ~bridge[d].told => Unannounced(d)
  BY <1>3 DEF TellingInv
<1>5. /\ Unannounced(d) <=> \E u \in Calls : of[u] = d /\ Holds(u, "tell up")
      /\ Unannounced(d)' <=> \E u \in Calls : of[u] = d /\ Holds(u, "tell up")'
  BY <1>2 DEF Unannounced
<1>6. Calls \subseteq Threads
  BY DEF Threads
<1>7. ASSUME d = b => x \notin {"tell up", "tell down", "install", "close"}
      PROVE  /\ bridge'[d].app = bridge[d].app /\ bridge'[d].told = bridge[d].told
             /\ \A u \in Threads : of[u] = d =>
                  /\ Holds(u, "tell up")' <=> Holds(u, "tell up")
                  /\ Holds(u, "tell down")' <=> Holds(u, "tell down")
  <2>1. bridge'[d].app = bridge[d].app /\ bridge'[d].told = bridge[d].told
    BY <1>2, <1>7 DEF Writes
  <2>2. ASSUME NEW u \in Threads, of[u] = d
        PROVE  /\ Holds(u, "tell up")' <=> Holds(u, "tell up")
               /\ Holds(u, "tell down")' <=> Holds(u, "tell down")
    <3>1. CASE u # t
      BY <1>2, <3>1 DEF Turn
    <3>2. CASE u = t
      <4>1. x \notin {"tell up", "tell down", "install", "close"}
        BY <1>7, <2>2, <3>2
      <4>2. "tell up" \notin new /\ "tell down" \notin new
        BY <1>2, <4>1, LeadsAdds
      <4>. QED
        BY <1>2, <3>2, <4>1, <4>2 DEF Turn
    <3>. QED
      BY <3>1, <3>2
  <2>. QED
    BY <2>1, <2>2
<1>8. CASE d = b => x \notin {"tell up", "tell down", "install", "close"}
  BY <1>4, <1>5, <1>6, <1>7, <1>8
<1>9. CASE d = b /\ x = "tell up"
  <2>1. t \in Calls
    BY <1>2, <1>9, WhoHas DEF Turn
  <2>2. bridge[d].app # None
    BY <1>2, <1>4, <1>5, <1>9, <2>1 DEF Turn
  <2>3. bridge'[d].app = bridge[d].app /\ bridge'[d].told
    BY <1>2, <1>9 DEF Writes
  <2>4. "tell down" \notin new
    <3>1. x # "close" /\ Leads(x, new, f)
      BY <1>2, <1>9
    <3>. QED
      BY <3>1, LeadsAdds
  <2>5. \A u \in Threads : Holds(u, "tell down")' => Holds(u, "tell down")
    BY <1>2, <2>4 DEF Turn
  <2>. QED
    BY <1>4, <2>2, <2>3, <2>5
<1>10. CASE d = b /\ x = "tell down"
  <2>1. bridge[d].app = None
    BY <1>2, <1>4, <1>10 DEF Turn
  <2>2. bridge'[d].app = bridge[d].app /\ ~bridge'[d].told
    BY <1>2, <1>10 DEF Writes
  <2>3. "tell up" \notin new
    BY <1>2, <1>10, LeadsAdds
  <2>4. \A u \in Threads : Holds(u, "tell up")' => Holds(u, "tell up")
    BY <1>2, <2>3 DEF Turn
  <2>. QED
    BY <1>4, <1>5, <1>6, <2>1, <2>2, <2>4
<1>11. CASE d = b /\ x = "install"
  <2>1. t \in Calls
    BY <1>2, <1>11, WhoHas DEF Turn
  <2>2. bridge'[d].app = t /\ t # None
    BY <1>2, <1>11, <2>1, ThreadsAreDistinct DEF Writes
  <2>3. todo[b] = << >> /\ ~AppLocked(b)
    BY <1>2, <1>11 DEF Finds
  <2>4. Unannounced(d)'
    <3>1. Holds(t, "tell up")'
      BY <1>2, <1>11, LeadsAdds DEF Turn
    <3>. QED
      BY <1>5, <1>11, <2>1, <3>1
  <2>5. ASSUME NEW u \in Threads, of[u] = d, Holds(u, "tell down")'
        PROVE  FALSE
    <3>1. Holds(u, "tell down")
      <4>1. "tell down" \notin new
        BY <1>2, <1>11, LeadsAdds
      <4>. QED
        BY <1>2, <2>5, <4>1 DEF Turn
    <3>2. u \notin Calls
      <4>1. "tell down" \notin CallSteps
        BY DEF CallSteps, Reg, Unreg
      <4>. QED
        BY <3>1, <4>1, WhoHas
    <3>3. u \notin Admins
      BY <1>11, <2>3, <2>5, <3>1 DEF Ways, AppLocked
    <3>4. u \in Bridges => u = b
      BY <1>11, <2>5 DEF Typed
    <3>5. u # b
      <4>1. b \in Threads
        BY DEF Threads
      <4>. QED
        BY <1>1, <2>3, <3>1, <4>1, Idle
    <3>. QED
      BY <3>2, <3>3, <3>4, <3>5 DEF Threads
  <2>. QED
    BY <2>2, <2>4, <2>5
<1>12. CASE d = b /\ x = "close"
  <2>1. bridge'[d].app = None /\ bridge'[d].told = bridge[d].told
    BY <1>2, <1>12 DEF Writes
  <2>2. ~Unannounced(d)
    BY <1>2, <1>12 DEF Finds, Told
  <2>3. "tell up" \notin new
    BY <1>2, <1>12, LeadsAdds
  <2>4. \A u \in Threads : Holds(u, "tell up")' => Holds(u, "tell up")
    BY <1>2, <2>3 DEF Turn
  <2>5. ~Unannounced(d)'
    BY <1>5, <1>6, <2>2, <2>4
  <2>6. ASSUME bridge[d].told
        PROVE  \E u \in Threads : of[u] = d /\ Holds(u, "tell down")'
    <3>1. CASE bridge[d].app = None
      <4>1. PICK u \in Threads : of[u] = d /\ Holds(u, "tell down")
        BY <1>4, <2>6, <3>1
      <4>2. Holds(u, "tell down")'
        BY <1>2, <1>12, <4>1 DEF Turn
      <4>. QED
        BY <4>1, <4>2
    <3>2. CASE bridge[d].app # None
      <4>1. new # {}
        BY <1>2, <1>12, <3>2 DEF Finds
      <4>2. Holds(t, "tell down")'
        BY <1>2, <1>12, <4>1, LeadsAdds DEF Turn
      <4>. QED
        BY <1>12, <4>2
    <3>. QED
      BY <3>1, <3>2
  <2>. QED
    BY <2>1, <2>5, <2>6
<1>. QED
  BY <1>8, <1>9, <1>10, <1>11, <1>12

-----------------------------------------------------------------------------
(* The same of the actions that are not steps.  A thread that takes on its   *)
(* first steps is Given them; then its bridge b may lose its session.        *)

Given(t, b, S, f) ==
  /\ Takes(t, S, f)
  /\ \/ t \in Admins /\ Task(S, f)
     \/ t \in Calls /\ S = {"answer"} /\ f = "answer"
     \/ t \in Bridges /\ t = b /\ S = {"down", "tell down"} /\ f = "down"
  /\ of' = [of EXCEPT ![t] = b]
  /\ t \notin Bridges => Same(b, {}) /\ late' = late
  /\ t \in Bridges => Same(b, {"app"}) /\ bridge'[b].app = None /\ Told(b)
  /\ t \in Admins => bridge[b].life = "up"
  /\ t \in Admins /\ crossed' = {} => \A e \in Admins : todo[e] = << >>
  /\ t \in Calls /\ cut' = {} => bridge[b].discovery
  /\ \A c : c \notin late' => c \notin late
  /\ cut' = {} => cut = {}
  /\ crossed' = {} => crossed = {}
  /\ listed' = listed

\* What a bridge's start, its reading and the app's leaving do.
Stays(b) ==
  /\ \/ Same(b, {})
     \/ /\ Same(b, {"life"}) /\ bridge[b].life = "new" /\ bridge'[b].life = "up"
        /\ \A d \in Bridges : d < b => bridge[d].life = "stopped"
  /\ UNCHANGED << todo, listed, of, late, cut, crossed >>

\* Every action is a step, gives a thread its first steps, or leaves all threads.
LEMMA NextDoes ==
  ASSUME Typed, Ways, Next
  PROVE  \/ \E t \in Threads, b \in Bridges :
              of[t] = b /\ \E x, new, f : Does(t, b, x, new, f)
         \/ \E t \in Threads, b \in Bridges : \E S, f : Given(t, b, S, f)
         \/ \E b \in Bridges : Stays(b)
<1>1. ASSUME NEW a \in Admins, NEW b \in Bridges, NEW task \in Tasks, Ask(a, b, task)
      PROVE  \E t \in Threads, d \in Bridges : \E S, f : Given(t, d, S, f)
  <2>1. PICK S, f : Takes(a, S, f) /\ Task(S, f)
    BY <1>1, AskDoes
  <2>2. a \in Threads /\ a \notin Calls /\ a \notin Bridges
    BY ThreadsAreDistinct DEF Threads
  <2>3. /\ of' = [of EXCEPT ![a] = b] /\ bridge[b].life = "up"
        /\ crossed' = {} => crossed = {} /\ \A e \in Admins : todo[e] = << >>
        /\ UNCHANGED << bridge, listed, late, cut >>
    BY <1>1, AskDoes
  <2>4. Given(a, b, S, f)
    BY <2>1, <2>2, <2>3, NoneTouched DEF Given
  <2>. QED
    BY <2>2, <2>4
<1>2. ASSUME NEW c \in Calls, CallMe(c)
      PROVE  \E t \in Threads, d \in Bridges : \E S, f : Given(t, d, S, f)
  <2>1. c \in Threads /\ c \notin Admins /\ c \notin Bridges
    BY ThreadsAreDistinct DEF Threads
  <2>2. /\ Takes(c, {"answer"}, "answer")
        /\ listed \in Bridges /\ of' = [of EXCEPT ![c] = listed]
        /\ cut' = {} => cut = {} /\ bridge[listed].discovery
        /\ UNCHANGED << bridge, listed, late, crossed >>
    BY <1>2, CallMeDoes
  <2>3. Given(c, listed, {"answer"}, "answer")
    BY <2>1, <2>2, NoneTouched DEF Given
  <2>. QED
    BY <2>1, <2>2, <2>3
<1>3. ASSUME NEW b \in Bridges, EndOfFile(b)
      PROVE  \E t \in Threads, d \in Bridges : \E S, f : Given(t, d, S, f)
  <2>1. b \in Threads /\ b \notin Admins /\ b \notin Calls
    BY ThreadsAreDistinct DEF Threads
  <2>2. /\ Takes(b, {"down", "tell down"}, "down")
        /\ Same(b, {"app"}) /\ bridge'[b].app = None
        /\ Told(b) /\ (\A c : c \notin late' => c \notin late)
        /\ UNCHANGED << listed, of, cut, crossed >>
    BY <1>3, EndOfFileDoes
  <2>3. of' = [of EXCEPT ![b] = b]
    BY <2>1, <2>2 DEF Typed
  <2>4. Given(b, b, {"down", "tell down"}, "down")
    BY <2>1, <2>2, <2>3 DEF Given
  <2>. QED
    BY <2>1, <2>4
<1>4. ASSUME NEW b \in Bridges, Start(b) \/ Sample(b) PROVE Stays(b)
  BY <1>4, OthersDo DEF Stays
<1>5. ASSUME NEW c \in Calls, AppLeaves(c) PROVE \E b \in Bridges : Stays(b)
  <2>1. PICK b \in Bridges : bridge[b].app = c
    BY <1>5 DEF AppLeaves
  <2>. QED
    BY <1>5, OthersDo DEF Stays
<1>. QED
  BY <1>1, <1>2, <1>3, <1>4, <1>5, StepDoes DEF Next

\* Whose steps they are.
LEMMA GivenKind ==
  ASSUME NEW t \in Threads, NEW b \in Bridges, NEW S, NEW f, Given(t, b, S, f)
  PROVE  /\ t \in Admins => Task(S, f)
         /\ t \in Calls => S = {"answer"} /\ f = "answer"
         /\ t \in Bridges => t = b /\ S = {"down", "tell down"} /\ f = "down"
         /\ t \notin Bridges => "tell down" \notin S
         /\ "tell up" \notin S
<1>1. \/ t \in Admins /\ Task(S, f)
      \/ t \in Calls /\ S = {"answer"} /\ f = "answer"
      \/ t \in Bridges /\ t = b /\ S = {"down", "tell down"} /\ f = "down"
  BY DEF Given
<1>2. ~(t \in Admins /\ t \in Calls) /\ ~(t \in Admins /\ t \in Bridges)
      /\ ~(t \in Calls /\ t \in Bridges)
  BY ThreadsAreDistinct
<1>3. Task(S, f) => "tell down" \notin S /\ "tell up" \notin S
  <2>1. "tell up" \notin AdminSteps
    BY DEF AdminSteps, Reg, Unreg
  <2>. QED
    BY <2>1 DEF Task
<1>4. "tell down" \notin {"answer"} /\ "tell up" \notin {"answer"}
      /\ "tell up" \notin {"down", "tell down"}
  OBVIOUS
<1>5. t \notin Bridges => "tell down" \notin S
  BY <1>1, <1>3, <1>4
<1>6. "tell up" \notin S
  BY <1>1, <1>3, <1>4
<1>. QED
  BY <1>1, <1>2, <1>5, <1>6

LEMMA GivenTyped ==
  ASSUME Typed, Lists, NEW t \in Threads, NEW b \in Bridges, NEW S, NEW f, Given(t, b, S, f),
         setting' \in BOOLEAN
  PROVE  Typed'
<1>1. bridge' \in [Bridges -> BridgeState] /\ listed' = listed
  BY DEF Given, Same
<1>2. /\ \A u \in Threads \ {t} : todo'[u] = todo[u] /\ of'[u] = of[u]
      /\ of' \in [Threads -> Bridges \cup {None}] /\ of'[t] = b /\ Lists'
      /\ t \in Bridges => t = b
  <2>1. of' = [of EXCEPT ![t] = b] /\ Takes(t, S, f)
    BY DEF Given
  <2>2. \A u \in Threads \ {t} : todo'[u] = todo[u] /\ of'[u] = of[u]
    BY <2>1 DEF Takes, Typed
  <2>3. of' \in [Threads -> Bridges \cup {None}] /\ of'[t] = b /\ Lists'
    BY <2>1 DEF Takes, Typed
  <2>4. t \in Bridges => t = b
    BY GivenKind
  <2>. QED
    BY <2>2, <2>3, <2>4
<1>3. \A c \in Bridges : c \in Threads
  BY DEF Threads
<1>4. \A c \in Bridges : of'[c] = c
  BY <1>2, <1>3 DEF Typed
<1>. QED
  BY <1>1, <1>2, <1>4 DEF Typed, Lists

LEMMA GivenFrame ==
  ASSUME Typed, Lists, NEW t \in Threads, NEW b \in Bridges, NEW S, NEW f, Given(t, b, S, f)
  PROVE  /\ \A z : ~At(t, z) /\ ~Holds(t, z)
         /\ todo[t] = << >> /\ todo'[t] # << >> /\ f \in S /\ Lists'
         /\ \A z : (Holds(t, z)' <=> z \in S) /\ (At(t, z)' <=> z = f)
         /\ \A u \in Threads \ {t} : todo'[u] = todo[u] /\ of'[u] = of[u]
         /\ \A u \in Threads \ {t} : \A z : (At(u, z)' <=> At(u, z)) /\ (Holds(u, z)' <=> Holds(u, z))
         /\ of'[t] = b
         /\ f \notin Reg \cup Unreg \cup {"connect", "install", "failed"}
         /\ "tell up" \notin S
<1>1. f \notin Reg \cup Unreg \cup {"connect", "install", "failed"}
  BY DEF Given, Task, Reg, Unreg
<1>2. "tell up" \notin S
  BY GivenKind
<1>3. of'[t] = b /\ \A u \in Threads \ {t} : of'[u] = of[u]
  BY DEF Given, Typed
<1>4. todo[t] = << >> /\ f \in S /\ Lists'
      /\ \A z : (Holds(t, z)' <=> z \in S) /\ (At(t, z)' <=> z = f)
  BY DEF Given, Takes
<1>5. /\ \A z : ~At(t, z) /\ ~Holds(t, z)
      /\ \A u \in Threads \ {t} : todo'[u] = todo[u]
      /\ \A u \in Threads \ {t} : \A z : (At(u, z)' <=> At(u, z)) /\ (Holds(u, z)' <=> Holds(u, z))
      /\ todo'[t] # << >>
  BY TakesTurn DEF Given
<1>. QED
  BY <1>1, <1>2, <1>3, <1>4, <1>5

LEMMA GivenWays ==
  ASSUME Typed, Ways, NEW t \in Threads, NEW b \in Bridges, NEW S, NEW f, Given(t, b, S, f)
  PROVE  Ways'
<1>1. Lists
  BY DEF Typed, Ways, Lists
<1>2. /\ \A z : ~At(t, z) /\ ~Holds(t, z)
      /\ \A z : (Holds(t, z)' <=> z \in S) /\ (At(t, z)' <=> z = f)
      /\ \A u \in Threads \ {t} : of'[u] = of[u]
      /\ \A u \in Threads \ {t} : \A z : (At(u, z)' <=> At(u, z)) /\ (Holds(u, z)' <=> Holds(u, z))
      /\ f \notin Unreg /\ Lists'
  BY <1>1, GivenFrame
<1>3. \A c \in Bridges : bridge'[c].life = bridge[c].life
  BY DEF Given, Same
<1>4. ASSUME NEW u \in Threads, NEW z, Holds(u, z)'
      PROVE  z \in StepsOf(u)
  <2>1. CASE u # t
    BY <1>2, <1>4, <2>1 DEF Ways
  <2>2. CASE u = t
    <3>1. z \in S
      BY <1>2, <1>4, <2>2
    <3>2. CASE t \in Admins
      <4>1. t \notin Calls /\ t \notin Bridges
        BY <3>2, ThreadsAreDistinct
      <4>2. z \in AdminSteps
        BY <3>1, <4>1 DEF Given, Task
      <4>. QED
        BY <2>2, <4>1, <4>2 DEF StepsOf
    <3>3. CASE t \in Calls
      <4>1. t \notin Admins /\ t \notin Bridges
        BY <3>3, ThreadsAreDistinct
      <4>2. z = "answer"
        BY ZenonT(60), <3>1, <3>3, GivenKind
      <4>. QED
        BY <2>2, <3>3, <4>2 DEF StepsOf, CallSteps
    <3>4. CASE t \in Bridges
      <4>1. t \notin Admins /\ t \notin Calls
        BY <3>4, ThreadsAreDistinct
      <4>2. z \in {"down", "tell down"}
        BY <3>1, <4>1 DEF Given
      <4>. QED
        BY <2>2, <3>4, <4>1, <4>2 DEF StepsOf, BridgeSteps
    <3>. QED
      BY <3>2, <3>3, <3>4 DEF Threads
  <2>. QED
    BY <2>1, <2>2
<1>5. ASSUME NEW a \in Admins
      PROVE  /\ Holds(a, "tell down")' => Holds(a, "unlock")'
             /\ Holds(a, "stop")' => Holds(a, "close")'
             /\ Holds(a, "close")' => Holds(a, "stopped")'
             /\ Holds(a, "stopped")' =>
                  Holds(a, "stop")' \/ bridge'[of'[a]].life \in {"stopping", "stopped"}
  <2>1. a \in Threads /\ a \notin Calls /\ a \notin Bridges
    BY ThreadsAreDistinct DEF Threads
  <2>2. CASE a # t
    <3>1. Holds(a, "stopped") => of[a] \in Bridges
      <4>1. Holds(a, "stopped") => todo[a] # << >>
        BY <1>1, <2>1, Idle
      <4>. QED
        BY <2>1, <4>1 DEF Typed
    <3>. QED
      BY <1>2, <1>3, <2>1, <2>2, <3>1 DEF Ways
  <2>3. CASE a = t
    <3>1. Task(S, f)
      BY <2>1, <2>3 DEF Given
    <3>. QED
      BY <1>2, <2>3, <3>1 DEF Task
  <2>. QED
    BY <2>2, <2>3
<1>6. ASSUME NEW c \in Calls, NEW z \in Unreg, At(c, z)'
      PROVE  Holds(c, "connect")' \/ Holds(c, "tell up")'
  <2>1. c \in Threads /\ c # t
    BY <1>2, <1>6 DEF Threads
  <2>. QED
    BY <1>2, <1>6, <2>1 DEF Ways
<1>7. \A u \in Threads : Ordered(todo[u])'
  BY <1>2 DEF Lists
<1>. QED
  BY <1>4, <1>5, <1>6, <1>7 DEF Ways

LEMMA GivenTelling ==
  ASSUME Typed, Ways, TellingInv, NEW t \in Threads, NEW b \in Bridges, NEW S, NEW f,
         Given(t, b, S, f)
  PROVE  TellingInv'
<1>1. Lists
  BY DEF Typed, Ways, Lists
<1>2. /\ \A z : ~At(t, z) /\ ~Holds(t, z)
      /\ \A z : Holds(t, z)' <=> z \in S
      /\ \A u \in Threads \ {t} : of'[u] = of[u]
      /\ \A u \in Threads \ {t} : \A z : Holds(u, z)' <=> Holds(u, z)
      /\ "tell up" \notin S /\ of'[t] = b
  BY <1>1, GivenFrame
<1>. SUFFICES ASSUME NEW d \in Bridges, d \notin late'
              PROVE  /\ bridge'[d].app = None =>
                          /\ ~Unannounced(d)'
                          /\ bridge'[d].told =>
                               \E u \in Threads : of'[u] = d /\ Holds(u, "tell down")'
                     /\ bridge'[d].app # None =>
                          /\ \A u \in Threads : of'[u] = d => ~Holds(u, "tell down")'
                          /\ ~bridge'[d].told => Unannounced(d)'
  BY DEF TellingInv
<1>3. d \notin late
  BY DEF Given
<1>4. /\ bridge[d].app = None =>
           /\ ~Unannounced(d)
           /\ bridge[d].told => \E u \in Threads : of[u] = d /\ Holds(u, "tell down")
      /\ bridge[d].app # None =>
           /\ \A u \in Threads : of[u] = d => ~Holds(u, "tell down")
           /\ ~bridge[d].told => Unannounced(d)
  BY <1>3 DEF TellingInv
<1>5. Unannounced(d)' <=> Unannounced(d)
  <2>1. Calls \subseteq Threads
    BY DEF Threads
  <2>2. \A u \in Calls : of'[u] = d /\ Holds(u, "tell up")' <=> of[u] = d /\ Holds(u, "tell up")
    BY <1>2, <2>1
  <2>. QED
    BY <2>2 DEF Unannounced
<1>6. CASE ~(t \in Bridges /\ d = b)
  <2>1. bridge'[d].app = bridge[d].app /\ bridge'[d].told = bridge[d].told
    BY <1>6 DEF Given, Same
  <2>2. t \notin Bridges => "tell down" \notin S
    BY GivenKind
  <2>3. \A u \in Threads : of'[u] = d /\ Holds(u, "tell down")' <=> of[u] = d /\ Holds(u, "tell down")
    BY <1>2, <1>6, <2>2
  <2>. QED
    BY <1>4, <1>5, <2>1, <2>3
<1>7. CASE t \in Bridges /\ d = b
  <2>1. t \notin Admins /\ t \notin Calls
    BY <1>7, ThreadsAreDistinct
  <2>2. bridge'[d].app = None /\ ~Unannounced(d) /\ "tell down" \in S
    BY <1>7, <2>1 DEF Given, Told
  <2>3. Holds(t, "tell down")' /\ of'[t] = d
    BY <1>2, <1>7, <2>2
  <2>. QED
    BY <1>5, <2>2, <2>3
<1>. QED
  BY <1>6, <1>7

LEMMA StaysKept ==
  ASSUME Typed, Ways, TellingInv, NEW b \in Bridges, Stays(b), setting' \in BOOLEAN
  PROVE  Typed' /\ Ways' /\ TellingInv'
<1>1. UNCHANGED << todo, listed, of, late >> /\ bridge' \in [Bridges -> BridgeState]
  BY DEF Stays, Same
<1>2. \A c \in Bridges :
        /\ bridge'[c].app = bridge[c].app /\ bridge'[c].told = bridge[c].told
        /\ bridge[c].life \in {"stopping", "stopped"} => bridge'[c].life = bridge[c].life
  BY DEF Stays, Same
<1>3. Typed'
  BY <1>1 DEF Typed
<1>4. \A u, z : (Holds(u, z)' <=> Holds(u, z)) /\ (At(u, z)' <=> At(u, z))
  BY <1>1 DEF Holds, At
<1>5. Ways'
  <2>1. \A u \in Threads : Ordered(todo[u])'
    BY <1>1 DEF Ways
  <2>2. \A u \in Threads : \A z : Holds(u, z)' => z \in StepsOf(u)
    BY <1>4 DEF Ways
  <2>3. ASSUME NEW a \in Admins, Holds(a, "stopped"), ~Holds(a, "stop")
        PROVE  bridge'[of[a]].life \in {"stopping", "stopped"}
    <3>1. a \in Threads
      BY DEF Threads
    <3>2. Lists
      BY DEF Typed, Ways, Lists
    <3>3. of[a] \in Bridges
      BY <2>3, <3>1, <3>2, Idle DEF Typed
    <3>. QED
      BY <1>2, <2>3, <3>3 DEF Ways
  <2>4. \A a \in Admins :
          /\ Holds(a, "tell down") => Holds(a, "unlock")
          /\ Holds(a, "stop") => Holds(a, "close")
          /\ Holds(a, "close") => Holds(a, "stopped")
    BY DEF Ways
  <2>5. \A c \in Calls : \A x \in Unreg :
          At(c, x)' => Holds(c, "connect")' \/ Holds(c, "tell up")'
    BY <1>4 DEF Ways
  <2>. QED
    BY <1>1, <1>4, <2>1, <2>2, <2>3, <2>4, <2>5 DEF Ways
<1>6. TellingInv'
  <2>1. \A d \in Bridges : Unannounced(d)' <=> Unannounced(d)
    BY <1>1, <1>4 DEF Unannounced
  <2>2. late' = late /\ \A u \in Threads : of'[u] = of[u]
    BY <1>1
  <2>. SUFFICES ASSUME NEW d \in Bridges \ late
                PROVE  /\ bridge'[d].app = None =>
                            /\ ~Unannounced(d)'
                            /\ bridge'[d].told =>
                                 \E u \in Threads : of'[u] = d /\ Holds(u, "tell down")'
                       /\ bridge'[d].app # None =>
                            /\ \A u \in Threads : of'[u] = d => ~Holds(u, "tell down")'
                            /\ ~bridge'[d].told => Unannounced(d)'
    BY <2>2 DEF TellingInv
  <2>3. bridge'[d].app = bridge[d].app /\ bridge'[d].told = bridge[d].told
    BY <1>2
  <2>4. /\ bridge[d].app = None =>
             /\ ~Unannounced(d)
             /\ bridge[d].told => \E u \in Threads : of[u] = d /\ Holds(u, "tell down")
        /\ bridge[d].app # None =>
             /\ \A u \in Threads : of[u] = d => ~Holds(u, "tell down")
             /\ ~bridge[d].told => Unannounced(d)
    BY DEF TellingInv
  <2>. QED
    BY <1>4, <2>1, <2>2, <2>3, <2>4
<1>. QED
  BY <1>3, <1>5, <1>6

-----------------------------------------------------------------------------
(* One registration at a time: Orderly, one conjunct after the other, for    *)
(* a step that leaves nothing crossed and nothing cut.                       *)

\* What Does says, with the lists as Turn gives them.
LEMMA DoesTurn ==
  ASSUME Typed, Ways, NEW t \in Threads, NEW b \in Bridges,
         NEW x, NEW new, NEW f, Does(t, b, x, new, f)
  PROVE  /\ Turn(t, x, new, f) /\ Leads(x, new, f) /\ Writes(t, b, x) /\ Finds(t, b, x, new)
         /\ of' = of /\ Lists /\ Lists'
<1>1. Lists
  BY DEF Typed, Ways, Lists
<1>. QED
  BY <1>1, MovesTurn DEF Does, Moves, Writes

\* A step that never comes behind another is at the head because it is new.
LEMMA FirstIsNew ==
  ASSUME NEW t, NEW x, NEW new, NEW f, Turn(t, x, new, f), Leads(x, new, f),
         NEW z \in Reg \cup Unreg \cup
           {"answer", "install", "failed", "mdns", "listen", "down", "retract", "want",
            "refuse"},
         At(t, z)'
  PROVE  new # {} /\ z = f
<1>1. z \in new \/ z \in Behind(x)
  BY DEF Turn
<1>2. z \notin Behind(x)
  BY NeverBehind
<1>. QED
  BY <1>1, <1>2 DEF Turn

LEMMA CriticalTurn ==
  ASSUME NEW t \in Threads, NEW b \in Bridges, NEW x, NEW new, NEW f,
         Turn(t, x, new, f), Leads(x, new, f), Finds(t, b, x, new)
  PROVE  /\ InCritical(t) <=> x \in Critical
         /\ At(t, "list")' <=> x = "register" /\ ~bridge[b].flag
         /\ At(t, "mark")' <=> x = "list"
         /\ At(t, "unlist")' <=> x = "unregister" /\ bridge[b].flag
         /\ At(t, "unmark")' <=> x = "unlist"
         /\ \A u \in Threads \ {t} : InCritical(u)' <=> InCritical(u)
<1>1. InCritical(t) <=> x \in Critical
  BY DEF InCritical, Turn
<1>2. ASSUME NEW z \in {"list", "mark", "unlist", "unmark"}, At(t, z)'
      PROVE  new # {} /\ z = f
  BY <1>2, FirstIsNew DEF Reg, Unreg
<1>3. new # {} => At(t, f)'
  BY DEF Turn
<1>4. /\ new # {} /\ f = "list" <=> x = "register" /\ new # {}
      /\ new # {} /\ f = "mark" <=> x = "list"
      /\ new # {} /\ f = "unlist" <=> x = "unregister" /\ new # {}
      /\ new # {} /\ f = "unmark" <=> x = "unlist"
  BY DEF Leads
<1>5. /\ x = "register" => (new = {} <=> bridge[b].flag)
      /\ x = "unregister" => (new = {} <=> ~bridge[b].flag)
  BY DEF Finds
<1>6. \A u \in Threads \ {t} : InCritical(u)' <=> InCritical(u)
  BY DEF InCritical, Turn
<1>7. At(t, "list")' <=> x = "register" /\ ~bridge[b].flag
  BY <1>2, <1>3, <1>4, <1>5
<1>8. At(t, "mark")' <=> x = "list"
  BY <1>2, <1>3, <1>4
<1>9. At(t, "unlist")' <=> x = "unregister" /\ bridge[b].flag
  BY <1>2, <1>3, <1>4, <1>5
<1>10. At(t, "unmark")' <=> x = "unlist"
  BY <1>2, <1>3, <1>4
<1>. QED
  BY <1>1, <1>6, <1>7, <1>8, <1>9, <1>10

LEMMA InCriticalNext ==
  ASSUME NEW t
  PROVE  InCritical(t)' <=>
           At(t, "list")' \/ At(t, "mark")' \/ At(t, "unlist")' \/ At(t, "unmark")'
BY DEF InCritical, Critical

\* Only one bridge is up or about to stop.
LEMMA OneLives ==
  ASSUME Succession, NEW c \in Bridges, NEW d \in Bridges,
         bridge[c].life \in {"up", "stopping"}, bridge[d].life \in {"up", "stopping"}
  PROVE  c = d
<1>1. c \in Nat /\ d \in Nat
  BY BridgesAssumption
<1>2. c < d \/ d < c \/ c = d
  BY <1>1
<1>. QED
  BY <1>2 DEF Succession

LEMMA ListedLives ==
  ASSUME Typed, Ways, Orderly, NEW d \in Bridges, listed = d
  PROVE  bridge[d].life \in {"up", "stopping"}
<1>1. CASE bridge[d].enabled /\ bridge[d].discovery
  BY <1>1 DEF Orderly, Succession
<1>2. CASE \E a \in Admins : of[a] = d /\ (At(a, "unregister") \/ At(a, "unlist"))
  <2>1. PICK a \in Admins : of[a] = d /\ (At(a, "unregister") \/ At(a, "unlist"))
    BY <1>2
  <2>2. todo[a] # << >>
    BY <2>1 DEF At
  <2>. QED
    BY <2>1, <2>2 DEF Orderly, AdminInv
<1>. QED
  BY <1>1, <1>2 DEF Orderly, Offered

\* No admin but t is at work, if t is one.
LEMMA Alone ==
  ASSUME Typed, Ways, Orderly, NEW t \in Admins, todo[t] # << >>, NEW u \in Admins, u # t
  PROVE  todo[u] = << >> /\ \A z : ~At(u, z) /\ ~Holds(u, z)
<1>1. todo[u] = << >>
  BY DEF Orderly, OneAdmin
<1>2. u \in Threads /\ Lists
  BY DEF Threads, Typed, Ways, Lists
<1>. QED
  BY <1>1, <1>2, Idle

\* When a bridge is switched off, no other thread works on it.
LEMMA OffAlone ==
  ASSUME Typed, Ways, Orderly, NEW t \in Threads, NEW b \in Bridges, of[t] = b,
         NEW x \in {"disable", "unlisten", "stop"}, NEW new, NEW f,
         Does(t, b, x, new, f), cut' = {}
  PROVE  t \in Admins /\ \A u \in Threads \ {t} : of[u] = b => todo[u] = << >>
<1>1. Turn(t, x, new, f) /\ Finds(t, b, x, new)
  BY DoesTurn
<1>2. t \in Admins
  <2>1. x \in AdminSteps \ (CallSteps \cup BridgeSteps)
    BY DEF AdminSteps, CallSteps, BridgeSteps, Reg, Unreg
  <2>2. Holds(t, x)
    BY <1>1 DEF Turn
  <2>. QED
    BY <2>1, <2>2, WhoHas
<1>3. ASSUME NEW u \in Threads \ {t}, of[u] = b
      PROVE  todo[u] = << >>
  <2>1. CASE u \in Admins
    BY <1>1, <1>2, <1>3, <2>1, Alone DEF Turn
  <2>2. CASE u \in Calls
    BY <1>1, <1>3, <2>2 DEF Finds
  <2>3. CASE u \in Bridges
    BY <1>1, <1>3, <2>3 DEF Finds, Typed
  <2>. QED
    BY <2>1, <2>2, <2>3 DEF Threads
<1>. QED
  BY <1>2, <1>3

\* What is on for the bridge of another thread at work stays on.
LEMMA OnKept ==
  ASSUME Typed, Ways, Orderly, NEW t \in Threads, NEW b \in Bridges, of[t] = b,
         NEW x, NEW new, NEW f, Does(t, b, x, new, f), cut' = {},
         NEW u \in Threads \ {t}, todo[u] # << >>
  PROVE  /\ of[u] \in Bridges
         /\ bridge[of[u]].enabled => bridge'[of[u]].enabled
         /\ bridge[of[u]].discovery => bridge'[of[u]].discovery
<1>1. of[u] \in Bridges
  BY DEF Typed
<1>2. x \in {"disable", "unlisten", "stop"} => of[u] # b
  BY OffAlone
<1>3. Writes(t, b, x)
  BY DEF Does
<1>4. /\ of[u] # b \/ x \notin {"enable", "disable"} =>
           bridge'[of[u]].enabled = bridge[of[u]].enabled
      /\ of[u] # b \/ x \notin {"listen", "unlisten"} =>
           bridge'[of[u]].discovery = bridge[of[u]].discovery
      /\ x = "enable" => bridge'[b].enabled
      /\ x = "listen" => bridge'[b].discovery
  BY <1>1, <1>3 DEF Writes
<1>. QED
  BY <1>1, <1>2, <1>4

\* The fields that only the executor's threads write.
LEMMA AdminWrites ==
  ASSUME Typed, Ways, NEW t \in Threads, NEW b \in Bridges,
         NEW x, NEW new, NEW f, Does(t, b, x, new, f), t \notin Admins,
         NEW c \in Bridges
  PROVE  /\ bridge'[c].life = bridge[c].life /\ bridge'[c].enabled = bridge[c].enabled
         /\ bridge'[c].discovery = bridge[c].discovery
<1>1. Turn(t, x, new, f) /\ Writes(t, b, x)
  BY DoesTurn
<1>2. x \in StepsOf(t)
  BY <1>1 DEF Turn, Ways
<1>3. x \notin {"stop", "stopped", "enable", "disable", "listen", "unlisten"}
  BY <1>2 DEF StepsOf, Threads, CallSteps, BridgeSteps, Reg, Unreg
<1>. QED
  BY <1>1, <1>3 DEF Writes

LEMMA StepOneAdmin ==
  ASSUME Typed, Ways, Orderly, NEW t \in Threads, NEW b \in Bridges,
         NEW x, NEW new, NEW f, Does(t, b, x, new, f)
  PROVE  OneAdmin'
<1>1. Turn(t, x, new, f)
  BY DoesTurn
<1>2. \A u \in Threads : todo'[u] # << >> => todo[u] # << >>
  BY <1>1 DEF Turn
<1>. QED
  BY <1>2 DEF Orderly, OneAdmin, Threads

LEMMA StepExclusive ==
  ASSUME Typed, Ways, Orderly, NEW t \in Threads, NEW b \in Bridges,
         NEW x, NEW new, NEW f, Does(t, b, x, new, f), crossed' = {}
  PROVE  Exclusive'
<1>1. Turn(t, x, new, f) /\ Leads(x, new, f) /\ Finds(t, b, x, new)
  BY DoesTurn
<1>2. \A u \in Threads \ {t} : InCritical(u)' <=> InCritical(u)
  BY <1>1, CriticalTurn
<1>3. ASSUME InCritical(t)', NEW u \in Threads \ {t}, InCritical(u)
      PROVE  FALSE
  <2>1. x \in {"register", "unregister", "list", "unlist"}
    BY <1>1, <1>3, CriticalTurn, InCriticalNext
  <2>2. CASE x \in {"register", "unregister"}
    BY <1>1, <1>3, <2>2 DEF Finds, Clear
  <2>3. CASE x \in {"list", "unlist"}
    <3>1. InCritical(t)
      BY <1>1, <2>3 DEF InCritical, Critical, Turn
    <3>. QED
      BY <1>3, <3>1 DEF Orderly, Exclusive
  <2>. QED
    BY <2>1, <2>2, <2>3
<1>. QED
  BY <1>2, <1>3 DEF Orderly, Exclusive

LEMMA StepSuccession ==
  ASSUME Typed, Ways, Orderly, NEW t \in Threads, NEW b \in Bridges, of[t] = b,
         NEW x, NEW new, NEW f, Does(t, b, x, new, f)
  PROVE  Succession'
<1>1. Turn(t, x, new, f) /\ Writes(t, b, x)
  BY DoesTurn
<1>2. x \in {"stop", "stopped", "listen"} => t \in Admins
  <2>1. {"stop", "stopped", "listen"} \subseteq AdminSteps \ (CallSteps \cup BridgeSteps)
    BY DEF AdminSteps, CallSteps, BridgeSteps, Reg, Unreg
  <2>. QED
    BY <1>1, <2>1, WhoHas DEF Turn
<1>3. x \in {"stop", "stopped", "listen"} => bridge[b].life \in {"up", "stopping"}
  BY <1>1, <1>2 DEF Turn, Orderly, AdminInv
<1>4. ASSUME NEW c \in Bridges, NEW d \in Bridges, c < d, bridge'[d].life # "new"
      PROVE  bridge'[c].life = "stopped"
  <2>1. bridge[d].life # "new"
    BY <1>1, <1>3, <1>4 DEF Writes
  <2>2. bridge[c].life = "stopped"
    BY <1>4, <2>1 DEF Orderly, Succession
  <2>3. c = b => x # "stop"
    BY <1>3, <2>2
  <2>. QED
    BY <1>1, <2>2, <2>3 DEF Writes
<1>5. ASSUME NEW c \in Bridges, bridge'[c].discovery
      PROVE  bridge'[c].life = "up"
  <2>1. CASE c # b \/ x \notin {"stop", "stopped", "listen"}
    <3>1. bridge[c].discovery
      BY <1>1, <1>5, <2>1 DEF Writes
    <3>2. bridge[c].life = "up"
      BY <3>1 DEF Orderly, Succession
    <3>. QED
      BY <1>1, <2>1, <3>2 DEF Writes
  <2>2. CASE c = b /\ x = "listen"
    <3>1. ~Holds(t, "stopped")
      <4>1. "stopped" \notin Behind("listen")
        BY DEF Behind, Reg, Unreg
      <4>. QED
        BY <1>1, <2>2, <4>1 DEF Turn
    <3>2. bridge[b].life = "up"
      BY <1>1, <1>2, <2>2, <3>1 DEF Turn, Orderly, AdminInv
    <3>. QED
      BY <1>1, <2>2, <3>2 DEF Writes
  <2>3. CASE c = b /\ x = "stop"
    <3>1. bridge[b].discovery
      BY <1>1, <1>5, <2>3 DEF Writes
    <3>2. ~Holds(t, "unlisten")
      <4>1. "unlisten" \notin Behind("stop")
        BY DEF Behind, Reg, Unreg
      <4>. QED
        BY <1>1, <2>3, <4>1 DEF Turn
    <3>3. Holds(t, "stop") /\ todo[t] # << >>
      BY <1>1, <2>3 DEF Turn
    <3>. QED
      BY <1>2, <2>3, <3>1, <3>2, <3>3 DEF Orderly, AdminInv
  <2>4. CASE c = b /\ x = "stopped"
    <3>1. bridge[b].discovery
      BY <1>1, <1>5, <2>4 DEF Writes
    <3>2. bridge[b].life = "up"
      BY <3>1 DEF Orderly, Succession
    <3>3. ~Holds(t, "stop")
      <4>1. "stop" \notin Behind("stopped")
        BY DEF Behind, Reg, Unreg
      <4>. QED
        BY <1>1, <2>4, <4>1 DEF Turn
    <3>4. Holds(t, "stopped")
      BY <1>1, <2>4 DEF Turn
    <3>. QED
      BY <1>2, <2>4, <3>2, <3>3, <3>4 DEF Ways
  <2>. QED
    BY <2>1, <2>2, <2>3, <2>4
<1>. QED
  BY <1>4, <1>5 DEF Succession

LEMMA StepAdminInv ==
  ASSUME Typed, Ways, Orderly, NEW t \in Threads, NEW b \in Bridges, of[t] = b,
         NEW x, NEW new, NEW f, Does(t, b, x, new, f)
  PROVE  AdminInv'
<1>1. /\ Turn(t, x, new, f) /\ Leads(x, new, f) /\ Writes(t, b, x) /\ Finds(t, b, x, new)
      /\ of' = of
  BY DoesTurn
<1>2. SUFFICES ASSUME NEW a \in Admins, todo'[a] # << >>
               PROVE  /\ bridge'[of[a]].life \in {"up", "stopping"}
                      /\ ~Holds(a, "stopped")' => bridge'[of[a]].life = "up"
                      /\ Holds(a, "stop")' /\ ~Holds(a, "unlisten")' =>
                           ~bridge'[of[a]].discovery
                      /\ \A z \in Unreg :
                           At(a, z)' => ~(bridge'[of[a]].enabled /\ bridge'[of[a]].discovery)
  BY <1>1 DEF AdminInv
<1>3. a \in Threads /\ todo[a] # << >> /\ of[a] \in Bridges
  BY <1>1, <1>2 DEF Threads, Turn, Typed
<1>4. /\ bridge[of[a]].life \in {"up", "stopping"}
      /\ ~Holds(a, "stopped") => bridge[of[a]].life = "up"
      /\ Holds(a, "stop") /\ ~Holds(a, "unlisten") => ~bridge[of[a]].discovery
      /\ \A z \in Unreg :
           At(a, z) => ~(bridge[of[a]].enabled /\ bridge[of[a]].discovery)
  BY <1>3 DEF Orderly, AdminInv
<1>5. CASE a # t
  <2>1. t \notin Admins
    BY <1>1, <1>3, <1>5 DEF Turn, Orderly, OneAdmin
  <2>2. /\ bridge'[of[a]].life = bridge[of[a]].life
        /\ bridge'[of[a]].enabled = bridge[of[a]].enabled
        /\ bridge'[of[a]].discovery = bridge[of[a]].discovery
    BY <1>3, <2>1, AdminWrites
  <2>3. \A z : (Holds(a, z)' <=> Holds(a, z)) /\ (At(a, z)' <=> At(a, z))
    BY <1>1, <1>3, <1>5 DEF Turn
  <2>. QED
    BY <1>4, <2>2, <2>3
<1>6. CASE a = t
  <2>1. x # "stopped"
    <3>1. ASSUME x = "stopped" PROVE FALSE
      <4>1. PICK z : Holds(t, z)'
        BY <1>1, <1>2, <1>6 DEF Turn
      <4>2. Behind("stopped") = {}
        BY DEF Behind, Reg, Unreg
      <4>3. new = {}
        BY <1>1, <3>1 DEF Leads
      <4>. QED
        BY <1>1, <3>1, <4>1, <4>2, <4>3 DEF Turn
    <3>. QED
      BY <3>1
  <2>2. /\ "stop" \notin new /\ "stopped" \notin new
    BY <1>1, LeadsAdds
  <2>3. /\ \A z : Holds(t, z)' => z \in new \/ (Holds(t, z) /\ z \in Behind(x))
        /\ \A z : Holds(t, z) /\ z # x => Holds(t, z)'
        /\ Holds(t, x) /\ At(t, x)
    BY <1>1 DEF Turn
  <2>4. bridge'[b].life \in {"up", "stopping"}
    BY <1>1, <1>4, <1>6, <2>1 DEF Writes
  <2>5. ASSUME ~Holds(t, "stopped")' PROVE bridge'[b].life = "up"
    <3>1. ~Holds(t, "stopped")
      BY <2>1, <2>3, <2>5
    <3>2. x # "stop"
      BY <1>6, <2>3, <3>1 DEF Ways
    <3>. QED
      BY <1>1, <1>4, <1>6, <2>1, <3>1, <3>2 DEF Writes
  <2>6. ASSUME Holds(t, "stop")', ~Holds(t, "unlisten")' PROVE ~bridge'[b].discovery
    <3>1. Holds(t, "stop") /\ "stop" \in Behind(x)
      BY <2>2, <2>3, <2>6
    <3>2. x # "listen"
      BY <3>1 DEF Behind, Reg, Unreg
    <3>3. CASE Holds(t, "unlisten")
      <4>1. x = "unlisten"
        BY <2>3, <2>6, <3>3
      <4>. QED
        BY <1>1, <4>1 DEF Writes
    <3>4. CASE ~Holds(t, "unlisten")
      <4>1. ~bridge[b].discovery /\ x # "unlisten"
        BY <1>4, <1>6, <2>3, <3>1, <3>4
      <4>. QED
        BY <1>1, <3>2, <4>1 DEF Writes
    <3>. QED
      BY <3>3, <3>4
  <2>7. ASSUME NEW z \in Unreg, At(t, z)'
        PROVE  ~(bridge'[b].enabled /\ bridge'[b].discovery)
    <3>1. new # {} /\ z = f
      BY <1>1, <2>7, FirstIsNew
    <3>2. x \in {"disable", "unlisten", "stop", "unregister", "unlist", "answer", "install"}
      BY <1>1, <3>1 DEF Leads, Unreg
    <3>3. x \notin {"answer", "install"}
      <4>1. t \notin Calls
        BY <1>6, ThreadsAreDistinct
      <4>. QED
        BY <2>3, <4>1, WhoHas
    <3>4. CASE x \in {"disable", "unlisten"}
      BY <1>1, <3>4 DEF Writes
    <3>5. CASE x = "stop"
      <4>1. ~Holds(t, "unlisten")
        <5>1. "unlisten" \notin Behind("stop")
          BY DEF Behind, Reg, Unreg
        <5>. QED
          BY <1>1, <3>5, <5>1 DEF Turn
      <4>2. ~bridge[b].discovery
        BY <1>4, <1>6, <2>3, <3>5, <4>1
      <4>. QED
        BY <1>1, <3>5, <4>2 DEF Writes
    <3>6. CASE x \in {"unregister", "unlist"}
      <4>1. x \in Unreg
        BY <3>6 DEF Unreg
      <4>2. ~(bridge[b].enabled /\ bridge[b].discovery)
        BY <1>4, <1>6, <2>3, <4>1
      <4>. QED
        BY <1>1, <3>6, <4>2 DEF Writes
    <3>. QED
      BY <3>2, <3>3, <3>4, <3>5, <3>6
  <2>. QED
    BY <1>6, <2>4, <2>5, <2>6, <2>7
<1>. QED
  BY <1>5, <1>6

LEMMA StepOnIsOn ==
  ASSUME Typed, Ways, Orderly, NEW t \in Threads, NEW b \in Bridges, of[t] = b,
         NEW x, NEW new, NEW f, Does(t, b, x, new, f), cut' = {}
  PROVE  OnIsOn'
<1>1. /\ Turn(t, x, new, f) /\ Leads(x, new, f) /\ Writes(t, b, x) /\ Finds(t, b, x, new)
      /\ of' = of /\ Lists /\ Lists'
  BY DoesTurn
<1>2. ASSUME NEW u \in Threads, NEW z \in Reg, At(u, z)'
      PROVE  bridge'[of[u]].enabled /\ bridge'[of[u]].discovery
  <2>1. CASE u # t
    <3>1. At(u, z) /\ todo[u] # << >>
      BY <1>1, <1>2, <2>1 DEF Turn, At
    <3>2. bridge[of[u]].enabled /\ bridge[of[u]].discovery
      BY <3>1 DEF Orderly, OnIsOn
    <3>. QED
      BY <2>1, <3>1, <3>2, OnKept
  <2>2. CASE u = t
    <3>1. new # {} /\ z = f
      BY <1>1, <1>2, <2>2, FirstIsNew
    <3>2. x \in {"enable", "listen", "down", "failed", "register", "list"}
      BY <1>1, <3>1 DEF Leads, Reg
    <3>3. CASE x \in {"register", "list"}
      <4>1. bridge[b].enabled /\ bridge[b].discovery
        <5>1. x \in Reg
          BY <3>3 DEF Reg
        <5>. QED
          BY <1>1, <5>1 DEF Turn, Orderly, OnIsOn
      <4>. QED
        BY <1>1, <2>2, <3>3, <4>1 DEF Writes
    <3>4. CASE x = "enable"
      BY <1>1, <2>2, <3>1, <3>4 DEF Finds, Writes
    <3>5. CASE x = "listen"
      BY <1>1, <2>2, <3>1, <3>5 DEF Finds, Writes
    <3>6. CASE x = "down"
      BY <1>1, <2>2, <3>1, <3>6 DEF Finds, Writes
    <3>7. CASE x = "failed"
      <4>1. t \in Calls
        BY <1>1, <3>7, WhoHas DEF Turn
      <4>2. bridge[b].discovery
        BY <1>1, <4>1 DEF Turn, Orderly, OnIsOn
      <4>3. bridge[b].enabled
        BY <1>1, <3>1, <3>7 DEF Finds
      <4>. QED
        BY <1>1, <2>2, <3>7, <4>2, <4>3 DEF Writes
    <3>. QED
      BY <3>2, <3>3, <3>4, <3>5, <3>6, <3>7
  <2>. QED
    BY <2>1, <2>2
<1>3. ASSUME NEW c \in Calls, todo'[c] # << >>
      PROVE  bridge'[of[c]].discovery /\ (~At(c, "answer")' => bridge'[of[c]].enabled)
  <2>1. c \in Threads /\ c \notin Admins
    BY ThreadsAreDistinct DEF Threads
  <2>2. todo[c] # << >>
    BY <1>1, <1>3, <2>1 DEF Turn
  <2>3. bridge[of[c]].discovery /\ (~At(c, "answer") => bridge[of[c]].enabled)
    BY <2>2 DEF Orderly, OnIsOn
  <2>4. CASE c # t
    <3>1. At(c, "answer")' <=> At(c, "answer")
      BY <1>1, <2>1, <2>4 DEF Turn
    <3>. QED
      BY <2>1, <2>2, <2>3, <2>4, <3>1, OnKept
  <2>5. CASE c = t
    <3>1. bridge'[b].enabled = bridge[b].enabled /\ bridge'[b].discovery = bridge[b].discovery
      BY <2>1, <2>5, AdminWrites
    <3>2. CASE x # "answer"
      BY <1>1, <2>3, <2>5, <3>1, <3>2 DEF Turn
    <3>3. CASE x = "answer"
      <4>1. new # {}
        <5>1. Behind("answer") = {}
          BY DEF Behind, Reg, Unreg
        <5>2. PICK z : Holds(t, z)'
          BY <1>1, <1>3, <2>5 DEF Turn
        <5>. QED
          BY <1>1, <3>3, <5>1, <5>2 DEF Turn
      <4>. QED
        BY <1>1, <2>3, <2>5, <3>1, <3>3, <4>1 DEF Finds
    <3>. QED
      BY <3>2, <3>3
  <2>. QED
    BY <2>4, <2>5
<1>. QED
  BY <1>1, <1>2, <1>3 DEF OnIsOn

\* With no thread inside a registration, the flags say what the demuxer holds.
LEMMA FreeAgrees ==
  ASSUME Agree, NEW t \in Threads, ~InCritical(t) \/ At(t, "unlist"),
         \A u \in Threads \ {t} : ~InCritical(u)
  PROVE  \A d \in Bridges : bridge[d].flag = (listed = d)
BY DEF Agree

LEMMA StepAgree ==
  ASSUME Typed, Ways, Orderly, NEW t \in Threads, NEW b \in Bridges, of[t] = b,
         NEW x, NEW new, NEW f, Does(t, b, x, new, f), crossed' = {}
  PROVE  Agree'
<1>1. /\ Turn(t, x, new, f) /\ Leads(x, new, f) /\ Writes(t, b, x) /\ Finds(t, b, x, new)
      /\ of' = of
  BY DoesTurn
<1>2. /\ InCritical(t) <=> x \in Critical
      /\ At(t, "list")' <=> x = "register" /\ ~bridge[b].flag
      /\ At(t, "mark")' <=> x = "list"
      /\ At(t, "unlist")' <=> x = "unregister" /\ bridge[b].flag
      /\ At(t, "unmark")' <=> x = "unlist"
      /\ \A u \in Threads \ {t} : InCritical(u)' <=> InCritical(u)
  BY <1>1, CriticalTurn
<1>3. Agree
  BY DEF Orderly
<1>4. \A d \in Bridges : d # None
  BY ThreadsAreDistinct
<1>5. \A u \in Threads \ {t} : \A z : At(u, z)' <=> At(u, z)
  BY <1>1 DEF Turn
<1>6. x \in {"list", "mark", "unlist", "unmark"} => \A u \in Threads \ {t} : ~InCritical(u)
  BY <1>2 DEF Orderly, Exclusive, Critical
<1>7. x \in {"register", "unregister"} => \A u \in Threads \ {t} : ~InCritical(u)
  BY <1>1 DEF Finds, Clear
<1>8. \A u \in Threads, z \in Critical : At(u, z) => InCritical(u)
  BY DEF InCritical
<1>9. \A d \in Bridges : d # b \/ x \notin {"mark", "unmark"} => bridge'[d].flag = bridge[d].flag
  BY <1>1 DEF Writes
<1>10. x \notin {"list", "unlist"} => listed' = listed
  BY <1>1 DEF Writes
<1>11. CASE /\ x \notin {"list", "unlist", "mark", "unmark"}
            /\ ~(x = "register" /\ ~bridge[b].flag) /\ ~(x = "unregister" /\ bridge[b].flag)
  <2>1. \A u \in Threads, z \in Critical : At(u, z)' <=> At(u, z)
    <3>1. \A z \in Critical : ~At(t, z) /\ ~At(t, z)'
      BY <1>1, <1>2, <1>11 DEF Critical, Turn
    <3>. QED
      BY <1>5, <3>1
  <2>2. \A u \in Threads : InCritical(u)' <=> InCritical(u)
    BY <2>1 DEF InCritical
  <2>3. /\ "list" \in Critical /\ "mark" \in Critical /\ "unlist" \in Critical
        /\ "unmark" \in Critical
    BY DEF Critical
  <2>4. listed' = listed /\ \A d \in Bridges : bridge'[d].flag = bridge[d].flag
    BY <1>9, <1>10, <1>11
  <2>5. (\A u \in Threads : ~InCritical(u)' \/ At(u, "unlist")') =>
          \A d \in Bridges : bridge'[d].flag = (listed' = d)
    BY <1>3, <2>1, <2>2, <2>3, <2>4 DEF Agree
  <2>6. ASSUME NEW u \in Threads
        PROVE  /\ At(u, "list")' => \A d \in Bridges : ~bridge'[d].flag
               /\ At(u, "unlist")' => listed' = of[u]
               /\ At(u, "mark")' => listed' = of[u] /\ \A d \in Bridges : ~bridge'[d].flag
               /\ At(u, "unmark")' =>
                    listed' = None /\ \A d \in Bridges : bridge'[d].flag = (of[u] = d)
    BY <1>3, <2>1, <2>3, <2>4 DEF Agree
  <2>. QED
    BY <1>1, <2>5, <2>6 DEF Agree
<1>12. ASSUME \A u \in Threads \ {t} : ~InCritical(u),
              (~InCritical(t)' \/ At(t, "unlist")') =>
                \A d \in Bridges : bridge'[d].flag = (listed' = d),
              At(t, "list")' => \A d \in Bridges : ~bridge'[d].flag,
              At(t, "unlist")' => listed' = b,
              At(t, "mark")' => listed' = b /\ \A d \in Bridges : ~bridge'[d].flag,
              At(t, "unmark")' =>
                listed' = None /\ \A d \in Bridges : bridge'[d].flag = (b = d)
       PROVE  Agree'
  <2>1. \A u \in Threads \ {t} : ~InCritical(u)'
    BY <1>2, <1>12
  <2>2. \A u \in Threads \ {t} : ~At(u, "list")' /\ ~At(u, "mark")' /\ ~At(u, "unlist")'
                                 /\ ~At(u, "unmark")'
    BY <2>1, InCriticalNext
  <2>. QED
    BY <1>1, <1>12, <2>2 DEF Agree
<1>13. CASE x = "register" /\ ~bridge[b].flag
  <2>1. \A u \in Threads \ {t} : ~InCritical(u)
    BY <1>7, <1>13
  <2>2. \A d \in Bridges : bridge[d].flag = (listed = d)
    <3>1. ~InCritical(t)
      BY <1>2, <1>13 DEF Critical
    <3>. QED
      BY <1>3, <2>1, <3>1, FreeAgrees
  <2>3. listed \notin Bridges
    <3>1. ASSUME NEW d \in Bridges, listed = d PROVE FALSE
      <4>1. bridge[d].life \in {"up", "stopping"}
        BY <3>1, ListedLives
      <4>2. bridge[b].life = "up"
        <5>1. bridge[b].discovery
          BY <1>1, <1>13 DEF Turn, Orderly, OnIsOn, Reg
        <5>. QED
          BY <5>1 DEF Orderly, Succession
      <4>3. d = b
        BY <4>1, <4>2, OneLives DEF Orderly
      <4>. QED
        BY <1>13, <2>2, <3>1, <4>3
    <3>. QED
      BY <3>1
  <2>4. \A d \in Bridges : ~bridge'[d].flag
    BY <1>9, <1>13, <2>2, <2>3
  <2>5. ~At(t, "mark")' /\ ~At(t, "unlist")' /\ ~At(t, "unmark")' /\ InCritical(t)'
    BY <1>2, <1>13, InCriticalNext
  <2>. QED
    BY <1>12, <2>1, <2>4, <2>5
<1>14. CASE x = "unregister" /\ bridge[b].flag
  <2>1. \A u \in Threads \ {t} : ~InCritical(u)
    BY <1>7, <1>14
  <2>2. \A d \in Bridges : bridge[d].flag = (listed = d)
    <3>1. ~InCritical(t)
      BY <1>2, <1>14 DEF Critical
    <3>. QED
      BY <1>3, <2>1, <3>1, FreeAgrees
  <2>3. listed' = b /\ \A d \in Bridges : bridge'[d].flag = (listed' = d)
    BY <1>9, <1>10, <1>14, <2>2
  <2>4. ~At(t, "mark")' /\ ~At(t, "list")' /\ ~At(t, "unmark")'
    BY <1>2, <1>14
  <2>. QED
    BY <1>12, <2>1, <2>3, <2>4
<1>15. CASE x = "list"
  <2>1. \A u \in Threads \ {t} : ~InCritical(u)
    BY <1>6, <1>15
  <2>2. \A d \in Bridges : ~bridge'[d].flag
    BY <1>1, <1>3, <1>9, <1>15 DEF Agree, Turn
  <2>3. listed' = b
    BY <1>1, <1>15 DEF Writes
  <2>4. ~At(t, "unlist")' /\ ~At(t, "list")' /\ ~At(t, "unmark")' /\ InCritical(t)'
    BY <1>2, <1>15, InCriticalNext
  <2>. QED
    BY <1>12, <2>1, <2>2, <2>3, <2>4
<1>16. CASE x = "mark"
  <2>1. \A u \in Threads \ {t} : ~InCritical(u)
    BY <1>6, <1>16
  <2>2. listed = b /\ \A d \in Bridges : ~bridge[d].flag
    BY <1>1, <1>3, <1>16 DEF Agree, Turn
  <2>3. bridge'[b].flag
    BY <1>1, <1>16 DEF Writes
  <2>4. listed' = b
    BY <1>10, <1>16, <2>2
  <2>5. \A d \in Bridges : bridge'[d].flag = (listed' = d)
    <3>1. bridge'[b].flag \in BOOLEAN
      BY <1>1 DEF Writes, BridgeState
    <3>2. ASSUME NEW d \in Bridges, d # b PROVE bridge'[d].flag = (listed' = d)
      <4>1. bridge'[d].flag = bridge[d].flag /\ bridge[d].flag = FALSE
        BY <1>9, <2>2, <3>2 DEF Typed, BridgeState
      <4>. QED
        BY <2>4, <3>2, <4>1
    <3>. QED
      BY <2>3, <2>4, <3>1, <3>2
  <2>6. ~At(t, "unlist")' /\ ~At(t, "list")' /\ ~At(t, "unmark")' /\ ~At(t, "mark")'
    BY <1>2, <1>16
  <2>. QED
    BY <1>12, <2>1, <2>5, <2>6
<1>17. CASE x = "unlist"
  <2>1. \A u \in Threads \ {t} : ~InCritical(u)
    BY <1>6, <1>17
  <2>2. At(t, "unlist")
    BY <1>1, <1>17 DEF Turn
  <2>3. \A d \in Bridges : bridge[d].flag = (listed = d)
    BY <1>3, <2>1, <2>2, FreeAgrees
  <2>4. listed = b
    BY <1>3, <2>2 DEF Agree
  <2>5. \A d \in Bridges : bridge'[d].flag = (b = d)
    BY <1>9, <1>17, <2>3, <2>4
  <2>6. listed' = None
    BY <1>1, <1>17 DEF Writes
  <2>7. ~At(t, "unlist")' /\ ~At(t, "list")' /\ ~At(t, "mark")' /\ InCritical(t)'
    BY <1>2, <1>17, InCriticalNext
  <2>. QED
    BY <1>12, <2>1, <2>5, <2>6, <2>7
<1>18. CASE x = "unmark"
  <2>1. \A u \in Threads \ {t} : ~InCritical(u)
    BY <1>6, <1>18
  <2>2. listed = None /\ \A d \in Bridges : bridge[d].flag = (b = d)
    BY <1>1, <1>3, <1>18 DEF Agree, Turn
  <2>3. ~bridge'[b].flag
    BY <1>1, <1>18 DEF Writes
  <2>4. listed' = None
    BY <1>10, <1>18, <2>2
  <2>5. \A d \in Bridges : bridge'[d].flag = (listed' = d)
    <3>1. bridge'[b].flag \in BOOLEAN
      BY <1>1 DEF Writes, BridgeState
    <3>2. ASSUME NEW d \in Bridges, d # b PROVE bridge'[d].flag = (listed' = d)
      <4>1. bridge'[d].flag = bridge[d].flag /\ bridge[d].flag = FALSE
        BY <1>9, <2>2, <3>2
      <4>. QED
        BY <1>4, <2>4, <4>1
    <3>. QED
      BY <1>4, <2>3, <2>4, <3>1, <3>2
  <2>6. ~At(t, "unlist")' /\ ~At(t, "list")' /\ ~At(t, "unmark")' /\ ~At(t, "mark")'
    BY <1>2, <1>18
  <2>. QED
    BY <1>12, <2>1, <2>5, <2>6
<1>. QED
  BY <1>11, <1>13, <1>14, <1>15, <1>16, <1>17, <1>18

LEMMA StepOffered ==
  ASSUME Typed, Ways, Orderly, NEW t \in Threads, NEW b \in Bridges, of[t] = b,
         NEW x, NEW new, NEW f, Does(t, b, x, new, f), crossed' = {}, cut' = {}
  PROVE  Offered'
<1>1. /\ Turn(t, x, new, f) /\ Leads(x, new, f) /\ Writes(t, b, x) /\ Finds(t, b, x, new)
      /\ of' = of
  BY DoesTurn
<1>2. SUFFICES ASSUME NEW d \in Bridges, listed' = d
               PROVE  \/ bridge'[d].enabled /\ bridge'[d].discovery
                      \/ \E a \in Admins : of[a] = d /\ (At(a, "unregister")' \/ At(a, "unlist")')
  BY <1>1 DEF Offered
<1>3. x # "unlist"
  BY <1>1, <1>2, ThreadsAreDistinct DEF Writes
<1>4. CASE x = "list"
  <2>1. d = b
    BY <1>1, <1>2, <1>4 DEF Writes
  <2>2. bridge[b].enabled /\ bridge[b].discovery
    BY <1>1, <1>4 DEF Turn, Orderly, OnIsOn, Reg
  <2>. QED
    BY <1>1, <1>4, <2>1, <2>2 DEF Writes
<1>5. CASE x \in {"disable", "unlisten"} /\ d = b
  <2>1. t \in Admins
    BY <1>5, OffAlone
  <2>2. At(t, "unregister")'
    <3>1. new # {} /\ f = "unregister"
      BY <1>1, <1>5 DEF Leads
    <3>. QED
      BY <1>1, <3>1 DEF Turn
  <2>. QED
    BY <1>5, <2>1, <2>2
<1>6. CASE x # "list" /\ ~(x \in {"disable", "unlisten"} /\ d = b)
  <2>1. listed = d
    BY <1>1, <1>2, <1>3, <1>6 DEF Writes
  <2>2. CASE bridge[d].enabled /\ bridge[d].discovery
    BY <1>1, <1>6, <2>2 DEF Writes
  <2>3. CASE \E a \in Admins : of[a] = d /\ (At(a, "unregister") \/ At(a, "unlist"))
    <3>1. PICK a \in Admins : of[a] = d /\ (At(a, "unregister") \/ At(a, "unlist"))
      BY <2>3
    <3>2. a \in Threads
      BY DEF Threads
    <3>3. CASE a # t
      BY <1>1, <3>1, <3>2, <3>3 DEF Turn
    <3>4. CASE a = t
      <4>1. x = "unregister" /\ d = b
        BY <1>1, <1>3, <3>1, <3>4 DEF Turn
      <4>2. \A u \in Threads \ {t} : ~InCritical(u)
        BY <1>1, <4>1 DEF Finds, Clear
      <4>3. ~InCritical(t)
        BY <1>1, <4>1, CriticalTurn DEF Critical
      <4>4. bridge[b].flag
        BY <2>1, <4>1, <4>2, <4>3, FreeAgrees DEF Orderly
      <4>5. At(t, "unlist")'
        BY <1>1, <4>1, <4>4, CriticalTurn
      <4>. QED
        BY <3>1, <3>4, <4>5
    <3>. QED
      BY <3>3, <3>4
  <2>. QED
    BY <2>1, <2>2, <2>3 DEF Orderly, Offered
<1>. QED
  BY <1>4, <1>5, <1>6

LEMMA StepClosing ==
  ASSUME Typed, Ways, Orderly, NEW t \in Threads, NEW b \in Bridges, of[t] = b,
         NEW x, NEW new, NEW f, Does(t, b, x, new, f)
  PROVE  Closing'
<1>1. /\ Turn(t, x, new, f) /\ Leads(x, new, f) /\ Writes(t, b, x) /\ Finds(t, b, x, new)
      /\ of' = of /\ Lists
  BY DoesTurn
<1>2. SUFFICES ASSUME NEW d \in Bridges, bridge'[d].app # None
               PROVE  /\ bridge'[d].life # "stopped"
                      /\ bridge'[d].life = "stopping" =>
                           \E a \in Admins : of[a] = d /\ Holds(a, "close")'
  BY <1>1 DEF Closing
<1>3. CASE x = "install" /\ d = b
  <2>1. t \in Calls
    BY <1>1, <1>3, WhoHas DEF Turn
  <2>2. bridge[b].discovery
    BY <1>1, <2>1 DEF Turn, Orderly, OnIsOn
  <2>3. bridge[b].life = "up"
    BY <2>2 DEF Orderly, Succession
  <2>. QED
    BY <1>1, <1>3, <2>3 DEF Writes
<1>4. CASE ~(x = "install" /\ d = b)
  <2>1. bridge[d].app # None /\ ~(x = "close" /\ d = b)
    BY <1>1, <1>2, <1>4 DEF Writes
  <2>2. /\ bridge[d].life # "stopped"
        /\ bridge[d].life = "stopping" => \E a \in Admins : of[a] = d /\ Holds(a, "close")
    BY <2>1 DEF Orderly, Closing
  <2>3. CASE x \in {"stop", "stopped"} /\ d = b
    <3>1. t \in Admins
      <4>1. x \in AdminSteps \ (CallSteps \cup BridgeSteps)
        BY <2>3 DEF AdminSteps, CallSteps, BridgeSteps, Reg, Unreg
      <4>. QED
        BY <1>1, <4>1, WhoHas DEF Turn
    <3>2. CASE x = "stop"
      <4>1. Holds(t, "close")
        BY <1>1, <3>1, <3>2 DEF Turn, Ways
      <4>2. Holds(t, "close")'
        BY <1>1, <3>2, <4>1 DEF Turn
      <4>. QED
        BY <1>1, <2>3, <3>1, <3>2, <4>2 DEF Writes
    <3>3. CASE x = "stopped"
      <4>1. ~Holds(t, "stop") /\ ~Holds(t, "close")
        <5>1. "stop" \notin Behind("stopped") /\ "close" \notin Behind("stopped")
          BY DEF Behind, Reg, Unreg
        <5>. QED
          BY <1>1, <3>3, <5>1 DEF Turn
      <4>2. bridge[b].life = "stopping"
        BY <1>1, <2>2, <2>3, <3>1, <3>3, <4>1 DEF Turn, Ways
      <4>3. PICK a \in Admins : of[a] = b /\ Holds(a, "close")
        BY <2>2, <2>3, <4>2
      <4>4. a = t
        BY <1>1, <3>1, <4>3, Alone DEF Turn
      <4>. QED
        BY <4>1, <4>3, <4>4
    <3>. QED
      BY <2>3, <3>2, <3>3
  <2>4. CASE ~(x \in {"stop", "stopped"} /\ d = b)
    <3>1. bridge'[d].life = bridge[d].life
      BY <1>1, <2>4 DEF Writes
    <3>2. ASSUME NEW a \in Admins, of[a] = d, Holds(a, "close")
          PROVE  Holds(a, "close")'
      <4>1. a \in Threads
        BY DEF Threads
      <4>2. a = t => x # "close"
        BY <2>1, <3>2
      <4>. QED
        BY <1>1, <3>2, <4>1, <4>2 DEF Turn
    <3>. QED
      BY <2>2, <3>1, <3>2
  <2>. QED
    BY <2>3, <2>4
<1>. QED
  BY <1>3, <1>4

LEMMA StepOrderly ==
  ASSUME Typed, Ways, Orderly, NEW t \in Threads, NEW b \in Bridges, of[t] = b,
         NEW x, NEW new, NEW f, Does(t, b, x, new, f), crossed' = {}, cut' = {}
  PROVE  Orderly'
BY StepOneAdmin, StepExclusive, StepSuccession, StepAdminInv, StepOnIsOn, StepAgree,
   StepOffered, StepClosing DEF Orderly

LEMMA GivenOrderly ==
  ASSUME Typed, Ways, Orderly, NEW t \in Threads, NEW b \in Bridges, NEW S, NEW f,
         Given(t, b, S, f), crossed' = {}, cut' = {}
  PROVE  Orderly'
<1>1. Lists
  BY DEF Typed, Ways, Lists
<1>2. /\ \A z : ~At(t, z) /\ ~Holds(t, z)
      /\ todo[t] = << >> /\ todo'[t] # << >>
      /\ \A z : (Holds(t, z)' <=> z \in S) /\ (At(t, z)' <=> z = f)
      /\ \A u \in Threads \ {t} : todo'[u] = todo[u] /\ of'[u] = of[u]
      /\ \A u \in Threads \ {t} : \A z : (At(u, z)' <=> At(u, z)) /\ (Holds(u, z)' <=> Holds(u, z))
      /\ of'[t] = b
      /\ f \notin Reg \cup Unreg \cup {"connect", "install", "failed"}
  BY <1>1, GivenFrame
<1>3. \A c \in Bridges :
        /\ bridge'[c].life = bridge[c].life /\ bridge'[c].enabled = bridge[c].enabled
        /\ bridge'[c].discovery = bridge[c].discovery /\ bridge'[c].flag = bridge[c].flag
        /\ bridge'[c].app = bridge[c].app \/ bridge'[c].app = None
  BY DEF Given, Same
<1>4. /\ listed' = listed
      /\ t \in Admins => bridge[b].life = "up" /\ \A e \in Admins : todo[e] = << >>
      /\ t \in Calls => bridge[b].discovery
  BY DEF Given
<1>5. OneAdmin'
  <2>1. ASSUME NEW a \in Admins, NEW e \in Admins, todo'[a] # << >>, todo'[e] # << >>
        PROVE  a = e
    <3>1. a \in Threads /\ e \in Threads
      BY DEF Threads
    <3>. QED
      BY <1>2, <1>4, <2>1, <3>1 DEF Orderly, OneAdmin
  <2>. QED
    BY <2>1 DEF OneAdmin
<1>6. \A u \in Threads : \A z \in Critical : At(u, z)' <=> At(u, z)
  BY <1>2 DEF Critical, Reg, Unreg
<1>7. \A u \in Threads : InCritical(u)' <=> InCritical(u)
  BY <1>6 DEF InCritical
<1>8. Exclusive'
  BY <1>7 DEF Orderly, Exclusive
<1>9. Succession'
  BY <1>3 DEF Orderly, Succession
<1>10. AdminInv'
  <2>. SUFFICES ASSUME NEW a \in Admins, todo'[a] # << >>
                PROVE  /\ bridge'[of'[a]].life \in {"up", "stopping"}
                       /\ ~Holds(a, "stopped")' => bridge'[of'[a]].life = "up"
                       /\ Holds(a, "stop")' /\ ~Holds(a, "unlisten")' =>
                            ~bridge'[of'[a]].discovery
                       /\ \A z \in Unreg : At(a, z)' =>
                            ~(bridge'[of'[a]].enabled /\ bridge'[of'[a]].discovery)
    BY DEF AdminInv
  <2>1. a \in Threads
    BY DEF Threads
  <2>2. CASE a # t
    <3>1. todo[a] # << >> /\ of'[a] = of[a] /\ of[a] \in Bridges
      BY <1>2, <2>1, <2>2 DEF Typed
    <3>2. \A z : (At(a, z)' <=> At(a, z)) /\ (Holds(a, z)' <=> Holds(a, z))
      BY <1>2, <2>1, <2>2
    <3>3. /\ bridge[of[a]].life \in {"up", "stopping"}
          /\ ~Holds(a, "stopped") => bridge[of[a]].life = "up"
          /\ Holds(a, "stop") /\ ~Holds(a, "unlisten") => ~bridge[of[a]].discovery
          /\ \A z \in Unreg :
               At(a, z) => ~(bridge[of[a]].enabled /\ bridge[of[a]].discovery)
      BY <3>1 DEF Orderly, AdminInv
    <3>. QED
      BY <1>3, <3>1, <3>2, <3>3
  <2>3. CASE a = t
    <3>1. Task(S, f)
      BY <2>3, GivenKind
    <3>2. "stop" \in S => "unlisten" \in S
      BY <3>1 DEF Task
    <3>. QED
      BY <1>2, <1>3, <1>4, <2>3, <3>2
  <2>. QED
    BY <2>2, <2>3
<1>11. OnIsOn'
  <2>1. ASSUME NEW u \in Threads, NEW z \in Reg, At(u, z)'
        PROVE  bridge'[of'[u]].enabled /\ bridge'[of'[u]].discovery
    <3>1. u # t
      BY <1>2, <2>1
    <3>2. At(u, z) /\ of'[u] = of[u] /\ todo[u] # << >>
      BY <1>2, <2>1, <3>1 DEF At
    <3>3. of[u] \in Bridges
      BY <3>2 DEF Typed
    <3>4. bridge[of[u]].enabled /\ bridge[of[u]].discovery
      BY <3>2 DEF Orderly, OnIsOn
    <3>. QED
      BY <1>3, <3>2, <3>3, <3>4
  <2>2. ASSUME NEW c \in Calls, todo'[c] # << >>
        PROVE  bridge'[of'[c]].discovery /\ (~At(c, "answer")' => bridge'[of'[c]].enabled)
    <3>1. c \in Threads
      BY DEF Threads
    <3>2. CASE c # t
      <4>1. /\ of'[c] = of[c] /\ todo[c] # << >> /\ (At(c, "answer")' <=> At(c, "answer"))
            /\ of[c] \in Bridges
        BY <1>2, <2>2, <3>1, <3>2 DEF Typed
      <4>2. bridge[of[c]].discovery /\ (~At(c, "answer") => bridge[of[c]].enabled)
        BY <4>1 DEF Orderly, OnIsOn
      <4>. QED
        BY <1>3, <4>1, <4>2
    <3>3. CASE c = t
      <4>1. f = "answer"
        BY <2>2, <3>3, GivenKind
      <4>. QED
        BY <1>2, <1>3, <1>4, <3>3, <4>1
    <3>. QED
      BY <3>2, <3>3
  <2>. QED
    BY <2>1, <2>2 DEF OnIsOn
<1>12. Agree'
  <2>1. /\ "list" \in Critical /\ "mark" \in Critical /\ "unlist" \in Critical
        /\ "unmark" \in Critical
    BY DEF Critical
  <2>2. (\A u \in Threads : ~InCritical(u)' \/ At(u, "unlist")') =>
          \A d \in Bridges : bridge'[d].flag = (listed' = d)
    BY <1>3, <1>4, <1>6, <1>7, <2>1 DEF Orderly, Agree
  <2>3. ASSUME NEW u \in Threads
        PROVE  /\ At(u, "list")' => \A d \in Bridges : ~bridge'[d].flag
               /\ At(u, "unlist")' => listed' = of'[u]
               /\ At(u, "mark")' => listed' = of'[u] /\ \A d \in Bridges : ~bridge'[d].flag
               /\ At(u, "unmark")' =>
                    listed' = None /\ \A d \in Bridges : bridge'[d].flag = (of'[u] = d)
    <3>1. CASE u = t
      BY <1>2, <2>1, <3>1, <1>6
    <3>2. CASE u # t
      BY <1>2, <1>3, <1>4, <3>2 DEF Orderly, Agree
    <3>. QED
      BY <3>1, <3>2
  <2>. QED
    BY <2>2, <2>3 DEF Agree
<1>13. ASSUME NEW a \in Admins, NEW z, Holds(a, z)
       PROVE  of'[a] = of[a] /\ Holds(a, z)' /\ (At(a, z)' <=> At(a, z))
  <2>1. a \in Threads /\ a # t
    BY <1>2, <1>13 DEF Threads
  <2>. QED
    BY <1>2, <1>13, <2>1
<1>14. Offered'
  <2>. SUFFICES ASSUME NEW d \in Bridges, listed' = d
                PROVE  \/ bridge'[d].enabled /\ bridge'[d].discovery
                       \/ \E a \in Admins : of'[a] = d /\ (At(a, "unregister")' \/ At(a, "unlist")')
    BY DEF Offered
  <2>1. CASE bridge[d].enabled /\ bridge[d].discovery
    BY <1>3, <2>1
  <2>2. CASE \E a \in Admins : of[a] = d /\ (At(a, "unregister") \/ At(a, "unlist"))
    <3>1. PICK a \in Admins : of[a] = d /\ (At(a, "unregister") \/ At(a, "unlist"))
      BY <2>2
    <3>2. a \in Threads /\ a # t
      BY <1>2, <3>1 DEF Threads
    <3>. QED
      BY <1>2, <3>1, <3>2
  <2>. QED
    BY <1>4, <2>1, <2>2 DEF Orderly, Offered
<1>15. Closing'
  <2>. SUFFICES ASSUME NEW d \in Bridges, bridge'[d].app # None
                PROVE  /\ bridge'[d].life # "stopped"
                       /\ bridge'[d].life = "stopping" =>
                            \E a \in Admins : of'[a] = d /\ Holds(a, "close")'
    BY DEF Closing
  <2>1. bridge[d].app # None
    BY <1>3
  <2>2. /\ bridge[d].life # "stopped"
        /\ bridge[d].life = "stopping" => \E a \in Admins : of[a] = d /\ Holds(a, "close")
    BY <2>1 DEF Orderly, Closing
  <2>. QED
    BY <1>3, <1>13, <2>2
<1>. QED
  BY <1>5, <1>8, <1>9, <1>10, <1>11, <1>12, <1>14, <1>15 DEF Orderly

LEMMA StaysOrderly ==
  ASSUME Typed, Ways, Orderly, NEW b \in Bridges, Stays(b)
  PROVE  Orderly'
<1>1. /\ UNCHANGED << todo, listed, of >>
      /\ \A u, z : (Holds(u, z)' <=> Holds(u, z)) /\ (At(u, z)' <=> At(u, z))
  BY DEF Stays, Holds, At
<1>2. \A c \in Bridges :
        /\ bridge'[c].enabled = bridge[c].enabled
        /\ bridge'[c].discovery = bridge[c].discovery /\ bridge'[c].flag = bridge[c].flag
        /\ bridge'[c].app = bridge[c].app
  BY DEF Stays, Same
<1>3. \/ \A c \in Bridges : bridge'[c].life = bridge[c].life
      \/ /\ bridge[b].life = "new" /\ bridge'[b].life = "up"
         /\ \A c \in Bridges : c # b => bridge'[c].life = bridge[c].life
         /\ \A d \in Bridges : d < b => bridge[d].life = "stopped"
  BY DEF Stays, Same
<1>4. \A c \in Bridges : bridge[c].life # "new" => bridge'[c].life = bridge[c].life
  BY <1>3
<1>5. \A u : InCritical(u)' <=> InCritical(u)
  BY <1>1 DEF InCritical
<1>6. OneAdmin' /\ Exclusive'
  BY <1>1, <1>5 DEF Orderly, OneAdmin, Exclusive
<1>7. Succession'
  <2>1. ASSUME NEW c \in Bridges, NEW d \in Bridges, c < d, bridge'[d].life # "new"
        PROVE  bridge'[c].life = "stopped"
    <3>1. c \in Nat /\ d \in Nat /\ b \in Nat
      BY BridgesAssumption
    <3>2. CASE bridge[d].life # "new"
      <4>1. bridge[c].life = "stopped"
        BY <2>1, <3>2 DEF Orderly, Succession
      <4>. QED
        BY <1>4, <4>1
    <3>3. CASE bridge[d].life = "new"
      <4>1. d = b /\ bridge[c].life = "stopped"
        BY <1>3, <2>1, <3>3
      <4>. QED
        BY <1>4, <4>1
    <3>. QED
      BY <3>2, <3>3
  <2>2. \A c \in Bridges : bridge'[c].discovery => bridge'[c].life = "up"
    BY <1>2, <1>4 DEF Orderly, Succession
  <2>. QED
    BY <2>1, <2>2 DEF Succession
<1>8. AdminInv'
  <2>. SUFFICES ASSUME NEW a \in Admins, todo[a] # << >>
                PROVE  /\ bridge'[of[a]].life \in {"up", "stopping"}
                       /\ ~Holds(a, "stopped") => bridge'[of[a]].life = "up"
                       /\ Holds(a, "stop") /\ ~Holds(a, "unlisten") => ~bridge'[of[a]].discovery
                       /\ \A z \in Unreg : At(a, z) =>
                            ~(bridge'[of[a]].enabled /\ bridge'[of[a]].discovery)
    BY <1>1 DEF AdminInv
  <2>1. of[a] \in Bridges
    BY DEF Typed, Threads
  <2>2. /\ bridge[of[a]].life \in {"up", "stopping"}
        /\ ~Holds(a, "stopped") => bridge[of[a]].life = "up"
        /\ Holds(a, "stop") /\ ~Holds(a, "unlisten") => ~bridge[of[a]].discovery
        /\ \A z \in Unreg :
             At(a, z) => ~(bridge[of[a]].enabled /\ bridge[of[a]].discovery)
    BY DEF Orderly, AdminInv
  <2>. QED
    BY <1>2, <1>4, <2>1, <2>2
<1>9. OnIsOn'
  <2>1. ASSUME NEW u \in Threads, NEW z \in Reg, At(u, z)
        PROVE  bridge'[of[u]].enabled /\ bridge'[of[u]].discovery
    <3>1. of[u] \in Bridges
      BY <2>1 DEF Typed, At
    <3>. QED
      BY <1>2, <2>1, <3>1 DEF Orderly, OnIsOn
  <2>2. ASSUME NEW c \in Calls, todo[c] # << >>
        PROVE  bridge'[of[c]].discovery /\ (~At(c, "answer") => bridge'[of[c]].enabled)
    <3>1. of[c] \in Bridges
      BY <2>2 DEF Typed, Threads
    <3>. QED
      BY <1>2, <2>2, <3>1 DEF Orderly, OnIsOn
  <2>. QED
    BY <1>1, <2>1, <2>2 DEF OnIsOn
<1>10. Agree'
  BY <1>1, <1>2, <1>5 DEF Orderly, Agree
<1>11. Offered'
  BY <1>1, <1>2 DEF Orderly, Offered
<1>12. Closing'
  <2>. SUFFICES ASSUME NEW d \in Bridges, bridge'[d].app # None
                PROVE  /\ bridge'[d].life # "stopped"
                       /\ bridge'[d].life = "stopping" =>
                            \E a \in Admins : of[a] = d /\ Holds(a, "close")
    BY <1>1 DEF Closing
  <2>1. /\ bridge[d].life # "stopped"
        /\ bridge[d].life = "stopping" => \E a \in Admins : of[a] = d /\ Holds(a, "close")
    BY <1>2 DEF Orderly, Closing
  <2>. QED
    BY <1>3, <2>1
<1>. QED
  BY <1>6, <1>7, <1>8, <1>9, <1>10, <1>11, <1>12 DEF Orderly

-----------------------------------------------------------------------------
(* A hub that is on and free is offered, or will be.                         *)

Promising == {"unlist", "unmark", "connect", "install", "failed", "register", "list"}

LEMMA PromisesMeans ==
  ASSUME NEW u
  PROVE  /\ Promises(u) <=> /\ ~Holds(u, "tell up")
                            /\ (\E z \in Promising : At(u, z)) \/ (u \in Bridges /\ At(u, "down"))
         /\ Promises(u)' <=> /\ ~Holds(u, "tell up")'
                             /\ (\E z \in Promising : At(u, z)') \/ (u \in Bridges /\ At(u, "down")')
BY DEF Promises, Promising

\* A hub that has just become on and free is about to be registered, or is.
LEMMA PromiseBegins ==
  ASSUME Typed, Ways, Orderly, NEW t \in Threads, NEW b \in Bridges, of[t] = b,
         NEW x, NEW new, NEW f, Does(t, b, x, new, f), cut' = {},
         ~(bridge[b].enabled /\ bridge[b].discovery /\ bridge[b].app = None),
         bridge'[b].enabled, bridge'[b].discovery, bridge'[b].app = None
  PROVE  listed' = b \/ Promises(t)'
<1>1. /\ Turn(t, x, new, f) /\ Leads(x, new, f) /\ Writes(t, b, x) /\ Finds(t, b, x, new)
      /\ of' = of
  BY DoesTurn
<1>2. /\ x \in {"enable", "listen", "close"}
      /\ x = "enable" => bridge[b].discovery /\ bridge[b].app = None /\ ~bridge[b].enabled
      /\ x = "listen" => bridge[b].enabled /\ bridge[b].app = None
      /\ x = "close" => bridge[b].discovery
  <2>1. t # None
    BY ThreadsAreDistinct DEF Threads
  <2>2. x # "install"
    BY <1>1, <2>1 DEF Writes
  <2>3. x # "disable" /\ x # "unlisten"
    BY <1>1 DEF Writes
  <2>4. /\ x # "enable" => bridge'[b].enabled = bridge[b].enabled
        /\ x # "listen" => bridge'[b].discovery = bridge[b].discovery
        /\ x # "close" => bridge'[b].app = bridge[b].app
    BY <1>1, <2>2, <2>3 DEF Writes
  <2>. QED
    BY <2>4
<1>3. t \in Admins
  <2>1. x \in AdminSteps \ (CallSteps \cup BridgeSteps)
    BY <1>2 DEF AdminSteps, CallSteps, BridgeSteps, Reg, Unreg
  <2>. QED
    BY <1>1, <2>1, WhoHas DEF Turn
<1>4. x # "close"
  <2>1. ASSUME x = "close" PROVE FALSE
    <3>1. bridge[b].life = "up"
      BY <1>2, <2>1 DEF Orderly, Succession
    <3>2. ~Holds(t, "stop")
      <4>1. "stop" \notin Behind("close")
        BY DEF Behind, Reg, Unreg
      <4>. QED
        BY <1>1, <2>1, <4>1 DEF Turn
    <3>3. Holds(t, "stopped")
      BY <1>1, <1>3, <2>1 DEF Turn, Ways
    <3>. QED
      BY <1>3, <3>1, <3>2, <3>3 DEF Ways
  <2>. QED
    BY <2>1
<1>5. ASSUME new # {} PROVE Promises(t)'
  <2>1. At(t, "register")'
    BY <1>1, <1>2, <1>4, <1>5 DEF Leads, Turn
  <2>2. ~Holds(t, "tell up")'
    <3>1. "tell up" \notin new
      BY <1>1, <1>2, LeadsAdds
    <3>2. ~Holds(t, "tell up")
      <4>1. t \notin Calls
        BY <1>3, ThreadsAreDistinct
      <4>. QED
        BY <4>1, WhoHas
    <3>. QED
      BY <1>1, <3>1, <3>2 DEF Turn
  <2>. QED
    BY <2>1, <2>2, PromisesMeans DEF Promising
<1>6. ASSUME new = {} PROVE listed' = b
  <2>1. x = "enable" /\ bridge[b].flag
    BY <1>1, <1>2, <1>4, <1>6 DEF Finds
  <2>2. ~bridge[b].enabled
    BY <1>2, <2>1
  <2>3. Agree
    BY DEF Orderly
  <2>4. \A u \in Threads : ~At(u, "list") /\ ~At(u, "mark")
    BY <2>1, <2>3 DEF Agree
  <2>5. ASSUME NEW u \in Threads, At(u, "unmark") PROVE FALSE
    <3>1. of[u] = b
      BY <2>1, <2>3, <2>5 DEF Agree
    <3>2. u \notin Admins
      <4>1. u # t
        BY <1>1, <2>1, <2>5 DEF Turn
      <4>. QED
        BY <1>1, <1>3, <2>5, <4>1, Alone DEF Turn
    <3>3. Holds(u, "unmark") /\ todo[u] # << >>
      BY <1>1, <2>5, DoesTurn, Idle
    <3>4. u \notin Bridges
      <4>1. "unmark" \notin BridgeSteps
        BY DEF BridgeSteps, Reg
      <4>. QED
        BY <3>3, <4>1, WhoHas
    <3>5. u \in Calls /\ ~At(u, "answer")
      BY <2>5, <3>2, <3>4 DEF Threads, At
    <3>. QED
      BY <2>2, <3>1, <3>3, <3>5 DEF Orderly, OnIsOn
  <2>6. \A u \in Threads : ~InCritical(u) \/ At(u, "unlist")
    BY <2>4, <2>5 DEF InCritical, Critical
  <2>7. listed = b
    BY <2>1, <2>3, <2>6 DEF Agree
  <2>. QED
    BY <1>1, <2>1, <2>7 DEF Writes
<1>. QED
  BY <1>5, <1>6

\* A thread that has promised keeps its promise, or promises still.
LEMMA PromiseGoesOn ==
  ASSUME Typed, Ways, Orderly, NEW t \in Threads, NEW b \in Bridges, of[t] = b,
         NEW x, NEW new, NEW f, Does(t, b, x, new, f), crossed' = {},
         bridge[b].enabled, bridge[b].discovery, bridge[b].app = None,
         bridge'[b].app = None, Promises(t)
  PROVE  listed' = b \/ Promises(t)'
<1>1. /\ Turn(t, x, new, f) /\ Leads(x, new, f) /\ Writes(t, b, x) /\ Finds(t, b, x, new)
      /\ of' = of /\ Lists /\ Lists'
  BY DoesTurn
<1>2. ~Holds(t, "tell up") /\ (x \in Promising \/ (t \in Bridges /\ x = "down"))
  BY <1>1, PromisesMeans DEF Turn
<1>3. x # "install"
  <2>1. t # None
    BY ThreadsAreDistinct DEF Threads
  <2>. QED
    BY <1>1, <2>1 DEF Writes
<1>4. ~Holds(t, "tell up")'
  <2>1. "tell up" \notin new
    BY <1>1, <1>3, LeadsAdds
  <2>. QED
    BY <1>1, <1>2, <2>1 DEF Turn
<1>5. ASSUME NEW z \in Promising, At(t, z)' PROVE Promises(t)'
  BY <1>4, <1>5, PromisesMeans
<1>6. CASE x \in {"unlist", "connect", "failed", "down"}
  <2>1. new # {}
    BY <1>1, <1>6 DEF Leads, Finds
  <2>2. f \in Promising
    BY <1>1, <1>6, <2>1 DEF Leads, Promising
  <2>. QED
    BY <1>1, <1>5, <2>1, <2>2 DEF Turn
<1>7. CASE x = "unmark"
  <2>1. ~Holds(t, "answer") /\ At(t, "unmark") /\ todo[t] # << >>
    <3>1. "answer" \notin Behind("unmark")
      BY NeverBehind
    <3>. QED
      BY <1>1, <1>7, <3>1 DEF Turn
  <2>2. t \notin Admins
    BY <2>1 DEF Orderly, AdminInv, Unreg
  <2>3. t \notin Bridges
    <3>1. "unmark" \notin BridgeSteps
      BY DEF BridgeSteps, Reg
    <3>. QED
      BY <1>1, <1>7, <3>1, WhoHas DEF Turn
  <2>4. t \in Calls
    BY <2>2, <2>3 DEF Threads
  <2>5. Holds(t, "connect")
    BY <1>2, <2>1, <2>4 DEF Ways, Unreg
  <2>6. Holds(t, "connect")'
    BY <1>1, <1>7, <2>5 DEF Turn
  <2>7. PICK z : At(t, z)'
    <3>1. todo'[t] # << >>
      BY <2>6 DEF Holds
    <3>. QED
      BY <1>1, <3>1 DEF Turn
  <2>8. z = "connect"
    <3>1. new = {}
      BY <1>1, <1>7 DEF Leads
    <3>2. Holds(t, z) /\ z \in Behind("unmark") /\ Holds(t, z)'
      BY <1>1, <1>7, <2>7, <3>1 DEF Turn
    <3>3. z \in CallSteps
      BY <2>4, <3>2, WhoHas
    <3>4. z \in {"connect", "tell up"}
      <4>1. Behind("unmark") = {"unlisten", "withdraw", "announce", "note off", "stop", "close",
                                "stopped", "connect", "tell up"}
        BY DEF Behind, Reg, Unreg
      <4>. QED
        BY <3>2, <3>3, <4>1 DEF CallSteps, Reg, Unreg
    <3>. QED
      BY <1>4, <3>2, <3>4
  <2>. QED
    BY <1>5, <2>7, <2>8 DEF Promising
<1>8. CASE x = "register"
  <2>1. CASE bridge[b].flag
    <3>1. \A u \in Threads \ {t} : ~InCritical(u)
      BY <1>1, <1>8 DEF Finds, Clear
    <3>2. ~InCritical(t)
      BY <1>1, <1>8, CriticalTurn DEF Critical
    <3>3. listed = b
      BY <2>1, <3>1, <3>2, FreeAgrees DEF Orderly
    <3>. QED
      BY <1>1, <1>8, <3>3 DEF Writes
  <2>2. CASE ~bridge[b].flag
    <3>1. At(t, "list")'
      BY <1>1, <1>8, <2>2, CriticalTurn
    <3>. QED
      BY <1>5, <3>1 DEF Promising
  <2>. QED
    BY <2>1, <2>2
<1>9. CASE x = "list"
  BY <1>1, <1>9 DEF Writes
<1>. QED
  BY <1>2, <1>3, <1>6, <1>7, <1>8, <1>9 DEF Promising

\* What is no longer offered is about to be offered again.
LEMMA PromiseReturns ==
  ASSUME Typed, Ways, TellingInv, Orderly, NEW t \in Threads, NEW b \in Bridges, of[t] = b,
         NEW x, NEW new, NEW f, Does(t, b, x, new, f), late = {},
         NEW d \in Bridges, bridge[d].enabled, bridge[d].discovery, bridge[d].app = None,
         listed = d
  PROVE  listed' = d \/ (d = b /\ Promises(t)')
<1>1. /\ Turn(t, x, new, f) /\ Leads(x, new, f) /\ Writes(t, b, x) /\ Finds(t, b, x, new)
      /\ of' = of /\ Lists /\ Lists'
  BY DoesTurn
<1>2. CASE x = "list"
  <2>1. bridge[b].discovery
    BY <1>1, <1>2 DEF Turn, Orderly, OnIsOn, Reg
  <2>2. bridge[b].life = "up" /\ bridge[d].life = "up"
    BY <2>1 DEF Orderly, Succession
  <2>3. b = d
    BY <2>2, OneLives DEF Orderly
  <2>. QED
    BY <1>1, <1>2, <2>3 DEF Writes
<1>3. CASE x = "unlist"
  <2>1. d = b
    BY <1>1, <1>3 DEF Turn, Orderly, Agree
  <2>2. t \notin Admins
    BY <1>1, <1>3, <2>1 DEF Turn, Orderly, AdminInv, Unreg
  <2>3. t \notin Bridges
    <3>1. "unlist" \notin BridgeSteps
      BY DEF BridgeSteps, Reg
    <3>. QED
      BY <1>1, <1>3, <3>1, WhoHas DEF Turn
  <2>4. t \in Calls
    BY <2>2, <2>3 DEF Threads
  <2>5. ~Holds(t, "tell up")
    BY <2>1, <2>4 DEF TellingInv, Unannounced
  <2>6. ~Holds(t, "tell up")'
    <3>1. "tell up" \notin new
      BY <1>1, <1>3, LeadsAdds
    <3>. QED
      BY <1>1, <2>5, <3>1 DEF Turn
  <2>7. At(t, "unmark")'
    BY <1>1, <1>3, CriticalTurn
  <2>. QED
    BY <2>1, <2>6, <2>7, PromisesMeans DEF Promising
<1>. QED
  BY <1>1, <1>2, <1>3 DEF Writes

LEMMA StepPromise ==
  ASSUME Typed, Ways, TellingInv, Orderly, Promise,
         NEW t \in Threads, NEW b \in Bridges, of[t] = b,
         NEW x, NEW new, NEW f, Does(t, b, x, new, f),
         crossed' = {}, cut' = {}, late' = {}
  PROVE  Promise'
<1>1. /\ Turn(t, x, new, f) /\ Leads(x, new, f) /\ Writes(t, b, x) /\ Finds(t, b, x, new)
      /\ of' = of
  BY DoesTurn
<1>2. late = {}
  BY <1>1 DEF Finds
<1>3. \A u \in Threads \ {t} : Promises(u)' <=> Promises(u)
  BY <1>1, PromisesMeans DEF Turn
<1>. SUFFICES ASSUME NEW d \in Bridges, bridge'[d].enabled, bridge'[d].discovery,
                     bridge'[d].app = None
              PROVE  listed' = d \/ \E u \in Threads : of[u] = d /\ Promises(u)'
  BY <1>1 DEF Promise
<1>4. CASE ~(bridge[d].enabled /\ bridge[d].discovery /\ bridge[d].app = None)
  <2>1. d = b
    BY <1>1, <1>4 DEF Writes
  <2>. QED
    BY <1>4, <2>1, PromiseBegins
<1>5. CASE bridge[d].enabled /\ bridge[d].discovery /\ bridge[d].app = None
  <2>1. CASE listed = d
    BY <1>2, <1>5, <2>1, PromiseReturns
  <2>2. CASE \E u \in Threads : of[u] = d /\ Promises(u)
    <3>1. PICK u \in Threads : of[u] = d /\ Promises(u)
      BY <2>2
    <3>2. CASE u # t
      BY <1>3, <3>1, <3>2
    <3>3. CASE u = t
      BY <1>5, <3>1, <3>3, PromiseGoesOn
    <3>. QED
      BY <3>2, <3>3
  <2>. QED
    BY <1>5, <2>1, <2>2 DEF Promise
<1>. QED
  BY <1>4, <1>5

LEMMA GivenPromise ==
  ASSUME Typed, Ways, Promise, NEW t \in Threads, NEW b \in Bridges, NEW S, NEW f,
         Given(t, b, S, f)
  PROVE  Promise'
<1>1. Lists
  BY DEF Typed, Ways, Lists
<1>2. /\ \A z : ~At(t, z)
      /\ \A z : (Holds(t, z)' <=> z \in S) /\ (At(t, z)' <=> z = f)
      /\ \A u \in Threads \ {t} : of'[u] = of[u]
      /\ \A u \in Threads \ {t} : \A z : (At(u, z)' <=> At(u, z)) /\ (Holds(u, z)' <=> Holds(u, z))
      /\ of'[t] = b /\ "tell up" \notin S
  BY <1>1, GivenFrame
<1>3. ASSUME NEW u \in Threads, Promises(u) PROVE Promises(u)' /\ of'[u] = of[u]
  <2>1. \/ \E z \in Promising : At(u, z)
        \/ u \in Bridges /\ At(u, "down")
    BY <1>3, PromisesMeans
  <2>2. u # t
    BY <1>2, <2>1
  <2>3. (\E z \in Promising : At(u, z)') \/ (u \in Bridges /\ At(u, "down")')
    BY <1>2, <2>1, <2>2
  <2>4. ~Holds(u, "tell up")'
    BY <1>2, <1>3, <2>2, PromisesMeans
  <2>. QED
    BY <1>2, <2>2, <2>3, <2>4, PromisesMeans
<1>. SUFFICES ASSUME NEW d \in Bridges, bridge'[d].enabled, bridge'[d].discovery,
                     bridge'[d].app = None
              PROVE  listed' = d \/ \E u \in Threads : of'[u] = d /\ Promises(u)'
  BY DEF Promise
<1>4. /\ bridge[d].enabled /\ bridge[d].discovery /\ listed' = listed
      /\ bridge'[d].app = bridge[d].app \/ (t \in Bridges /\ d = b)
  BY DEF Given, Same
<1>5. CASE t \in Bridges /\ d = b
  <2>1. f = "down"
    BY <1>5, GivenKind
  <2>2. At(t, "down")' /\ ~Holds(t, "tell up")'
    BY <1>2, <2>1
  <2>3. Promises(t)'
    BY <1>5, <2>2, PromisesMeans
  <2>. QED
    BY <1>2, <1>5, <2>3
<1>6. CASE ~(t \in Bridges /\ d = b)
  <2>1. listed = d \/ \E u \in Threads : of[u] = d /\ Promises(u)
    BY <1>4, <1>6 DEF Promise
  <2>. QED
    BY <1>3, <1>4, <2>1
<1>. QED
  BY <1>5, <1>6

LEMMA StaysPromise ==
  ASSUME Promise, NEW b \in Bridges, Stays(b)
  PROVE  Promise'
<1>1. UNCHANGED << todo, listed, of >>
  BY DEF Stays
<1>2. \A u : Promises(u)' <=> Promises(u)
  BY <1>1 DEF Promises, Holds, At
<1>3. \A c \in Bridges :
        /\ bridge'[c].enabled = bridge[c].enabled
        /\ bridge'[c].discovery = bridge[c].discovery /\ bridge'[c].app = bridge[c].app
  BY DEF Stays, Same
<1>. QED
  BY <1>1, <1>2, <1>3 DEF Promise

-----------------------------------------------------------------------------
(* The invariant, and what follows from it.                                  *)

LEMMA SessionInit == ASSUME Init PROVE SessionInv
<1>1. \A t \in Threads : todo[t] = << >>
  BY DEF Init
<1>2. \A t \in Threads : \A z : ~At(t, z) /\ ~Holds(t, z)
  BY <1>1 DEF At, Holds
<1>3. Bridges \subseteq Threads /\ Calls \subseteq Threads /\ Admins \subseteq Threads
  BY DEF Threads
<1>4. NewBridge \in BridgeState
  BY DEF NewBridge, BridgeState
<1>5. \A b \in Bridges :
        /\ bridge[b].life = "new" /\ ~bridge[b].discovery /\ ~bridge[b].flag
        /\ bridge[b].app = None /\ ~bridge[b].told
  BY DEF Init, NewBridge
<1>6. Typed
  <2>1. bridge \in [Bridges -> BridgeState]
    BY <1>4 DEF Init
  <2>2. todo \in [Threads -> Seq(Steps)]
    BY DEF Init
  <2>3. of \in [Threads -> Bridges \cup {None}] /\ \A b \in Bridges : of[b] = b
    BY <1>3 DEF Init
  <2>4. listed \in Bridges \cup {None} /\ setting \in BOOLEAN
    BY DEF Init
  <2>. QED
    BY <1>1, <2>1, <2>2, <2>3, <2>4 DEF Typed
<1>7. Ways
  <2>1. \A t \in Threads : Ordered(todo[t])
    BY <1>1 DEF Ordered
  <2>. QED
    BY <1>2, <1>3, <2>1 DEF Ways
<1>8. TellingInv
  BY <1>2, <1>3, <1>5 DEF TellingInv, Unannounced
<1>9. Orderly
  <2>1. OneAdmin /\ AdminInv
    BY <1>1, <1>3 DEF OneAdmin, AdminInv
  <2>2. \A t \in Threads : ~InCritical(t)
    BY <1>2 DEF InCritical
  <2>3. Exclusive
    BY <2>2 DEF Exclusive
  <2>4. Succession
    BY <1>5 DEF Succession
  <2>5. OnIsOn
    BY <1>1, <1>2, <1>3 DEF OnIsOn
  <2>6. listed = None /\ \A d \in Bridges : d # None
    BY ThreadsAreDistinct DEF Init
  <2>7. Agree
    <3>1. \A d \in Bridges : bridge[d].flag = FALSE
      BY DEF Init, NewBridge
    <3>. QED
      BY <1>2, <2>6, <3>1 DEF Agree
  <2>8. Offered /\ Closing
    BY <1>5, <2>6 DEF Offered, Closing
  <2>. QED
    BY <2>1, <2>3, <2>4, <2>5, <2>7, <2>8 DEF Orderly
<1>10. Promise
  BY <1>5 DEF Promise
<1>. QED
  BY <1>6, <1>7, <1>8, <1>9, <1>10 DEF SessionInv

LEMMA SessionNext == ASSUME SessionInv, Next PROVE SessionInv'
<1>1. Typed /\ Ways /\ TellingInv /\ Lists
  BY DEF SessionInv, Typed, Ways, Lists
<1>2. setting' \in BOOLEAN
  BY <1>1, SettingTyped
<1>3. crossed = {} /\ cut = {} => Orderly
  BY DEF SessionInv
<1>4. crossed = {} /\ cut = {} /\ late = {} => Promise
  BY DEF SessionInv
<1>5. ASSUME NEW t \in Threads, NEW b \in Bridges, of[t] = b, NEW x, NEW new, NEW f,
             Does(t, b, x, new, f)
      PROVE  SessionInv'
  <2>1. Finds(t, b, x, new)
    BY <1>5 DEF Does
  <2>2. /\ crossed' = {} => crossed = {}
        /\ cut' = {} => cut = {}
        /\ late' = {} => late = {}
    BY <2>1 DEF Finds
  <2>3. Typed' /\ Ways' /\ TellingInv'
    BY <1>1, <1>2, <1>5, StepTyped, StepWays, StepTelling
  <2>4. crossed' = {} /\ cut' = {} => Orderly'
    BY <1>1, <1>3, <1>5, <2>2, StepOrderly
  <2>5. crossed' = {} /\ cut' = {} /\ late' = {} => Promise'
    BY <1>1, <1>3, <1>4, <1>5, <2>2, StepPromise
  <2>. QED
    BY <2>3, <2>4, <2>5 DEF SessionInv
<1>6. ASSUME NEW t \in Threads, NEW b \in Bridges, NEW S, NEW f, Given(t, b, S, f)
      PROVE  SessionInv'
  <2>1. /\ crossed' = {} => crossed = {}
        /\ cut' = {} => cut = {}
        /\ late' = {} => late = {}
    BY <1>6 DEF Given
  <2>2. Typed' /\ Ways' /\ TellingInv'
    BY <1>1, <1>2, <1>6, GivenTyped, GivenWays, GivenTelling
  <2>3. crossed' = {} /\ cut' = {} => Orderly'
    BY <1>1, <1>3, <1>6, <2>1, GivenOrderly
  <2>4. crossed' = {} /\ cut' = {} /\ late' = {} => Promise'
    BY <1>1, <1>4, <1>6, <2>1, GivenPromise
  <2>. QED
    BY <2>2, <2>3, <2>4 DEF SessionInv
<1>7. ASSUME NEW b \in Bridges, Stays(b) PROVE SessionInv'
  <2>1. UNCHANGED << late, cut, crossed >>
    BY <1>7 DEF Stays
  <2>2. Typed' /\ Ways' /\ TellingInv'
    BY <1>1, <1>2, <1>7, StaysKept
  <2>3. crossed' = {} /\ cut' = {} => Orderly'
    BY <1>1, <1>3, <1>7, <2>1, StaysOrderly
  <2>4. crossed' = {} /\ cut' = {} /\ late' = {} => Promise'
    BY <1>4, <1>7, <2>1, StaysPromise
  <2>. QED
    BY <2>2, <2>3, <2>4 DEF SessionInv
<1>. QED
  BY <1>1, <1>5, <1>6, <1>7, NextDoes

LEMMA SessionStutter == ASSUME SessionInv, UNCHANGED vars PROVE SessionInv'
<1>1. UNCHANGED << bridge, listed, setting, todo, of, late, cut, crossed >>
  BY DEF vars, others, base
<1>2. Typed' /\ Ways'
  <2>1. Typed' <=> Typed
    BY <1>1 DEF Typed
  <2>2. Ways' <=> Ways
    BY <1>1 DEF Ways, Holds, At
  <2>. QED
    BY <2>1, <2>2 DEF SessionInv
<1>3. TellingInv'
  <2>1. TellingInv' <=> TellingInv
    BY <1>1 DEF TellingInv, Unannounced, Holds
  <2>. QED
    BY <2>1 DEF SessionInv
<1>4. Orderly' <=> Orderly
  BY <1>1 DEF Orderly, OneAdmin, Exclusive, Succession, AdminInv, OnIsOn, Agree, Offered,
              Closing, InCritical, Holds, At
<1>5. Promise' <=> Promise
  BY <1>1 DEF Promise, Promises, Holds, At
<1>. QED
  BY <1>1, <1>2, <1>3, <1>4, <1>5 DEF SessionInv

\* The invariant the properties follow from, in every reachable state of the
\* bridges, the demuxer and the threads that work on them.
THEOREM SessionInvariant == Spec => []SessionInv
<1>1. Init => SessionInv
  BY SessionInit
<1>2. SessionInv /\ [Next]_vars => SessionInv'
  BY SessionNext, SessionStutter
<1>. QED
  BY <1>1, <1>2, PTL DEF Spec

LEMMA NothingHeld ==
  ASSUME Settled
  PROVE  \A t \in Threads : \A z : ~At(t, z) /\ ~Holds(t, z)
BY DEF Settled, At, Holds

\* Whatever the switch, the announcements and the app do, the listeners of the
\* session were last told what is so, when all is done and no session ended
\* before its own thread had announced it (_notify_client_state).
THEOREM ToldWhatIsSo == Spec => []ToldIsTrue
<1>1. ASSUME SessionInv PROVE ToldIsTrue
  <2>. SUFFICES ASSUME Settled, late = {}, NEW b \in Bridges
                PROVE  bridge[b].told = (bridge[b].app # None)
    BY DEF ToldIsTrue
  <2>1. \A t \in Threads : \A z : ~Holds(t, z)
    BY NothingHeld
  <2>2. ~Unannounced(b)
    BY <2>1 DEF Unannounced, Threads
  <2>3. bridge[b].told \in BOOLEAN
    BY <1>1 DEF SessionInv, Typed, BridgeState
  <2>4. /\ bridge[b].app = None => ~bridge[b].told
        /\ bridge[b].app # None => bridge[b].told
    BY <1>1, <2>1, <2>2 DEF SessionInv, TellingInv
  <2>. QED
    BY <2>3, <2>4
<1>. QED
  BY <1>1, SessionInvariant, PTL

\* A hub whose proxy is off or whose bridge has stopped is not offered by the
\* demuxer, and a stopped bridge has no session, however many bridges, threads
\* and CALL_MEs there were, unless threads crossed or were cut off.
THEOREM OffIsHidden == Spec => []HiddenWhenOff
<1>1. ASSUME SessionInv PROVE HiddenWhenOff
  <2>. SUFFICES ASSUME Settled, crossed = {}, cut = {}
                PROVE  /\ listed # None => /\ bridge[listed].enabled /\ bridge[listed].discovery
                                           /\ bridge[listed].life = "up"
                       /\ \A b \in Bridges : bridge[b].life = "stopped" => bridge[b].app = None
    BY DEF HiddenWhenOff
  <2>1. Orderly /\ listed \in Bridges \cup {None}
    BY <1>1 DEF SessionInv, Typed
  <2>2. \A t \in Threads : \A z : ~At(t, z)
    BY NothingHeld
  <2>3. listed # None => bridge[listed].enabled /\ bridge[listed].discovery
    BY <2>1, <2>2 DEF Orderly, Offered, Threads
  <2>4. listed # None => bridge[listed].life = "up"
    BY <2>1, <2>3 DEF Orderly, Succession
  <2>5. \A b \in Bridges : bridge[b].life = "stopped" => bridge[b].app = None
    BY <2>1 DEF Orderly, Closing
  <2>. QED
    BY <2>3, <2>4, <2>5
<1>. QED
  BY <1>1, SessionInvariant, PTL

\* After every session and every attempt that failed the demuxer holds the
\* registration again, so that the app finds the hub; unless threads crossed,
\* were cut off, or announced a session that had ended.
THEOREM FreeIsOffered == Spec => []FoundAgain
<1>1. ASSUME SessionInv PROVE FoundAgain
  <2>. SUFFICES ASSUME Settled, late = {}, crossed = {}, cut = {}, NEW b \in Bridges,
                       bridge[b].life = "up", bridge[b].enabled, bridge[b].discovery,
                       bridge[b].app = None
                PROVE  listed = b
    BY DEF FoundAgain
  <2>1. \A t \in Threads : ~Promises(t)
    BY NothingHeld DEF Promises
  <2>. QED
    BY <1>1, <2>1 DEF SessionInv, Promise
<1>. QED
  BY <1>1, SessionInvariant, PTL

\* No step takes a session away but the end the app made, the session that
\* replaces it, and the stop of its bridge: the proxy switch never does.
THEOREM SwitchCutsNoSession == Spec => SessionsOutliveTheSwitch
<1>1. ASSUME SessionInv, [Next]_vars, NEW b \in Bridges,
             bridge[b].app # None, bridge'[b].app # bridge[b].app
      PROVE  \/ bridge[b].sampled \in gone \/ bridge'[b].app # None
             \/ bridge[b].life \in {"stopping", "stopped"}
  <2>1. Typed /\ Ways /\ Lists
    BY <1>1 DEF SessionInv, Typed, Ways, Lists
  <2>2. Next
    BY <1>1 DEF vars
  <2>3. ASSUME NEW d \in Bridges, EndOfFile(d)
        PROVE  b = d /\ bridge[b].sampled \in gone
    <3>1. Same(d, {"app"})
      BY <2>1, <2>3, EndOfFileDoes
    <3>. QED
      BY <1>1, <2>3, <3>1 DEF Same, EndOfFile
  <2>4. ASSUME NEW t \in Threads, NEW d \in Bridges, of[t] = d, Step(t, d)
        PROVE  bridge'[b].app # None \/ bridge[b].life \in {"stopping", "stopped"}
    <3>1. PICK x, new, f : Does(t, d, x, new, f)
      BY <2>1, <2>4, StepDoes
    <3>2. Turn(t, x, new, f) /\ Writes(t, d, x)
      BY <2>1, <3>1, DoesTurn
    <3>3. b = d /\ x \in {"close", "install"}
      BY <1>1, <3>2 DEF Writes
    <3>4. CASE x = "install"
      <4>1. t \in Calls
        BY <2>1, <3>2, <3>4, WhoHas DEF Turn
      <4>. QED
        BY <3>2, <3>3, <3>4, <4>1, ThreadsAreDistinct DEF Writes
    <3>5. CASE x = "close"
      <4>1. t \in Admins
        <5>1. "close" \in AdminSteps \ (CallSteps \cup BridgeSteps)
          BY DEF AdminSteps, CallSteps, BridgeSteps, Reg, Unreg
        <5>. QED
          BY <2>1, <3>2, <3>5, <5>1, WhoHas DEF Turn
      <4>2. ~Holds(t, "stop")
        <5>1. "stop" \notin Behind("close")
          BY DEF Behind, Reg, Unreg
        <5>. QED
          BY <3>2, <3>5, <5>1 DEF Turn
      <4>3. Holds(t, "stopped")
        BY <2>1, <3>2, <3>5, <4>1 DEF Turn, Ways
      <4>. QED
        BY <2>1, <2>4, <3>3, <4>1, <4>2, <4>3 DEF Ways
    <3>. QED
      BY <3>3, <3>4, <3>5
  <2>5. ASSUME NEW d \in Bridges, Start(d) \/ Sample(d) \/ \E c \in Calls : AppLeaves(c)
        PROVE  FALSE
    <3>1. Same(d, {}) \/ Same(d, {"life"})
      BY <2>1, <2>5, OthersDo
    <3>. QED
      BY <1>1, <3>1 DEF Same
  <2>6. ASSUME NEW a \in Admins, NEW d \in Bridges, NEW task \in Tasks, Ask(a, d, task)
        PROVE  FALSE
    BY <1>1, <2>6 DEF Ask
  <2>7. ASSUME NEW c \in Calls, CallMe(c) PROVE FALSE
    BY <1>1, <2>7 DEF CallMe
  <2>. QED
    BY <2>2, <2>3, <2>4, <2>5, <2>6, <2>7 DEF Next
<1>2. SessionInv /\ [Next]_vars =>
        \A b \in Bridges :
          bridge[b].app # None /\ bridge'[b].app # bridge[b].app =>
            \/ bridge[b].sampled \in gone \/ bridge'[b].app # None
            \/ bridge[b].life \in {"stopping", "stopped"}
  BY <1>1
<1>. QED
  BY <1>2, SessionInvariant, PTL DEF SessionsOutliveTheSwitch, Spec

=============================================================================
