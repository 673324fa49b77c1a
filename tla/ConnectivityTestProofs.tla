------------------------ MODULE ConnectivityTestProofs ------------------------
(***************************************************************************)
(* The connectivity test and the limits in front of it, for any users,     *)
(* connections, limits, windows, chunks and replies: no interleaving of    *)
(* tests, uploads, Valkey failures and passing time lets a counter pass    *)
(* its limit or a window be other than the limiter reports it; a provider  *)
(* call releases its client, bounds the body it reads and classifies its   *)
(* failures; a stored status is proven by a call; a consumer of a stream   *)
(* is told what the provider sent, in order.                               *)
(***************************************************************************)
EXTENDS ConnectivityTest, TLAPS, WellFoundedInduction

(* The inductive invariant: counters and expiries are numbers, and the     *)
(* budget is kept.                                                         *)
LimitInv == count \in [Keys -> Nat] /\ ttl \in [Keys -> Nat] /\ BudgetKept

USE LimitAssumption

(* What Append does.                                                       *)
LEMMA Appending ==
  ASSUME NEW S, NEW s \in Seq(S), NEW x \in S, NEW u, u = Append(s, x)
  PROVE  /\ u \in Seq(S) /\ Len(s) \in Nat /\ Len(u) = Len(s) + 1
         /\ DOMAIN s = 1..Len(s) /\ DOMAIN u = 1..Len(s) + 1
         /\ u[Len(s) + 1] = x /\ \A i \in 1..Len(s) : u[i] = s[i]
OBVIOUS

(* An empty Valkey keeps every budget. *)
LEMMA LimitsStart == LimitInit => LimitInv
<1> SUFFICES ASSUME LimitInit PROVE LimitInv
  OBVIOUS
<1>1. \A k \in Keys : 0 <= Limit(k)
  BY LimitAssumption
<1> QED
  BY <1>1 DEF LimitInit, LimitInv, BudgetKept

(* INCR and EXPIRE of keys that are all under their limit: none passes it,  *)
(* and a key that is created gets its expiry in the same step.              *)
LEMMA AdmitKeeps ==
  ASSUME NEW S, LimitInv, \A k \in S : ~Exhausted(k), Admit(S) PROVE LimitInv'
<1>1. count' \in [Keys -> Nat] /\ ttl' \in [Keys -> Nat]
  BY DEF LimitInv, Admit
<1>2. ASSUME NEW k \in Keys PROVE count'[k] <= Limit(k) /\ (count'[k] = 0 <=> ttl'[k] = 0)
  <2>1. /\ count[k] \in Nat /\ ttl[k] \in Nat /\ Limit(k) \in Nat /\ Window(k) \in Nat \ {0}
        /\ count[k] <= Limit(k) /\ (count[k] = 0 <=> ttl[k] = 0)
    BY DEF LimitInv, BudgetKept
  <2>2. CASE k \in S
    <3>1. count'[k] = count[k] + 1 /\ ttl'[k] = IF count[k] = 0 THEN Window(k) ELSE ttl[k]
      BY <2>2 DEF Admit
    <3>2. count[k] < Limit(k)
      BY <2>1, <2>2 DEF Exhausted
    <3> QED
      BY <2>1, <3>1, <3>2
  <2>3. CASE k \notin S
    BY <2>1, <2>3 DEF Admit
  <2> QED
    BY <2>2, <2>3
<1>3. BudgetKept'
  BY <1>2 DEF BudgetKept
<1> QED
  BY <1>1, <1>3 DEF LimitInv

(* A step that leaves the counters alone keeps the budget. *)
LEMMA LimitsUntouched == LimitInv /\ UNCHANGED limitVars => LimitInv'
BY DEF LimitInv, limitVars, BudgetKept

(* The script, with or without its answer: it admits under every limit or   *)
(* changes nothing.                                                         *)
LEMMA ConsumeKeeps ==
  ASSUME NEW S, NEW decision, LimitInv, check_and_consume(S, decision) PROVE LimitInv'
<1>1. CASE Admit(S) /\ ~(\E k \in S : Exhausted(k))
  BY <1>1, AdmitKeeps
<1>2. CASE UNCHANGED limitVars
  BY <1>2, LimitsUntouched
<1> QED
  BY <1>1, <1>2 DEF check_and_consume

(* Time: a key disappears together with its count. *)
LEMMA TickKeeps == LimitInv /\ Tick => LimitInv'
<1> SUFFICES ASSUME LimitInv, Tick PROVE LimitInv'
  OBVIOUS
<1>1. count' \in [Keys -> Nat] /\ ttl' \in [Keys -> Nat]
  BY DEF LimitInv, Tick
<1>2. ASSUME NEW k \in Keys PROVE count'[k] <= Limit(k) /\ (count'[k] = 0 <=> ttl'[k] = 0)
  <2>1. /\ count[k] \in Nat /\ ttl[k] \in Nat /\ Limit(k) \in Nat
        /\ count[k] <= Limit(k) /\ (count[k] = 0 <=> ttl[k] = 0)
    BY DEF LimitInv, BudgetKept
  <2>2. /\ ttl'[k] = IF ttl[k] > 0 THEN ttl[k] - 1 ELSE 0
        /\ count'[k] = IF ttl[k] = 1 THEN 0 ELSE count[k]
    BY DEF Tick
  <2> QED
    BY <2>1, <2>2
<1>3. BudgetKept'
  BY <1>2 DEF BudgetKept
<1> QED
  BY <1>1, <1>3 DEF LimitInv

(* Through tests, uploads, lost Valkey answers and passing time, no counter  *)
(* passes its limit and none is without an expiry.                           *)
THEOREM LimitsKept == Spec => []BudgetKept
<1>1. Init => LimitInv
  BY LimitsStart DEF Init
<1>2. LimitInv /\ [Next]_vars => LimitInv'
  <2> SUFFICES ASSUME LimitInv, [Next]_vars PROVE LimitInv'
    OBVIOUS
  <2>1. CASE \E u \in Users, c \in Conns : check_limits(u, c)
    BY <2>1, ConsumeKeeps DEF check_limits
  <2>2. CASE post
    BY <2>2, LimitsUntouched DEF post
  <2>3. CASE gateway_answer \/ gateway_timeout \/ gateway_lost
    BY <2>3, LimitsUntouched DEF gateway_answer, gateway_timeout, gateway_lost, record, limitVars
  <2>4. CASE Serve
    BY <2>4, LimitsUntouched DEF Serve
  <2>5. CASE LimitStep
    BY <2>5, TickKeeps, ConsumeKeeps, Zenon DEF LimitStep, upload_check_and_consume
  <2>6. CASE UNCHANGED vars
    BY <2>6, LimitsUntouched DEF vars
  <2> QED
    BY <2>1, <2>2, <2>3, <2>4, <2>5, <2>6 DEF Next
<1>3. LimitInv => BudgetKept
  BY DEF LimitInv
<1> QED
  BY <1>1, <1>2, <1>3, PTL DEF Spec

-----------------------------------------------------------------------------
(* The windows.  A nonempty set of numbers has a least one.                *)
LEMMA Least ==
  ASSUME NEW T, T \subseteq Nat, T # {} PROVE \E x \in T : \A y \in T : x <= y
<1>1. PICK R : R = {ss \in Nat \X Nat : ss[1] < ss[2]} /\ IsWellFoundedOn(R, Nat)
  <2>1. OpToRel(<,Nat) = {ss \in Nat \X Nat : ss[1] < ss[2]}
    BY DEF OpToRel
  <2> QED
    BY <2>1, NatLessThanWellFounded, Zenon
<1>2. PICK x \in T : \A y \in T : ~ (<<y, x>> \in R)
  BY <1>1, WFMin, Zenon
<1>3. ASSUME NEW y \in T PROVE x <= y
  <2>1. <<y, x>> \in R <=> <<y, x>> \in Nat \X Nat /\ <<y, x>>[1] < <<y, x>>[2]
    BY <1>1
  <2>2. ~(y < x) /\ x \in Nat /\ y \in Nat
    BY <1>2, <2>1
  <2> QED
    BY <2>2
<1> QED
  BY <1>3

(* The ages of the admissions of a key, oldest first, with its count c and  *)
(* its time to live t, for a window w and a limit l.  The current window    *)
(* began with the admission of age w - t; at most l - 1 older ones are in   *)
(* sight, because the one that began the window before is out of it.        *)
Aged(r, c, t, w, l) ==
  /\ r \in Seq(Nat)
  /\ \A i, j \in DOMAIN r : i <= j => r[j] <= r[i]
  /\ c = 0 => Len(r) <= l - 1
  /\ c > 0 => c <= Len(r) /\ Len(r) - c <= l - 1 /\ r[Len(r) - c + 1] = w - t

LEMMA NoneAged == ASSUME NEW w \in Nat, NEW l \in Nat \ {0} PROVE Aged(<<>>, 0, 0, w, l)
BY DEF Aged

LEMMA AdmitAged ==
  ASSUME NEW r, NEW c \in Nat, NEW t \in Nat, NEW w \in Nat, NEW l \in Nat, c < l, Aged(r, c, t, w, l)
  PROVE  Aged(Append(r, 0), c + 1, IF c = 0 THEN w ELSE t, w, l)
<1>1. PICK s : s = Append(r, 0)
  BY Zenon
<1>2. /\ r \in Seq(Nat) /\ Len(r) \in Nat /\ DOMAIN r = 1..Len(r) /\ s \in Seq(Nat) /\ Len(s) = Len(r) + 1
      /\ DOMAIN s = 1..Len(r) + 1 /\ s[Len(r) + 1] = 0 /\ \A i \in 1..Len(r) : s[i] = r[i] /\ r[i] \in Nat
  <2>1. r \in Seq(Nat) /\ 0 \in Nat
    BY DEF Aged
  <2> QED
    BY <1>1, <2>1, Appending
<1>3. ASSUME NEW i \in DOMAIN s, NEW j \in DOMAIN s, i <= j PROVE s[j] <= s[i]
  <2>0. i \in 1..Len(r) + 1 /\ j \in 1..Len(r) + 1 /\ Len(r) \in Nat
    BY <1>2
  <2>1. CASE j = Len(r) + 1
    <3>1. s[j] = 0 /\ s[i] \in Nat
      BY <1>2, <2>0, <2>1
    <3> QED
      BY <3>1
  <2>2. CASE j # Len(r) + 1
    <3>1. i \in 1..Len(r) /\ j \in 1..Len(r)
      BY <1>3, <2>0, <2>2
    <3>2. r[j] <= r[i]
      BY <1>2, <1>3, <3>1 DEF Aged
    <3> QED
      BY <1>2, <3>1, <3>2
  <2> QED
    BY <2>1, <2>2
<1>4. CASE c = 0
  <2>1. c + 1 <= Len(s) /\ Len(s) - (c + 1) <= l - 1 /\ s[Len(s) - (c + 1) + 1] = w - w
    BY <1>2, <1>4 DEF Aged
  <2> QED
    BY <1>1, <1>2, <1>3, <1>4, <2>1 DEF Aged
<1>5. CASE c > 0
  <2>1. c <= Len(r) /\ Len(r) - c <= l - 1 /\ r[Len(r) - c + 1] = w - t
    BY <1>5 DEF Aged
  <2>2. Len(s) - (c + 1) + 1 = Len(r) - c + 1 /\ Len(r) - c + 1 \in 1..Len(r)
    BY <1>2, <1>5, <2>1
  <2>3. s[Len(s) - (c + 1) + 1] = w - t
    BY <1>2, <2>1, <2>2, Zenon
  <2>4. c + 1 <= Len(s) /\ Len(s) - (c + 1) <= l - 1
    BY <1>2, <2>1
  <2>5. c + 1 # 0 /\ (IF c = 0 THEN w ELSE t) = t
    BY <1>5
  <2>6. s \in Seq(Nat) /\ \A i, j \in DOMAIN s : i <= j => s[j] <= s[i]
    BY <1>2, <1>3
  <2>7. Aged(s, c + 1, t, w, l)
    BY <2>3, <2>4, <2>5, <2>6 DEF Aged
  <2> QED
    BY <1>1, <2>5, <2>7
<1> QED
  BY <1>4, <1>5

(* The admissions that leave a window are the first of the sequence.       *)
LEMMA LeavingFirst ==
  ASSUME NEW r \in Seq(Nat), NEW w \in Nat, \A i, j \in DOMAIN r : i <= j => r[j] <= r[i]
  PROVE  /\ Leaving(r, w) \in 0..Len(r)
         /\ \A i \in DOMAIN r : i <= Leaving(r, w) <=> r[i] + 1 >= w
<1>1. \E d \in 0..Len(r) : \A i \in DOMAIN r : i <= d <=> r[i] + 1 >= w
  <2>0. Len(r) \in Nat /\ DOMAIN r = 1..Len(r) /\ \A i \in DOMAIN r : r[i] \in Nat
    OBVIOUS
  <2>1. PICK Y : Y = {i \in DOMAIN r : r[i] + 1 < w}
    BY Zenon
  <2>2. CASE Y = {}
    <3>1. \A i \in DOMAIN r : i <= Len(r) <=> r[i] + 1 >= w
      BY <2>0, <2>1, <2>2
    <3>2. Len(r) \in 0..Len(r)
      BY <2>0
    <3> QED
      BY <3>1, <3>2, Zenon
  <2>3. CASE Y # {}
    <3>0. Y \subseteq Nat
      BY <2>0, <2>1
    <3>1. PICK y \in Y : \A z \in Y : y <= z
      BY <2>3, <3>0, Least, Zenon
    <3>2. y \in 1..Len(r) /\ r[y] + 1 < w
      BY <2>0, <2>1
    <3>3. ASSUME NEW i \in DOMAIN r PROVE i <= y - 1 <=> r[i] + 1 >= w
      <4>1. CASE i < y
        <5>1. i \notin Y
          BY <2>0, <3>1, <3>2, <4>1
        <5> QED
          BY <2>0, <2>1, <3>2, <4>1, <5>1
      <4>2. CASE y <= i
        <5>1. r[i] <= r[y]
          BY <2>0, <3>2, <4>2, Zenon
        <5> QED
          BY <2>0, <3>2, <4>2, <5>1
      <4> QED
        BY <2>0, <3>2, <4>1, <4>2
    <3>4. y - 1 \in 0..Len(r)
      BY <2>0, <3>2
    <3> QED
      BY <3>3, <3>4
  <2> QED
    BY <2>2, <2>3
<1> QED
  BY <1>1 DEF Leaving

LEMMA TickAged ==
  ASSUME NEW r, NEW c \in Nat, NEW t \in Nat, NEW w \in Nat \ {0}, NEW l \in Nat, c <= l, t <= w,
         c = 0 <=> t = 0, Aged(r, c, t, w, l)
  PROVE  Aged(Older(r, w), IF t = 1 THEN 0 ELSE c, IF t > 0 THEN t - 1 ELSE 0, w, l)
<1>0. /\ r \in Seq(Nat) /\ Len(r) \in Nat /\ DOMAIN r = 1..Len(r) /\ \A i \in DOMAIN r : r[i] \in Nat
      /\ \A i, j \in DOMAIN r : i <= j => r[j] <= r[i]
  BY DEF Aged
<1>1. PICK d : d = Leaving(r, w)
  OBVIOUS
<1>2. d \in 0..Len(r) /\ \A i \in DOMAIN r : i <= d <=> r[i] + 1 >= w
  BY <1>0, <1>1, LeavingFirst, Zenon
<1>3. PICK s : s = Older(r, w)
  OBVIOUS
<1>4. s = [i \in 1..Len(r) - d |-> r[i + d] + 1]
  BY <1>1, <1>3 DEF Older
<1>5. \A i \in 1..Len(r) - d : i + d \in DOMAIN r /\ r[i + d] + 1 \in Nat
  BY <1>0, <1>2
<1>6. s \in Seq(Nat) /\ Len(s) = Len(r) - d /\ DOMAIN s = 1..Len(r) - d
  BY <1>0, <1>2, <1>4, <1>5
<1>a. Len(r) \in Nat /\ d \in Nat /\ d <= Len(r) /\ Len(s) = Len(r) - d /\ Len(s) \in Nat
  BY <1>0, <1>2, <1>6
<1>7. ASSUME NEW i \in DOMAIN s, NEW j \in DOMAIN s, i <= j PROVE s[j] <= s[i]
  <2>0. i \in 1..Len(r) - d /\ j \in 1..Len(r) - d
    BY <1>6
  <2>1. PICK i2, j2 : i2 = i + d /\ j2 = j + d
    OBVIOUS
  <2>2. i2 \in DOMAIN r /\ j2 \in DOMAIN r
    BY <1>5, <2>0, <2>1
  <2>3. i2 <= j2
    BY <1>a, <1>7, <2>0, <2>1
  <2>4. r[j2] <= r[i2] /\ r[i2] \in Nat /\ r[j2] \in Nat
    BY <1>0, <2>2, <2>3
  <2>5. s[i] = r[i2] + 1 /\ s[j] = r[j2] + 1
    BY <1>4, <2>0, <2>1
  <2> QED
    BY <2>4, <2>5
<1>8. CASE c = 0
  <2>1. t = 0 /\ Len(r) <= l - 1
    BY <1>8 DEF Aged
  <2>2. Len(s) <= l - 1
    BY <1>0, <1>2, <1>6, <2>1
  <2> QED
    BY <1>3, <1>6, <1>7, <1>8, <2>1, <2>2 DEF Aged
<1>9. CASE c > 0
  <2>1. /\ c <= Len(r) /\ Len(r) - c <= l - 1 /\ r[Len(r) - c + 1] = w - t /\ t > 0
        /\ Len(r) - c + 1 \in DOMAIN r
    BY <1>0, <1>9 DEF Aged
  <2>2. CASE t = 1
    <3>1. r[Len(r) - c + 1] + 1 >= w
      BY <2>1, <2>2
    <3>2. Len(r) - c + 1 <= d
      BY <1>2, <2>1, <3>1
    <3>3. Len(s) <= l - 1
      BY <1>a, <2>1, <3>2
    <3> QED
      BY <1>3, <1>6, <1>7, <2>2, <3>3 DEF Aged
  <2>3. CASE t > 1
    <3>1. ~(r[Len(r) - c + 1] + 1 >= w)
      BY <2>1, <2>3
    <3>2. ~(Len(r) - c + 1 <= d)
      BY <1>2, <2>1, <3>1
    <3>3. c <= Len(s) /\ Len(s) - c <= l - 1
      BY <1>a, <2>1, <3>2
    <3>4. PICK i : i = Len(s) - c + 1
      OBVIOUS
    <3>5. i \in 1..Len(r) - d /\ i + d = Len(r) - c + 1
      BY <1>a, <1>9, <3>3, <3>4
    <3>6. s[i] = (w - t) + 1
      BY <1>4, <2>1, <3>5
    <3>7. s[Len(s) - c + 1] = w - (t - 1)
      BY <3>4, <3>6
    <3> QED
      BY <1>3, <1>6, <1>7, <1>9, <2>3, <3>3, <3>7 DEF Aged
  <2> QED
    BY <2>1, <2>2, <2>3
<1> QED
  BY <1>8, <1>9

(* The inductive invariant of the windows.                                 *)
WindowInv ==
  /\ LimitInv
  /\ \A k \in Keys : ttl[k] <= Window(k) /\ Aged(recent[k], count[k], ttl[k], Window(k), Limit(k))

LEMMA KeyFacts ==
  ASSUME WindowInv, NEW k \in Keys
  PROVE  /\ count[k] \in Nat /\ ttl[k] \in Nat /\ Window(k) \in Nat \ {0} /\ Limit(k) \in Nat \ {0}
         /\ ttl[k] <= Window(k) /\ count[k] <= Limit(k) /\ (count[k] = 0 <=> ttl[k] = 0)
         /\ Aged(recent[k], count[k], ttl[k], Window(k), Limit(k))
BY DEF WindowInv, LimitInv, BudgetKept

LEMMA WindowsUntouched == WindowInv /\ UNCHANGED limitVars => WindowInv'
BY LimitsUntouched DEF WindowInv, limitVars

LEMMA AdmitWindows ==
  ASSUME NEW S, WindowInv, \A k \in S : ~Exhausted(k), Admit(S) PROVE WindowInv'
<1>1. LimitInv'
  BY AdmitKeeps DEF WindowInv
<1>2. ASSUME NEW k \in Keys
      PROVE  ttl'[k] <= Window(k) /\ Aged(recent'[k], count'[k], ttl'[k], Window(k), Limit(k))
  <2>1. CASE k \in S
    <3>1. /\ count'[k] = count[k] + 1 /\ ttl'[k] = (IF count[k] = 0 THEN Window(k) ELSE ttl[k])
          /\ recent'[k] = Append(recent[k], 0)
      BY <2>1 DEF Admit
    <3>2. count[k] < Limit(k)
      BY <2>1, KeyFacts DEF Exhausted
    <3>3. Aged(recent'[k], count'[k], ttl'[k], Window(k), Limit(k))
      BY <3>1, <3>2, KeyFacts, AdmitAged
    <3>4. ttl'[k] <= Window(k)
      BY <3>1, KeyFacts
    <3> QED
      BY <3>3, <3>4
  <2>2. CASE k \notin S
    BY <2>2, KeyFacts DEF Admit
  <2> QED
    BY <2>1, <2>2
<1> QED
  BY <1>1, <1>2 DEF WindowInv

LEMMA ConsumeWindows ==
  ASSUME NEW S, NEW decision, WindowInv, check_and_consume(S, decision) PROVE WindowInv'
<1>1. CASE Admit(S) /\ ~(\E k \in S : Exhausted(k))
  BY <1>1, AdmitWindows
<1>2. CASE UNCHANGED limitVars
  BY <1>2, WindowsUntouched
<1> QED
  BY <1>1, <1>2 DEF check_and_consume

LEMMA TickWindows == WindowInv /\ Tick => WindowInv'
<1> SUFFICES ASSUME WindowInv, Tick PROVE WindowInv'
  OBVIOUS
<1>1. LimitInv'
  BY TickKeeps DEF WindowInv
<1>2. ASSUME NEW k \in Keys
      PROVE  ttl'[k] <= Window(k) /\ Aged(recent'[k], count'[k], ttl'[k], Window(k), Limit(k))
  <2>1. /\ ttl'[k] = (IF ttl[k] > 0 THEN ttl[k] - 1 ELSE 0)
        /\ count'[k] = (IF ttl[k] = 1 THEN 0 ELSE count[k])
        /\ recent'[k] = Older(recent[k], Window(k))
    BY DEF Tick
  <2>2. Aged(recent'[k], count'[k], ttl'[k], Window(k), Limit(k))
    BY <2>1, KeyFacts, TickAged
  <2>3. ttl'[k] <= Window(k)
    BY <2>1, KeyFacts
  <2> QED
    BY <2>2, <2>3
<1> QED
  BY <1>1, <1>2 DEF WindowInv

LEMMA AdmissionsByInv == WindowInv => AdmissionsBounded
<1> SUFFICES ASSUME WindowInv, NEW k \in Keys PROVE Len(recent[k]) <= 2 * Limit(k) - 1
  BY DEF AdmissionsBounded
<1>1. Len(recent[k]) \in Nat
  BY KeyFacts DEF Aged
<1>2. CASE count[k] = 0
  <2>1. Len(recent[k]) <= Limit(k) - 1
    BY <1>2, KeyFacts DEF Aged
  <2> QED
    BY <1>1, <2>1, KeyFacts
<1>3. CASE count[k] > 0
  <2>1. Len(recent[k]) - count[k] <= Limit(k) - 1
    BY <1>3, KeyFacts DEF Aged
  <2> QED
    BY <1>1, <2>1, KeyFacts
<1> QED
  BY <1>2, <1>3, KeyFacts

(* Division, and the largest of two or three numbers.                      *)
LEMMA Division ==
  ASSUME NEW a \in Nat, NEW b \in Nat \ {0}
  PROVE  a \div b \in Nat /\ b * (a \div b) <= a /\ a < b * (a \div b) + b
<1>1. a \div b \in Int /\ a % b \in 0..b-1 /\ a = b * (a \div b) + (a % b)
  OBVIOUS
<1> QED
  BY <1>1

LEMMA MaxOfTwo ==
  ASSUME NEW a \in Int, NEW b \in Int, NEW m, m = Max({a, b})
  PROVE  (m = a \/ m = b) /\ m >= a /\ m >= b
<1>1. \E x \in {a, b} : \A y \in {a, b} : x >= y
  OBVIOUS
<1> QED
  BY <1>1 DEF Max

LEMMA MaxOfThree ==
  ASSUME NEW a \in Int, NEW b \in Int, NEW c \in Int, NEW m, m = Max({a, b, c})
  PROVE  m \in Int /\ m >= a /\ m >= b /\ m >= c
<1>1. \E x \in {a, b, c} : \A y \in {a, b, c} : x >= y
  OBVIOUS
<1> QED
  BY <1>1 DEF Max

(* Seconds rounded to the nearest, n ticks to the second: half a second off *)
(* at most.                                                                 *)
LEMMA Rounding ==
  ASSUME NEW t \in Nat, NEW n \in Nat \ {0}, NEW q, q = (2 * t + n) \div (2 * n)
  PROVE  q \in Nat /\ 2 * t <= 2 * (q * n) + n /\ q * n <= t + n \div 2
<1>1. q \in Nat /\ (2 * n) * q <= 2 * t + n /\ 2 * t + n < (2 * n) * q + 2 * n
  <2>1. PICK a, b : a = 2 * t + n /\ b = 2 * n
    OBVIOUS
  <2>2. a \in Nat /\ b \in Nat \ {0} /\ q = a \div b
    BY <2>1
  <2>3. q \in Nat /\ b * q <= a /\ a < b * q + b
    BY <2>2, Division
  <2> QED
    BY <2>1, <2>3
<1>2. (2 * n) * q = 2 * (q * n) /\ q * n \in Nat
  BY <1>1
<1>3. PICK p : p = q * n
  OBVIOUS
<1>4. p \in Nat /\ 2 * p <= 2 * t + n /\ 2 * t + n < 2 * p + 2 * n
  BY <1>1, <1>2, <1>3
<1>5. n \div 2 \in Nat /\ n <= 2 * (n \div 2) + 1
  BY Division
<1>6. 2 * t <= 2 * p + n
  BY <1>4
<1>7. p <= t + n \div 2
  BY <1>4, <1>5
<1> QED
  BY <1>1, <1>3, <1>6, <1>7

LEMMA TimesGrows == ASSUME NEW a \in Nat, NEW b \in Nat, NEW n \in Nat, a <= b PROVE a * n <= b * n
<1>1. PICK d \in Nat : b = a + d
  <2>1. b - a \in Nat /\ b = a + (b - a)
    OBVIOUS
  <2> QED
    BY <2>1
<1>2. b * n = a * n + d * n /\ d * n \in Nat /\ a * n \in Nat
  BY <1>1
<1> QED
  BY <1>2

LEMMA RetriesByInv == WindowInv => RetryAfterHonest
<1> SUFFICES ASSUME WindowInv, NEW u \in Users, NEW c \in Conns
             PROVE  LET S == {UserKey(u), ConnKey(c)}
                        wait == RetryAfter(S) * TicksPerSecond
                    IN  /\ \A k \in S : 2 * ttl[k] <= 2 * wait + TicksPerSecond
                        /\ wait <= Max({TicksPerSecond} \cup {ttl[k] + TicksPerSecond \div 2 : k \in S})
  BY Zenon DEF RetryAfterHonest
<1>1. PICK a, b, n, h : a = UserKey(u) /\ b = ConnKey(c) /\ n = TicksPerSecond /\ h = n \div 2
  OBVIOUS
<1>2. a \in Keys /\ b \in Keys /\ n \in Nat \ {0}
  BY <1>1, SecondAssumption DEF Keys
<1>3. ttl[a] \in Nat /\ ttl[b] \in Nat /\ h \in Nat
  BY <1>1, <1>2, KeyFacts, Division
<1>4. PICK p, q : p = TTL(a) /\ q = TTL(b)
  OBVIOUS
<1>5. /\ p \in Nat /\ 2 * ttl[a] <= 2 * (p * n) + n /\ p * n <= ttl[a] + h
      /\ q \in Nat /\ 2 * ttl[b] <= 2 * (q * n) + n /\ q * n <= ttl[b] + h
  BY <1>1, <1>2, <1>3, <1>4, Rounding, Zenon DEF TTL
<1>6. PICK x, y, z : x = Max({p, 1}) /\ y = Max({q, 1}) /\ z = Max({x, y})
  OBVIOUS
<1>7. /\ x = p \/ x = 1
      /\ y = q \/ y = 1
      /\ x >= p /\ y >= q /\ x \in Nat /\ y \in Nat
  <2>1. p \in Int /\ q \in Int /\ 1 \in Int
    BY <1>5
  <2>2. (x = p \/ x = 1) /\ x >= p
    BY <1>6, <2>1, MaxOfTwo
  <2>3. (y = q \/ y = 1) /\ y >= q
    BY <1>6, <2>1, MaxOfTwo, Zenon
  <2> QED
    BY <1>5, <2>2, <2>3
<1>8. (z = x \/ z = y) /\ z >= x /\ z >= y /\ z \in Nat
  <2>1. x \in Int /\ y \in Int
    BY <1>7
  <2>2. z = Max({x, y})
    BY <1>6
  <2>3. (z = x \/ z = y) /\ z >= x /\ z >= y
    BY <2>1, <2>2, MaxOfTwo, Zenon
  <2> QED
    BY <1>7, <2>3
<1>9. RetryAfter({a, b}) = z
  <2>1. {Max({TTL(k), 1}) : k \in {a, b}} = {x, y}
    BY <1>4, <1>6
  <2> QED
    BY <1>6, <2>1, Zenon DEF RetryAfter
<1>10. p * n <= z * n /\ q * n <= z * n /\ z * n \in Nat /\ p * n \in Nat /\ q * n \in Nat
  <2>1. p <= z /\ q <= z
    BY <1>5, <1>7, <1>8
  <2> QED
    BY <1>2, <1>5, <1>8, <2>1, TimesGrows
<1>11. PICK m : m = Max({n, ttl[a] + h, ttl[b] + h})
  OBVIOUS
<1>12. m \in Int /\ m >= n /\ m >= ttl[a] + h /\ m >= ttl[b] + h
  <2>1. PICK f, g : f = ttl[a] + h /\ g = ttl[b] + h
    OBVIOUS
  <2>2. f \in Int /\ g \in Int /\ n \in Int /\ m = Max({n, f, g})
    BY <1>2, <1>3, <1>11, <2>1
  <2>3. m \in Int /\ m >= n /\ m >= f /\ m >= g
    BY <2>2, MaxOfThree, Zenon
  <2> QED
    BY <2>1, <2>3
<1>13. z * n <= m
  <2>1. CASE z = p
    BY <1>3, <1>5, <1>10, <1>12, <2>1
  <2>2. CASE z = q
    BY <1>3, <1>5, <1>10, <1>12, <2>2
  <2>3. CASE z = 1
    BY <1>2, <1>12, <2>3
  <2> QED
    BY <1>7, <1>8, <2>1, <2>2, <2>3
<1>14. 2 * ttl[a] <= 2 * (z * n) + n /\ 2 * ttl[b] <= 2 * (z * n) + n
  BY <1>2, <1>3, <1>5, <1>10
<1>15. {n} \cup {ttl[k] + h : k \in {a, b}} = {n, ttl[a] + h, ttl[b] + h}
  OBVIOUS
<1>16. \A k \in {a, b} : 2 * ttl[k] <= 2 * (RetryAfter({a, b}) * n) + n
  BY <1>9, <1>14
<1>17. RetryAfter({a, b}) * n <= Max({n} \cup {ttl[k] + n \div 2 : k \in {a, b}})
  <2>1. Max({n} \cup {ttl[k] + h : k \in {a, b}}) = m
    BY <1>11, <1>15
  <2> QED
    BY <1>1, <1>9, <1>13, <2>1
<1> QED
  BY <1>1, <1>16, <1>17
(* For any users, connections, limits and windows: around the end of a      *)
(* fixed window at most twice the limit less one is admitted within one     *)
(* window's length, and the Retry-After of a refusal is right up to half a  *)
(* second.                                                                  *)
THEOREM WindowsAreHonest == Spec => []WindowsHonest
<1>1. Init => WindowInv
  <2> SUFFICES ASSUME Init PROVE WindowInv
    OBVIOUS
  <2>1. LimitInit /\ LimitInv
    BY LimitsStart DEF Init
  <2>2. ASSUME NEW k \in Keys
        PROVE  ttl[k] <= Window(k) /\ Aged(recent[k], count[k], ttl[k], Window(k), Limit(k))
    <3>1. ttl[k] = 0 /\ count[k] = 0 /\ recent[k] = <<>>
      BY <2>1 DEF LimitInit
    <3>2. Window(k) \in Nat /\ Limit(k) \in Nat \ {0}
      BY LimitAssumption
    <3> QED
      BY <3>1, <3>2, NoneAged
  <2> QED
    BY <2>1, <2>2 DEF WindowInv
<1>2. WindowInv /\ [Next]_vars => WindowInv'
  <2> SUFFICES ASSUME WindowInv, [Next]_vars PROVE WindowInv'
    OBVIOUS
  <2>1. CASE \E u \in Users, c \in Conns : check_limits(u, c)
    BY <2>1, ConsumeWindows DEF check_limits
  <2>2. CASE LimitStep
    BY <2>2, TickWindows, ConsumeWindows, Zenon DEF LimitStep, upload_check_and_consume
  <2>3. CASE UNCHANGED limitVars
    BY <2>3, WindowsUntouched
  <2>4. CASE post \/ Serve \/ UNCHANGED vars
    BY <2>3, <2>4 DEF post, Serve, vars
  <2>5. CASE gateway_answer \/ gateway_timeout \/ gateway_lost
    BY <2>3, <2>5 DEF gateway_answer, gateway_timeout, gateway_lost, record
  <2> QED
    BY <2>1, <2>2, <2>4, <2>5 DEF Next
<1>3. WindowInv => WindowsHonest
  BY AdmissionsByInv, RetriesByInv DEF WindowsHonest
<1> QED
  BY <1>1, <1>2, <1>3, PTL DEF Spec

-----------------------------------------------------------------------------
HIDE LimitAssumption

(* The gateway.  CallInv is the inductive invariant of a call: the client  *)
(* exists only after the adapter's own checks, and a failure is known only *)
(* at the end.                                                             *)
CallInv ==
  /\ req.provider \in Providers
  /\ body \in Nat /\ BodyBounded
  /\ pc = "body" => req.token = "good"
  /\ pc \in {"idle", "boundary", "body", "start"} => client = "none"
  /\ pc # "done" => cause = NoFailure /\ result = "none"
  /\ ClientReleased
  /\ ErrorsClassified

(* The code r is right for the failure e of the call.                      *)
Classified(r, e) ==
  IF e # NoFailure
  THEN r = IF CalledInvalid(e) THEN "PROVIDER_INVALID_REQUEST" ELSE Verdict(e)
  ELSE r \in ErrorCodes \ {"PROVIDER_UNAVAILABLE"} =>
         /\ client = "none"
         /\ \/ r = "PROVIDER_INVALID_REQUEST"
            \/ r = "PROVIDER_AUTH_FAILED" /\ req.key # "ok"

(* What the four adapters make of what their SDK raises.                   *)
LEMMA SdkClassified ==
  ASSUME NEW e \in SdkFailures, req.provider \in Providers PROVE Classified(NormalizedError(e), e)
<1>1. PICK k, s : /\ e.kind = k /\ e.status = s /\ e.type = "none"
                  /\ k \in {"status", "timeout", "connection", "value", "other"}
                  /\ s \in Int
                  /\ k = "status" => s >= 300
                  /\ k # "status" => s = 0
  BY DEF SdkFailures, Raised
<1>2. e # NoFailure
  BY <1>1 DEF NoFailure, Raised
<1> USE DEF CalledInvalid, Verdict, Refused, Throttled, TimedOut, Rejected, NormalizedError
<1>3. CASE req.provider = "openai"
  BY <1>1, <1>2, <1>3 DEF Classified, normalize_openai_error
<1>4. CASE req.provider = "anthropic"
  BY <1>1, <1>2, <1>4 DEF Classified, normalize_anthropic_error
<1>5. CASE req.provider = "gemini"
  BY <1>1, <1>2, <1>5 DEF Classified, normalize_gemini_error
<1>6. CASE req.provider = "openrouter"
  BY <1>1, <1>2, <1>6 DEF Classified, normalize_openrouter_error
<1> QED
  BY <1>3, <1>4, <1>5, <1>6 DEF Providers

(* What OpenRouter's adapter makes of an error within a response.          *)
LEMMA EmbeddedClassified ==
  ASSUME NEW e \in EmbeddedFailures PROVE Classified(normalize_embedded_openrouter_error(e), e)
<1>1. /\ e.kind = "embedded"
      /\ \/ e.type = "none" /\ e.status \in {0, 400, 401, 408, 429, 500}
         \/ e.type \in {"authentication", "rate_limit_exceeded", "timeout", "server", "invalid_prompt"}
  <2>1. CASE e \in {Embedded("none", c) : c \in {0, 400, 401, 408, 429, 500}}
    BY <2>1 DEF Embedded
  <2>2. CASE e \in {Embedded(t, 500) : t \in {"authentication", "rate_limit_exceeded", "timeout"}}
    BY <2>2 DEF Embedded
  <2>3. CASE e \in {Embedded(t, 401) : t \in {"server", "invalid_prompt"}}
    BY <2>3 DEF Embedded
  <2> QED
    BY <2>1, <2>2, <2>3 DEF EmbeddedFailures
<1>2. e # NoFailure
  BY <1>1 DEF NoFailure, Raised
<1>3. ~CalledInvalid(e)
  BY <1>1 DEF CalledInvalid
<1>4. normalize_embedded_openrouter_error(e) = Verdict(e)
  BY <1>1 DEF Verdict, Refused, Throttled, TimedOut, Rejected, normalize_embedded_openrouter_error
<1> QED
  BY <1>2, <1>3, <1>4 DEF Classified

(* What an adapter refuses itself is blamed on the key only if there is    *)
(* something wrong with it.                                                *)
LEMMA RefusalClassified ==
  ASSUME req.provider \in Providers, Refusal # "ok"
  PROVE  Refusal = "PROVIDER_INVALID_REQUEST" \/ (Refusal = "PROVIDER_AUTH_FAILED" /\ req.key # "ok")
<1> DEFINE Right(r) == \/ r \in {"ok", "PROVIDER_INVALID_REQUEST"}
                       \/ r = "PROVIDER_AUTH_FAILED" /\ req.key # "ok"
<1>1. Right(UsesPath) /\ Right(Credentials) /\ Right(Translated)
  BY DEF UsesPath, Credentials, Translated
<1>2. ASSUME NEW checks, DOMAIN checks \in {1..2, 1..3}, \A i \in DOMAIN checks : Right(checks[i])
      PROVE  Right(FirstRefusal(checks))
  <2>1. CASE \A i \in DOMAIN checks : checks[i] = "ok"
    BY <2>1 DEF FirstRefusal
  <2>2. CASE ~\A i \in DOMAIN checks : checks[i] = "ok"
    <3>1. PICK i \in DOMAIN checks : checks[i] # "ok" /\ \A j \in 1..i - 1 : checks[j] = "ok"
      BY <1>2, <2>2
    <3> QED
      BY <1>2, <3>1 DEF FirstRefusal
  <2> QED
    BY <2>1, <2>2
<1>3. Refusal \in {FirstRefusal(<<UsesPath, Credentials>>),
                   FirstRefusal(<<UsesPath, Credentials, Translated>>),
                   FirstRefusal(<<UsesPath, Translated, Credentials>>)}
  BY DEF Refusal, Providers, openai_refusal, anthropic_refusal, gemini_refusal, openrouter_refusal
<1>4. Right(Refusal)
  BY <1>1, <1>2, <1>3
<1> QED
  BY <1>4

LEMMA BeginsCall == ASSUME NEW r, r.provider \in Providers, Begin(r) PROVE CallInv'
BY GatewayAssumption DEF Begin, Entry, CallInv, BodyBounded, ClientReleased, ErrorsClassified, ErrorCodes

LEMMA FinishKeeps ==
  ASSUME CallInv, NEW r, NEW e, Finish(r, e), Classified(r, e) PROVE CallInv'
<1>1. ErrorsClassified'
  <2>1. /\ result' = r /\ cause' = e /\ req' = req
        /\ client = "none" => client' = "none"
    BY DEF Finish, Closed
  <2>2. CalledInvalid(e)' <=> CalledInvalid(e)
    BY <2>1 DEF CalledInvalid
  <2>3. Verdict(e)' = Verdict(e)
    BY DEF Verdict, Refused, Throttled, TimedOut, Rejected
  <2> QED
    BY <2>1, <2>2, <2>3 DEF Classified, ErrorsClassified
<1>2. ClientReleased'
  BY DEF Finish, ClientReleased, Closed
<1> QED
  BY <1>1, <1>2 DEF Finish, CallInv, BodyBounded

LEMMA RespondKeeps ==
  ASSUME CallInv, pc \in {"boundary", "body"}, NEW s, s \notin ErrorCodes, Respond(s) PROVE CallInv'
BY DEF CallInv, Respond, ErrorCodes, BodyBounded, ClientReleased, ErrorsClassified

(* A step within a call that has not failed.                               *)
LEMMA GoesOn ==
  ASSUME CallInv, pc \notin {"done", "idle"}, pc' \notin {"done", "idle", "boundary", "body", "start"},
         UNCHANGED <<req, result, cause, body>>
  PROVE  CallInv'
BY DEF CallInv, BodyBounded, ClientReleased, ErrorsClassified, ErrorCodes

(* Codes that blame neither the key nor the provider's throttling.         *)
LEMMA OwnCode ==
  ASSUME NEW r \in {"ok", "abandoned", "PROVIDER_UNAVAILABLE"} PROVE Classified(r, NoFailure)
BY DEF Classified, ErrorCodes

LEMMA BoundaryKeeps ==
  ASSUME CallInv, boundary \/ generate_embeddings \/ \E n \in 1..2 : receive_limited(n) PROVE CallInv'
<1>0. /\ body \in Nat /\ MaxBody \in Nat /\ BodyBounded
      /\ {"503", "401", "400", "413", "422", "200"} \cap ErrorCodes = {}
  BY GatewayAssumption DEF CallInv, ErrorCodes
<1>1. CASE boundary
  <2>1. CASE \E s \in {"503", "401", "400", "413"} : Respond(s)
    BY <1>0, <1>1, <2>1, RespondKeeps DEF boundary
  <2>2. CASE /\ req.token = "good" /\ pc' \in {"start", "body"}
             /\ UNCHANGED <<req, client, meta, buf, out, result, sent, cause, body>>
    BY <1>1, <2>2, Zenon DEF boundary, CallInv, BodyBounded, ClientReleased, ErrorsClassified
  <2> QED
    BY <1>1, <2>1, <2>2 DEF boundary
<1>2. CASE generate_embeddings
  <2>1. PICK s \in {"422", "200", "503"} : Respond(s)
    BY <1>2 DEF generate_embeddings
  <2> QED
    BY <1>0, <1>2, <2>1, RespondKeeps DEF generate_embeddings
<1>3. ASSUME NEW n \in 1..2, receive_limited(n) PROVE CallInv'
  <2>1. CASE body + n > MaxBody
    BY <1>0, <1>3, <2>1, RespondKeeps DEF receive_limited
  <2>2. CASE body + n <= MaxBody
    <3>1. body' = body + n /\ pc = "body"
          /\ UNCHANGED <<req, pc, client, meta, buf, out, result, sent, cause>>
      BY <1>0, <1>3, <2>2 DEF receive_limited
    <3>2. body' \in Nat /\ BodyBounded'
      BY <1>0, <2>2, <3>1 DEF BodyBounded, CallInv
    <3> QED
      BY <3>1, <3>2 DEF CallInv, ClientReleased, ErrorsClassified
  <2> QED
    BY <1>0, <2>1, <2>2
<1> QED
  BY <1>1, <1>2, <1>3

LEMMA StartKeeps == CallInv /\ Start => CallInv'
<1> SUFFICES ASSUME CallInv, Start PROVE CallInv'
  OBVIOUS
<1>1. CASE Refusal = "ok"
  BY <1>1, GoesOn DEF Start
<1>2. CASE Refusal # "ok"
  <2>1. Finish(Refusal, NoFailure)
    BY <1>2 DEF Start
  <2>2. Classified(Refusal, NoFailure)
    BY <1>2, RefusalClassified DEF Classified, CallInv, Start
  <2> QED
    BY <2>1, <2>2, FinishKeeps
<1> QED
  BY <1>1, <1>2

(* One answer of the provider, with or without an error in it.             *)
LEMMA GenerateKeeps ==
  ASSUME CallInv, NEW c \in Completions,
         \/ openai_generate(c) \/ anthropic_generate(c) \/ gemini_generate(c)
         \/ openrouter_generate(c)
  PROVE  CallInv'
<1>1. CASE openai_generate(c) \/ anthropic_generate(c) \/ gemini_generate(c)
  <2>1. PICK r \in {"ok", "PROVIDER_UNAVAILABLE"} : Finish(r, NoFailure)
    BY <1>1 DEF openai_generate, openai_completion, anthropic_generate, anthropic_message,
                gemini_generate, gemini_response
  <2> QED
    BY <2>1, OwnCode, FinishKeeps
<1>2. CASE openrouter_generate(c)
  <2>0. c.err \in {NoFailure} \cup EmbeddedFailures /\ c.choice \in BOOLEAN
        /\ (~c.choice => c.err = NoFailure)
    BY DEF Completions
  <2>1. Finish(openrouter_completion(c), c.err)
    BY <1>2 DEF openrouter_generate
  <2>2. CASE c.err = NoFailure
    <3>1. openrouter_completion(c) \in {"ok", "PROVIDER_UNAVAILABLE"}
      BY <2>2 DEF openrouter_completion
    <3> QED
      BY <2>1, <2>2, <3>1, OwnCode, FinishKeeps
  <2>3. CASE c.err # NoFailure
    <3>1. openrouter_completion(c) = normalize_embedded_openrouter_error(c.err)
      BY <2>0, <2>3 DEF openrouter_completion
    <3> QED
      BY <2>0, <2>1, <2>3, <3>1, EmbeddedClassified, FinishKeeps
  <2> QED
    BY <2>2, <2>3
<1> QED
  BY <1>1, <1>2

(* A chunk of a stream.                                                    *)
LEMMA ChunkKeeps ==
  ASSUME CallInv, NEW c \in Chunks[req.provider],
         openai_chunk(c) \/ anthropic_event(c) \/ gemini_chunk(c) \/ openrouter_chunk(c)
  PROVE  CallInv'
<1>0. c.err \in {NoFailure} \cup EmbeddedFailures
  BY GatewayAssumption DEF CallInv, StreamChunks
<1>1. CASE Taken(c)
  BY <1>1, GoesOn DEF Taken
<1>2. CASE ~Taken(c)
  <2>0. openrouter_chunk(c)
    BY <1>2 DEF openai_chunk, anthropic_event, gemini_chunk
  <2>1. CASE c.err # NoFailure
    <3>1. Finish(normalize_embedded_openrouter_error(c.err), c.err)
      BY <2>0, <2>1 DEF openrouter_chunk
    <3> QED
      BY <1>0, <2>1, <3>1, EmbeddedClassified, FinishKeeps
  <2>2. CASE c.err = NoFailure
    <3>1. Finish("PROVIDER_UNAVAILABLE", NoFailure)
      BY <1>2, <2>0, <2>2 DEF openrouter_chunk
    <3> QED
      BY <3>1, OwnCode, FinishKeeps
  <2> QED
    BY <2>1, <2>2
<1> QED
  BY <1>1, <1>2, Zenon

(* The end of a stream.                                                    *)
LEMMA EndKeeps ==
  ASSUME CallInv, \/ openai_end \/ anthropic_structured \/ anthropic_end \/ gemini_end \/ openrouter_end
                  \/ create_stream \/ resume \/ Abandon
  PROVE  CallInv'
<1>1. CASE \E r \in {"ok", "abandoned", "PROVIDER_UNAVAILABLE"} : Finish(r, NoFailure)
  BY <1>1, OwnCode, FinishKeeps
<1>2. CASE /\ pc \in {"awaiting", "streaming", "structured"}
           /\ pc' \in {"streaming", "structured", "last"}
           /\ UNCHANGED <<req, result, cause, body>>
  BY <1>2, GoesOn
<1>3. CASE create_stream \/ resume \/ Abandon
  BY <1>1, <1>2, <1>3 DEF create_stream, resume, Abandon
<1>4. CASE openai_end \/ gemini_end \/ openrouter_end
  BY <1>1, <1>2, <1>4, Zenon DEF openai_end, gemini_end, openrouter_end, YieldLast
<1>5. CASE anthropic_structured \/ anthropic_end
  BY <1>1, <1>2, <1>5, Zenon DEF anthropic_structured, anthropic_end, YieldLast
<1> QED
  BY <1>3, <1>4, <1>5

LEMMA ServeKeeps == CallInv /\ GatewayNext => CallInv'
<1> SUFFICES ASSUME CallInv, GatewayNext PROVE CallInv'
  OBVIOUS
<1>1. ASSUME NEW e \in SdkFailures, Fails(e) PROVE CallInv'
  <2>1. Finish(NormalizedError(e), e) /\ Classified(NormalizedError(e), e)
    BY <1>1, SdkClassified DEF Fails, CallInv
  <2> QED
    BY <2>1, FinishKeeps
<1>2. PlainCompletions \subseteq Completions
  BY DEF PlainCompletions
<1>3. CASE boundary \/ generate_embeddings \/ \E n \in 1..2 : receive_limited(n)
  BY <1>3, BoundaryKeeps
<1>4. CASE \/ openai_end \/ anthropic_structured \/ anthropic_end \/ gemini_end \/ openrouter_end
           \/ create_stream \/ resume \/ Abandon
  BY <1>4, EndKeeps
<1>5. CASE \E c \in Completions : \/ openai_generate(c) \/ anthropic_generate(c)
                                 \/ gemini_generate(c) \/ openrouter_generate(c)
  BY <1>5, GenerateKeeps
<1>6. CASE \E c \in Chunks[req.provider] :
             openai_chunk(c) \/ anthropic_event(c) \/ gemini_chunk(c) \/ openrouter_chunk(c)
  BY <1>6, ChunkKeeps
<1>7. CASE Start
  BY <1>7, StartKeeps
<1> QED
  BY <1>1, <1>2, <1>3, <1>4, <1>5, <1>6, <1>7, Zenon DEF GatewayNext

(* Every request names one of the four providers.                          *)
LEMMA CallNamed == \A path, p : Call(path, p).provider = p
BY DEF Call

LEMMA TestNamed ==
  ASSUME NEW p \in Providers, NEW x
  PROVE  /\ [Call("test", p) EXCEPT !.key = x].provider \in Providers
         /\ [Call("test", p) EXCEPT !.token = x].provider \in Providers
BY DEF Call

LEMMA DirectNamed == \A r \in AdapterCalls \cup EmbedCalls : r.provider \in Providers
BY Zenon DEF AdapterCalls, EmbedCalls, Providers

LEMMA CallStarts == Init => CallInv
<1> SUFFICES ASSUME Init PROVE CallInv
  OBVIOUS
<1>1. PICK r : GatewayInit(r) /\ r.provider \in Providers
  <2>1. "openai" \in Providers
    BY DEF Providers
  <2> QED
    BY <2>1, CallNamed, DirectNamed DEF Init
<1> QED
  BY <1>1, GatewayAssumption
     DEF GatewayInit, CallInv, BodyBounded, ClientReleased, ErrorsClassified, ErrorCodes, Entry

LEMMA CallUntouched == CallInv /\ UNCHANGED gatewayVars => CallInv'
<1> SUFFICES ASSUME CallInv, UNCHANGED gatewayVars PROVE CallInv'
  OBVIOUS
<1>1. req' = req /\ pc' = pc /\ client' = client /\ result' = result /\ cause' = cause /\ body' = body
  BY DEF gatewayVars
<1>2. BodyBounded' /\ ClientReleased'
  BY <1>1 DEF CallInv, BodyBounded, ClientReleased
<1>3. ErrorsClassified'
  BY <1>1 DEF CallInv, ErrorsClassified, CalledInvalid, Verdict, Refused, Throttled, TimedOut, Rejected
<1> QED
  BY <1>1, <1>2, <1>3 DEF CallInv

(* Every step of the API and of the gateway keeps CallInv.                 *)
LEMMA CallKept == CallInv /\ [Next]_vars => CallInv'
<1> SUFFICES ASSUME CallInv, [Next]_vars PROVE CallInv'
  OBVIOUS
<1>1. CASE post
  <2>1. CASE UNCHANGED gatewayVars
    BY <2>1, CallUntouched
  <2>2. CASE ~UNCHANGED gatewayVars
    <3>1. PICK r : Begin(r) /\ r.provider \in Providers
      <4>1. CASE \E p \in Providers, key \in {"ok", "blank"} : Begin([Call("test", p) EXCEPT !.key = key])
        BY <4>1, TestNamed, Zenon
      <4>2. CASE \E p \in Providers, token \in {"bad", "unset"} :
                   Begin([Call("test", p) EXCEPT !.token = token])
        BY <4>2, TestNamed, Zenon
      <4> QED
        BY <1>1, <2>2, <4>1, <4>2 DEF post
    <3> QED
      BY <3>1, BeginsCall
  <2> QED
    BY <2>1, <2>2
<1>2. CASE gateway_answer \/ gateway_timeout \/ gateway_lost
  <2>1. Begin(Call("none", "openai")) /\ Call("none", "openai").provider \in Providers
    BY <1>2, CallNamed DEF gateway_answer, gateway_timeout, gateway_lost, record, Providers
  <2> QED
    BY <2>1, BeginsCall
<1>3. CASE Serve
  BY <1>3, ServeKeeps DEF Serve
<1>4. CASE UNCHANGED gatewayVars
  BY <1>4, CallUntouched
<1>5. CASE (\E u \in Users, c \in Conns : check_limits(u, c)) \/ LimitStep \/ UNCHANGED vars
  BY <1>4, <1>5, Zenon DEF check_limits, LimitStep, vars
<1> QED
  BY <1>1, <1>2, <1>3, <1>5 DEF Next

(* For every stream a provider may send and every body limit: the clients   *)
(* of Gemini and OpenRouter are closed however the call ends, no more of a  *)
(* body is passed on than the cap, and every failure gets its code.         *)
THEOREM CallsSound == Spec => []CallInv
BY CallStarts, CallKept, PTL DEF Spec

(* The finally clauses of the Gemini and OpenRouter adapters.              *)
THEOREM ClientsReleased == Spec => []ClientReleased
<1>1. CallInv => ClientReleased
  BY DEF CallInv
<1> QED
  BY <1>1, CallsSound, PTL

(* The cap and the token of InternalGatewayBoundaryMiddleware.             *)
THEOREM BodiesBounded == Spec => []BodyBounded
<1>1. CallInv => BodyBounded
  BY DEF CallInv
<1> QED
  BY <1>1, CallsSound, PTL

(* The error normalisation of the four adapters: for every stream a         *)
(* provider may send, each failure gets the code of Verdict, except for the *)
(* three of CalledInvalid, and the adapter's own refusals come before there *)
(* is a client.                                                             *)
THEOREM FailuresClassified == Spec => []ErrorsClassified
<1>1. CallInv => ErrorsClassified
  BY DEF CallInv
<1> QED
  BY <1>1, CallsSound, PTL

(* What is recorded on a connection.                                       *)
StatusInv == DOMAIN status = Conns /\ DOMAIN proof = Conns /\ StatusProven

(* What the API takes from the gateway's answer is evidence.               *)
LEMMA AnswerEvident ==
  ASSUME CallInv, pc = "done"
  PROVE  /\ Answer(result) = "ok" => Evidence = "answered"
         /\ Answer(result) = "PROVIDER_AUTH_FAILED" => Evidence = "refused"
<1>1. ASSUME Answer(result) = "ok" PROVE Evidence = "answered"
  BY <1>1 DEF Answer, ErrorCodes, Evidence
<1>2. ASSUME Answer(result) = "PROVIDER_AUTH_FAILED" PROVE Evidence = "refused"
  <2>1. result = "PROVIDER_AUTH_FAILED"
    BY <1>2 DEF Answer, ErrorCodes
  <2>2. Refused(cause) \/ req.key # "ok"
    <3>1. CASE cause # NoFailure
      BY <2>1, <3>1 DEF CallInv, ErrorsClassified, Verdict
    <3>2. CASE cause = NoFailure
      BY <2>1, <3>2 DEF CallInv, ErrorsClassified, ErrorCodes
    <3> QED
      BY <3>1, <3>2
  <2> QED
    BY <2>1, <2>2 DEF Evidence
<1> QED
  BY <1>1, <1>2

LEMMA RecordKeeps ==
  ASSUME StatusInv, NEW o, record(o),
         o = "ok" => Evidence = "answered",
         o = "PROVIDER_AUTH_FAILED" => Evidence = "refused"
  PROVE  StatusInv'
<1>1. DOMAIN status' = Conns /\ DOMAIN proof' = Conns
  BY DEF record, StatusInv
<1>2. ASSUME NEW c \in Conns
      PROVE  /\ status'[c] = "active" => proof'[c] = "answered"
             /\ status'[c] = "invalid" => proof'[c] = "refused"
  <2>0. (status[c] = "active" => proof[c] = "answered") /\ (status[c] = "invalid" => proof[c] = "refused")
    BY DEF StatusInv, StatusProven
  <2>1. CASE c # conn
    BY <2>0, <2>1 DEF record, StatusInv
  <2>2. CASE c = conn
    <3>1. proof'[c] = IF o \in {"ok", "PROVIDER_AUTH_FAILED"} THEN Evidence ELSE proof[c]
      BY <2>2 DEF record, StatusInv
    <3>2. CASE o = "ok"
      <4>1. status'[c] = "active"
        BY <2>2, <3>2 DEF record, StatusInv
      <4> QED
        BY <3>1, <3>2, <4>1
    <3>3. CASE o = "PROVIDER_AUTH_FAILED"
      <4>1. status'[c] = "invalid"
        BY <2>2, <3>3 DEF record, StatusInv
      <4> QED
        BY <3>1, <3>3, <4>1
    <3>4. CASE o \notin {"ok", "PROVIDER_AUTH_FAILED"}
      <4>1. status'[c] = status[c]
        BY <2>2, <3>4 DEF record, StatusInv
      <4> QED
        BY <2>0, <3>1, <3>4, <4>1
    <3> QED
      BY <3>2, <3>3, <3>4
  <2> QED
    BY <2>1, <2>2
<1> QED
  BY <1>1, <1>2, Zenon DEF StatusInv, StatusProven

(* However tests, timeouts, lost answers and throttling alternate, on any   *)
(* number of connections: a status rests on what the provider said of the   *)
(* key, and no other failure of a test changes it.                          *)
THEOREM StatusesProven == Spec => []StatusProven
<1>1. Init => StatusInv
  BY DEF Init, StatusInv, StatusProven
<1>2. CallInv /\ StatusInv /\ [Next]_vars => StatusInv'
  <2> SUFFICES ASSUME CallInv, StatusInv, [Next]_vars PROVE StatusInv'
    OBVIOUS
  <2>1. CASE gateway_answer
    BY <2>1, AnswerEvident, RecordKeeps DEF gateway_answer
  <2>2. CASE gateway_timeout \/ gateway_lost
    BY <2>2, RecordKeeps DEF gateway_timeout, gateway_lost
  <2>3. CASE UNCHANGED <<status, proof>>
    BY <2>3 DEF StatusInv, StatusProven
  <2>4. CASE \/ \E u \in Users, c \in Conns : check_limits(u, c)
             \/ post \/ Serve \/ LimitStep \/ UNCHANGED vars
    BY <2>3, <2>4, Zenon DEF check_limits, post, Serve, LimitStep, vars
  <2> QED
    BY <2>1, <2>2, <2>4 DEF Next
<1>3. StatusInv => StatusProven
  BY DEF StatusInv
<1> QED
  BY <1>1, <1>2, <1>3, CallsSound, PTL DEF Spec

-----------------------------------------------------------------------------
(* Streams.  First, what appending does to the texts of two sequences.     *)
Grown(u, s, x) ==
  \E n \in Nat : /\ DOMAIN s = 1..n /\ DOMAIN u = 1..n + 1
                 /\ u[n + 1] = x /\ \A i \in 1..n : u[i] = s[i]

LEMMA Growing == ASSUME NEW S, NEW s \in Seq(S), NEW x \in S PROVE Grown(Append(s, x), s, x)
<1>1. PICK u, n : u = Append(s, x) /\ n = Len(s)
  BY Zenon
<1>2. /\ n \in Nat /\ DOMAIN s = 1..n /\ DOMAIN u = 1..n + 1
      /\ u[n + 1] = x /\ \A i \in 1..n : u[i] = s[i]
  BY <1>1, Appending
<1>3. Grown(u, s, x)
  BY <1>2 DEF Grown
<1> QED
  BY <1>1, <1>3

LEMMA GrownSilent ==
  ASSUME NEW u, NEW s, NEW x, Grown(u, s, x), x.text = "none"
  PROVE  Textual(u) = Textual(s) /\ \A i \in Textual(s) : u[i] = s[i]
<1>1. PICK n \in Nat : /\ DOMAIN s = 1..n /\ DOMAIN u = 1..n + 1
                      /\ u[n + 1] = x /\ \A i \in 1..n : u[i] = s[i]
  BY DEF Grown
<1>2. 1..n + 1 = 1..n \cup {n + 1}
  OBVIOUS
<1>3. \A i : i \in Textual(u) <=> i \in Textual(s)
  BY <1>1, <1>2 DEF Textual
<1>4. \A i \in Textual(s) : u[i] = s[i]
  BY <1>1 DEF Textual
<1> QED
  BY <1>3, <1>4

LEMMA GrownSaid ==
  ASSUME NEW u, NEW s, NEW x, Grown(u, s, x), x.text # "none"
  PROVE  \E m \in Nat : /\ Textual(u) = Textual(s) \cup {m} /\ u[m] = x
                        /\ \A i \in Textual(s) : i \in Nat /\ i < m /\ u[i] = s[i]
<1>1. PICK n \in Nat : /\ DOMAIN s = 1..n /\ DOMAIN u = 1..n + 1
                      /\ u[n + 1] = x /\ \A i \in 1..n : u[i] = s[i]
  BY DEF Grown
<1>2. 1..n + 1 = 1..n \cup {n + 1} /\ n + 1 \in Nat /\ \A i \in 1..n : i \in Nat /\ i < n + 1
  OBVIOUS
<1>3. PICK m : m = n + 1
  OBVIOUS
<1>4. \A i : i \in Textual(u) <=> i \in Textual(s) \/ i = m
  BY <1>1, <1>2, <1>3 DEF Textual
<1>5. \A i \in Textual(s) : i \in Nat /\ i < m /\ u[i] = s[i]
  BY <1>1, <1>2, <1>3 DEF Textual
<1>6. Textual(u) = Textual(s) \cup {m}
  BY <1>4
<1> QED
  BY <1>1, <1>2, <1>3, <1>5, <1>6

(* Order isomorphisms of sets of numbers, as SameTexts has them.           *)
Matches(f, s, t) ==
  /\ f \in [Textual(s) -> Textual(t)]
  /\ \A i, j \in Textual(s) : i < j => f[i] < f[j]
  /\ \A k \in Textual(t) : \E i \in Textual(s) : f[i] = k
  /\ \A i \in Textual(s) : s[i].text = t[f[i]].text

LEMMA SameByMatch == \A s, t : SameTexts(s, t) <=> \E f : Matches(f, s, t)
BY DEF SameTexts, Matches

LEMMA NothingSaid == SameTexts(<<>>, <<>>)
<1>1. Textual(<<>>) = {}
  BY DEF Textual
<1>2. [i \in {} |-> i] \in [{} -> {}]
  OBVIOUS
<1>3. Matches([i \in {} |-> i], <<>>, <<>>)
  BY <1>1, <1>2 DEF Matches
<1> QED
  BY <1>3, SameByMatch

(* A silent element changes nothing, on either side.                       *)
LEMMA SilentRight ==
  ASSUME NEW s, NEW t, NEW x, x.text = "none", SameTexts(s, t), NEW u, Grown(u, t, x)
  PROVE  SameTexts(s, u)
<1>1. PICK f : Matches(f, s, t)
  BY SameByMatch
<1>2. Textual(u) = Textual(t) /\ \A i \in Textual(t) : u[i] = t[i]
  BY GrownSilent
<1>3. Matches(f, s, u)
  BY <1>1, <1>2 DEF Matches
<1> QED
  BY <1>3, SameByMatch

LEMMA SilentLeft ==
  ASSUME NEW s, NEW t, NEW x, x.text = "none", SameTexts(s, t), NEW u, Grown(u, s, x)
  PROVE  SameTexts(u, t)
<1>1. PICK f : Matches(f, s, t)
  BY SameByMatch
<1>2. Textual(u) = Textual(s) /\ \A i \in Textual(s) : u[i] = s[i]
  BY GrownSilent
<1>3. Matches(f, u, t)
  BY <1>1, <1>2 DEF Matches
<1> QED
  BY <1>3, SameByMatch

(* The same text at the end of both.                                       *)
LEMMA SaidOnBoth ==
  ASSUME NEW s, NEW t, NEW x, NEW y, x.text # "none", x.text = y.text, SameTexts(s, t),
         NEW u, Grown(u, s, x), NEW v, Grown(v, t, y)
  PROVE  SameTexts(u, v)
<1>1. PICK f : Matches(f, s, t)
  BY SameByMatch
<1>2. PICK A, B : A = Textual(s) /\ B = Textual(t)
  OBVIOUS
<1>3. PICK m \in Nat : /\ Textual(u) = A \cup {m} /\ u[m] = x
                      /\ \A i \in A : i \in Nat /\ i < m /\ u[i] = s[i]
  BY <1>2, GrownSaid
<1>4. PICK n \in Nat : /\ Textual(v) = B \cup {n} /\ v[n] = y
                      /\ \A i \in B : i \in Nat /\ i < n /\ v[i] = t[i]
  BY <1>2, GrownSaid
<1>5. /\ \A i \in A : i \in Nat /\ i < m
      /\ \A i \in B : i \in Nat /\ i < n
  BY <1>3, <1>4, Zenon
<1>6. /\ f \in [A -> B] /\ (\A i, j \in A : i < j => f[i] < f[j])
      /\ (\A k \in B : \E i \in A : f[i] = k) /\ \A i \in A : s[i].text = t[f[i]].text
  BY <1>1, <1>2 DEF Matches
<1>7. PICK g : g = [i \in A \cup {m} |-> IF i = m THEN n ELSE f[i]]
  BY Zenon
<1>8. m \notin A
  BY <1>5
<1>9. g \in [A \cup {m} -> B \cup {n}] /\ g[m] = n /\ \A i \in A : g[i] = f[i] /\ f[i] \in B
  BY <1>6, <1>7, <1>8
<1>10. ASSUME NEW i \in A \cup {m}, NEW j \in A \cup {m}, i < j PROVE g[i] < g[j]
  <2>1. i # m
    BY <1>3, <1>5, <1>10
  <2>2. CASE j \in A
    BY <1>6, <1>9, <1>10, <2>1, <2>2
  <2>3. CASE j = m
    BY <1>5, <1>9, <2>1, <2>3
  <2> QED
    BY <2>2, <2>3
<1>11. \A k \in B \cup {n} : \E i \in A \cup {m} : g[i] = k
  BY <1>6, <1>9
<1>12. ASSUME NEW i \in A \cup {m} PROVE u[i].text = v[g[i]].text
  <2>1. CASE i = m
    <3>1. u[i] = x /\ v[g[i]] = y
      BY <1>3, <1>4, <1>9, <2>1
    <3> QED
      BY <3>1
  <2>2. CASE i \in A
    <3>1. u[i] = s[i] /\ g[i] = f[i] /\ f[i] \in B
      BY <1>3, <1>9, <2>2
    <3>2. v[g[i]] = t[f[i]] /\ s[i].text = t[f[i]].text
      BY <1>4, <1>6, <2>2, <3>1, Zenon
    <3> QED
      BY <3>1, <3>2
  <2> QED
    BY <2>1, <2>2
<1>13. Matches(g, u, v)
  BY <1>3, <1>4, <1>9, <1>10, <1>11, <1>12, Zenon DEF Matches
<1> QED
  BY <1>13, SameByMatch

(* Text held back, seen as a sequence of fragments.                        *)
LEMMA FragmentsAppend ==
  ASSUME NEW b \in Seq({"head", "tail"}), NEW x \in {"head", "tail"}
  PROVE  /\ Fragments(b) \in Seq([text : {"head", "tail"}])
         /\ Fragments(Append(b, x)) = Append(Fragments(b), [text |-> x])
<1> DEFINE F == Fragments(b)
           G == Fragments(Append(b, x))
<1>1. F = [i \in 1..Len(b) |-> [text |-> b[i]]] /\ Len(b) \in Nat
  BY DEF Fragments
<1>2. F \in Seq([text : {"head", "tail"}]) /\ Len(F) = Len(b)
  BY <1>1
<1>3. G = [i \in 1..Len(b) + 1 |-> [text |-> Append(b, x)[i]]]
  BY DEF Fragments
<1>4. Append(F, [text |-> x]) = [i \in 1..Len(b) + 1 |-> IF i = Len(b) + 1 THEN [text |-> x] ELSE F[i]]
  BY <1>2
<1>5. ASSUME NEW i \in 1..Len(b) + 1
      PROVE  [text |-> Append(b, x)[i]] = IF i = Len(b) + 1 THEN [text |-> x] ELSE F[i]
  <2>1. CASE i = Len(b) + 1
    BY <2>1
  <2>2. CASE i # Len(b) + 1
    <3>1. i \in 1..Len(b)
      BY <1>1, <2>2
    <3> QED
      BY <1>1, <2>2, <3>1
  <2> QED
    BY <2>1, <2>2
<1>6. G = Append(F, [text |-> x])
  BY <1>3, <1>4, <1>5
<1> QED
  BY <1>2, <1>6

(* f is the last finish reason of s.                                       *)
FinSeen(s, f) ==
  \/ f = "none" /\ \A j \in DOMAIN s : s[j].fin = "none"
  \/ /\ f # "none"
     /\ \E j \in DOMAIN s : s[j].fin = f /\ \A k \in DOMAIN s : s[k].fin # "none" => k <= j

LEMMA FinAppend ==
  ASSUME NEW s \in Seq(StreamChunks), NEW c \in StreamChunks, NEW f, FinSeen(s, f)
  PROVE  FinSeen(Append(s, c), IF c.fin # "none" THEN c.fin ELSE f)
<1>0. PICK u : u = Append(s, c)
  BY Zenon
<1>1. /\ DOMAIN u = 1..Len(s) + 1 /\ DOMAIN s = 1..Len(s) /\ Len(s) \in Nat
      /\ u[Len(s) + 1] = c /\ \A i \in 1..Len(s) : u[i] = s[i]
  BY <1>0, Appending
<1>2. CASE c.fin # "none"
  <2>1. Len(s) + 1 \in DOMAIN u /\ \A k \in DOMAIN u : k <= Len(s) + 1
    BY <1>1
  <2>2. FinSeen(u, c.fin)
    BY <1>1, <1>2, <2>1 DEF FinSeen
  <2> QED
    BY <1>0, <1>2, <2>2
<1>3. CASE c.fin = "none"
  <2>1. \A k \in DOMAIN u : k \in DOMAIN s \/ (k = Len(s) + 1 /\ u[k].fin = "none")
    BY <1>1, <1>3
  <2>2. \A k \in DOMAIN s : k \in DOMAIN u /\ u[k] = s[k]
    BY <1>1
  <2>3. FinSeen(u, f)
    BY <2>1, <2>2 DEF FinSeen
  <2> QED
    BY <1>0, <1>3, <2>3
<1> QED
  BY <1>2, <1>3

LEMMA FinIsLast == ASSUME sent \in Seq(StreamChunks), NEW f, FinSeen(sent, f) PROVE LastFin = f
<1>1. CASE \A j \in DOMAIN sent : sent[j].fin = "none"
  BY <1>1 DEF LastFin, Finishing, FinSeen
<1>2. CASE ~\A j \in DOMAIN sent : sent[j].fin = "none"
  <2>1. PICK j \in DOMAIN sent : sent[j].fin = f /\ f # "none" /\ \A k \in DOMAIN sent : sent[k].fin # "none" => k <= j
    BY <1>2 DEF FinSeen
  <2>2. j \in Finishing /\ \A k \in Finishing : k <= j
    BY <2>1 DEF Finishing
  <2>3. \A k \in Finishing : k \in Nat
    BY DEF Finishing
  <2> DEFINE l == CHOOSE l \in Finishing : \A k \in Finishing : k <= l
  <2>4. l \in Finishing /\ \A k \in Finishing : k <= l
    BY <2>2
  <2>5. l = j
    BY <2>2, <2>3, <2>4
  <2> QED
    BY <2>1, <2>2, <2>5, Zenon DEF LastFin
<1> QED
  BY <1>1, <1>2

Metas == [fin : {"none", "stop", "error"}, usage : BOOLEAN, id : BOOLEAN]
Events == [text : {"none", "head", "tail"}, structured : BOOLEAN, meta : Metas]

(* What the generator knows agrees with what the provider sent: the        *)
(* metadata, and the text it has yielded or holds back.                    *)
Known ==
  /\ meta \in Metas /\ sent \in Seq(StreamChunks)
  /\ FinSeen(sent, meta.fin)
  /\ meta.id <=> \E j \in DOMAIN sent : sent[j].id
  /\ meta.usage <=> \E j \in DOMAIN sent : sent[j].usage

Told ==
  /\ req.schema \in BOOLEAN /\ out \in Seq(Events) /\ buf \in Seq({"head", "tail"})
  /\ Holds => Textual(out) = {} /\ SameTexts(Fragments(buf), sent)
  /\ ~Holds => SameTexts(out, sent)

Open == \A i \in DOMAIN out : ~Terminal(out[i])
Parsed == \E i \in DOMAIN out : out[i].structured

(* The last event has been yielded, and reports the metadata.              *)
Ended ==
  /\ out # <<>> /\ Terminal(out[Len(out)])
  /\ \A i \in DOMAIN out : Terminal(out[i]) => i = Len(out)
  /\ out[Len(out)].meta.fin = meta.fin /\ out[Len(out)].meta.id = meta.id
  /\ req.provider # "anthropic" => out[Len(out)].meta.usage = meta.usage
  /\ req.provider = "anthropic" => meta.fin # "none" /\ meta.id
  /\ Holds => Parsed

(* How far the stream is.                                                  *)
Placed ==
  /\ Parsed => buf = Whole
  /\ pc \notin {"structured", "last", "done"} => Open /\ ~Parsed
  /\ pc = "structured" => Open /\ Parsed
  /\ pc = "last" => Ended
  /\ pc = "done" => /\ Open \/ Ended
                    /\ result \in ErrorCodes => Open
                    /\ result = "ok" /\ Streams => Ended

StreamInv == Known /\ Told /\ Placed

LEMMA DataKept ==
  ASSUME UNCHANGED <<req, meta, buf, out, sent>>
  PROVE  /\ (Known => Known') /\ (Told => Told') /\ (Ended' <=> Ended)
         /\ (Open' <=> Open) /\ (Parsed' <=> Parsed) /\ (Streams' <=> Streams)
<1>1. Known => Known'
  BY DEF Known
<1>2. Told => Told'
  BY DEF Told, Holds
<1>3. (Open' <=> Open) /\ (Parsed' <=> Parsed) /\ (Streams' <=> Streams)
  BY DEF Open, Parsed, Streams
<1>4. Ended' <=> Ended
  BY <1>3, Zenon DEF Ended, Holds
<1> QED
  BY <1>1, <1>2, <1>3, <1>4

(* The call goes on without an event.                                      *)
LEMMA MovesOn ==
  ASSUME StreamInv, UNCHANGED <<req, meta, buf, out, sent>>,
         pc \notin {"structured", "last", "done"}, pc' \notin {"structured", "last", "done"}
  PROVE  StreamInv'
BY DataKept, Zenon DEF StreamInv, Placed

(* The call ends: with success after the last event only, and with an      *)
(* error before it only.                                                   *)
LEMMA Stops ==
  ASSUME StreamInv, UNCHANGED <<req, meta, buf, out, sent>>,
         pc # "done", pc' = "done", result' \in ErrorCodes => pc # "last",
         result' = "ok" /\ Streams => pc = "last"
  PROVE  StreamInv'
<1>1. (Open \/ Ended) /\ (pc # "last" => Open) /\ (pc = "last" => Ended)
  BY DEF StreamInv, Placed
<1>2. /\ Open' \/ Ended'
      /\ result' \in ErrorCodes => Open'
      /\ result' = "ok" /\ Streams' => Ended'
  BY <1>1, DataKept
<1>3. Parsed' => buf' = Whole
  BY DataKept DEF StreamInv, Placed
<1>4. Placed'
  BY <1>2, <1>3 DEF Placed
<1> QED
  BY <1>4, DataKept DEF StreamInv

LEMMA FinishStops ==
  ASSUME StreamInv, NEW r, NEW e, Finish(r, e), pc # "done",
         r \in ErrorCodes => pc # "last", r = "ok" /\ Streams => pc = "last"
  PROVE  StreamInv'
<1>1. /\ UNCHANGED <<req, meta, buf, out, sent>> /\ pc' = "done" /\ result' = r
  BY DEF Finish
<1> QED
  BY <1>1, Stops

LEMMA RespondStops ==
  ASSUME StreamInv, NEW s, Respond(s), pc # "done", s \notin ErrorCodes, s # "ok"
  PROVE  StreamInv'
<1>1. /\ UNCHANGED <<req, meta, buf, out, sent>> /\ pc' = "done" /\ result' = s
  BY DEF Respond
<1> QED
  BY <1>1, Stops

(* An event at the end of those yielded.                                   *)
LEMMA EventAppend ==
  ASSUME out \in Seq(Events), NEW e \in Events, out' = Append(out, e)
  PROVE  /\ out' \in Seq(Events) /\ out' # <<>> /\ Len(out') = Len(out) + 1 /\ out'[Len(out')] = e
         /\ Len(out') \in DOMAIN out'
         /\ \A i \in DOMAIN out' : i = Len(out') \/ (i \in DOMAIN out /\ i # Len(out') /\ out'[i] = out[i])
         /\ \A i \in DOMAIN out : i \in DOMAIN out' /\ out'[i] = out[i]
<1>1. PICK n : n = Len(out)
  OBVIOUS
<1>2. /\ n \in Nat /\ Len(out') = n + 1 /\ out' \in Seq(Events) /\ DOMAIN out = 1..n
      /\ DOMAIN out' = 1..n + 1 /\ out'[n + 1] = e /\ \A i \in 1..n : out'[i] = out[i]
  BY <1>1, Appending
<1>3. out' # <<>>
  BY <1>2
<1>4. \A i \in 1..n + 1 : i = n + 1 \/ (i \in 1..n /\ i # n + 1)
  BY <1>2
<1>5. n + 1 \in 1..n + 1 /\ \A i \in 1..n : i \in 1..n + 1
  BY <1>2
<1> QED
  BY <1>1, <1>2, <1>3, <1>4, <1>5

(* A chunk is taken: the metadata follows.                                 *)
LEMMA TakenKnown ==
  ASSUME Known, NEW c \in StreamChunks, Taken(c) PROVE Known'
<1>1. sent' = Append(sent, c) /\ meta' = Merged(c) /\ sent \in Seq(StreamChunks) /\ meta \in Metas
  BY DEF Taken, Known
<1>2. /\ sent' \in Seq(StreamChunks) /\ DOMAIN sent' = 1..Len(sent) + 1 /\ DOMAIN sent = 1..Len(sent)
      /\ Len(sent) \in Nat /\ sent'[Len(sent) + 1] = c /\ \A i \in 1..Len(sent) : sent'[i] = sent[i]
  BY <1>1, Appending
<1>3. c.id \in BOOLEAN /\ c.usage \in BOOLEAN /\ c.fin \in {"none", "stop", "error"}
  BY DEF StreamChunks
<1>4. meta.id \in BOOLEAN /\ meta.usage \in BOOLEAN /\ meta.fin \in {"none", "stop", "error"}
  BY <1>1 DEF Metas
<1>5. /\ meta'.fin = (IF c.fin # "none" THEN c.fin ELSE meta.fin)
      /\ meta'.usage = (meta.usage \/ c.usage) /\ meta'.id = (meta.id \/ c.id)
  BY <1>1 DEF Merged
<1>6. meta' \in Metas
  BY <1>1, <1>3, <1>4, Zenon DEF Merged, Metas
<1>7. FinSeen(sent', meta'.fin)
  <2>1. FinSeen(sent, meta.fin)
    BY DEF Known
  <2> QED
    BY <1>1, <1>5, <2>1, FinAppend
<1>8. meta'.id <=> \E j \in DOMAIN sent' : sent'[j].id
  <2>1. meta.id <=> \E j \in DOMAIN sent : sent[j].id
    BY DEF Known
  <2>2. (\E j \in DOMAIN sent' : sent'[j].id) <=> (\E j \in DOMAIN sent : sent[j].id) \/ c.id
    BY <1>2
  <2> QED
    BY <1>3, <1>4, <1>5, <2>1, <2>2
<1>9. meta'.usage <=> \E j \in DOMAIN sent' : sent'[j].usage
  <2>1. meta.usage <=> \E j \in DOMAIN sent : sent[j].usage
    BY DEF Known
  <2>2. (\E j \in DOMAIN sent' : sent'[j].usage) <=> (\E j \in DOMAIN sent : sent[j].usage) \/ c.usage
    BY <1>2
  <2> QED
    BY <1>3, <1>4, <1>5, <2>1, <2>2
<1> QED
  BY <1>2, <1>6, <1>7, <1>8, <1>9 DEF Known

(* ... and its text, where there is one, is yielded or held back.          *)
LEMMA YieldedTold ==
  ASSUME Known, Told, Open, ~Parsed, NEW c \in StreamChunks, Taken(c), Yielded(c), ~Holds
  PROVE  Told' /\ Open' /\ ~Parsed'
<1>0. /\ out \in Seq(Events) /\ sent \in Seq(StreamChunks) /\ sent' = Append(sent, c) /\ SameTexts(out, sent)
      /\ c.text \in {"none", "head", "tail"}
      /\ req' = req /\ buf' = buf /\ req.schema \in BOOLEAN /\ buf \in Seq({"head", "tail"})
  BY DEF Known, Told, Taken, Yielded, StreamChunks
<1>s. Grown(sent', sent, c)
  BY <1>0, Growing
<1>1. CASE c.text = "none"
  <2>1. out' = out
    BY <1>1 DEF Yielded
  <2>2. SameTexts(out', sent')
    BY <1>0, <1>s, <1>1, <2>1, SilentRight
  <2> QED
    BY <1>0, <2>1, <2>2 DEF Told, Holds, Open, Parsed
<1>2. CASE c.text # "none"
  <2>1. PICK e : e = Event(c.text, FALSE, NoMeta)
    BY Zenon
  <2>2. e.text = c.text /\ e.structured = FALSE /\ ~Terminal(e) /\ e \in Events
    BY <1>0, <2>1, Zenon DEF Event, Terminal, Events, NoMeta, Metas
  <2>3. out' = Append(out, e)
    BY <1>2, <2>1, Zenon DEF Yielded
  <2>4. SameTexts(out', sent')
    <3>1. Grown(out', out, e)
      BY <1>0, <2>2, <2>3, Growing
    <3> QED
      BY <1>0, <1>s, <1>2, <2>2, <3>1, SaidOnBoth
  <2>5. out' \in Seq(Events) /\ \A i \in DOMAIN out' : out'[i] = e \/ (i \in DOMAIN out /\ out'[i] = out[i])
    BY <1>0, <2>2, <2>3, EventAppend
  <2>6. Open' /\ ~Parsed'
    BY <2>2, <2>5 DEF Open, Parsed
  <2> QED
    BY <1>0, <2>4, <2>5, <2>6 DEF Told, Holds
<1> QED
  BY <1>1, <1>2

LEMMA HeldTold ==
  ASSUME Known, Told, Open, ~Parsed, NEW c \in StreamChunks, Taken(c), Held(c), Holds
  PROVE  Told' /\ Open' /\ ~Parsed'
<1>0. /\ sent \in Seq(StreamChunks) /\ sent' = Append(sent, c) /\ SameTexts(Fragments(buf), sent)
      /\ c.text \in {"none", "head", "tail"} /\ Textual(out) = {}
      /\ req' = req /\ out' = out /\ req.schema \in BOOLEAN /\ buf \in Seq({"head", "tail"})
      /\ out \in Seq(Events)
  BY DEF Known, Told, Taken, Held, StreamChunks
<1>s. Grown(sent', sent, c)
  BY <1>0, Growing
<1>1. CASE c.text = "none"
  <2>1. buf' = buf
    BY <1>1 DEF Held
  <2>2. SameTexts(Fragments(buf'), sent')
    BY <1>0, <1>s, <1>1, <2>1, SilentRight
  <2> QED
    BY <1>0, <2>1, <2>2, Zenon DEF Told, Holds, Open, Parsed
<1>2. CASE c.text # "none"
  <2>1. buf' = Append(buf, c.text) /\ c.text \in {"head", "tail"}
    BY <1>0, <1>2 DEF Held
  <2>2. PICK x : x = [text |-> c.text]
    BY Zenon
  <2>3. x.text = c.text /\ x \in [text : {"head", "tail"}]
    BY <2>1, <2>2, Zenon
  <2>4. Fragments(buf) \in Seq([text : {"head", "tail"}]) /\ Fragments(buf') = Append(Fragments(buf), x)
    BY <1>0, <2>1, <2>2, FragmentsAppend
  <2>5. SameTexts(Fragments(buf'), sent')
    <3>1. PICK F, T : F = Fragments(buf) /\ T = [text : {"head", "tail"}]
      BY Zenon
    <3>2. F \in Seq(T) /\ x \in T /\ x.text # "none" /\ x.text = c.text /\ SameTexts(F, sent)
      BY <1>0, <1>2, <2>3, <2>4, <3>1
    <3>3. PICK u : u = Append(F, x)
      BY Zenon
    <3>4. Grown(u, F, x)
      BY <3>2, <3>3, Growing
    <3>5. SameTexts(u, sent')
      BY <1>s, <3>2, <3>4, SaidOnBoth
    <3> QED
      BY <2>4, <3>1, <3>3, <3>5
  <2>6. buf' \in Seq({"head", "tail"})
    BY <1>0, <2>1
  <2> QED
    BY <1>0, <2>5, <2>6, Zenon DEF Told, Holds, Open, Parsed
<1> QED
  BY <1>1, <1>2

LEMMA ChunkTaken ==
  ASSUME StreamInv, NEW c \in StreamChunks, Taken(c),
         (Yielded(c) /\ ~Holds) \/ (Held(c) /\ Holds)
  PROVE  StreamInv'
<1>1. pc = "streaming" /\ pc' = pc
  BY DEF Taken
<1>2. Known /\ Told /\ Open /\ ~Parsed
  BY <1>1 DEF StreamInv, Placed
<1>3. Known' /\ Told' /\ Open' /\ ~Parsed'
  BY <1>2, TakenKnown, YieldedTold, HeldTold
<1> QED
  BY <1>1, <1>3 DEF StreamInv, Placed

(* The last event is yielded.                                              *)
LEMMA LastYielded ==
  ASSUME StreamInv, pc \in {"streaming", "structured"}, NEW b \in BOOLEAN, NEW m \in Metas,
         YieldLast(Event("none", b, m)), m # NoMeta, m.fin = meta.fin, m.id = meta.id,
         req.provider # "anthropic" => m.usage = meta.usage,
         req.provider = "anthropic" => m.fin # "none" /\ m.id,
         b => buf = Whole, Holds => b \/ Parsed
  PROVE  StreamInv'
<1>1. PICK e : e = Event("none", b, m)
  OBVIOUS
<1>2. e.text = "none" /\ e.structured = b /\ e.meta = m /\ Terminal(e) /\ e \in Events
  BY <1>1 DEF Event, Terminal, Events
<1>3. /\ out' = Append(out, e) /\ pc' = "last" /\ UNCHANGED <<req, meta, buf, sent>>
  BY <1>1 DEF YieldLast
<1>4. Known /\ Told /\ Open /\ (Parsed => buf = Whole) /\ out \in Seq(Events)
  BY Zenon DEF StreamInv, Placed, Told
<1>5. /\ out' \in Seq(Events) /\ out' # <<>> /\ out'[Len(out')] = e /\ Len(out') \in DOMAIN out'
      /\ \A i \in DOMAIN out' : i = Len(out') \/ (i \in DOMAIN out /\ i # Len(out') /\ out'[i] = out[i])
      /\ \A i \in DOMAIN out : i \in DOMAIN out' /\ out'[i] = out[i]
  BY <1>2, <1>3, <1>4, EventAppend
<1>6. Parsed' => b \/ Parsed
  BY <1>2, <1>5 DEF Parsed
<1>7. b \/ Parsed => Parsed'
  BY <1>2, <1>5, Zenon DEF Parsed
<1>8. \A i \in DOMAIN out' : Terminal(out'[i]) => i = Len(out')
  BY <1>4, <1>5 DEF Open
<1>9. Ended'
  BY <1>2, <1>3, <1>5, <1>7, <1>8 DEF Ended, Holds
<1>10. Told'
  <2>0. (~Holds => SameTexts(out, sent)) /\ (Holds => Textual(out) = {})
    BY <1>4 DEF Told
  <2>s. Grown(out', out, e)
    BY <1>2, <1>3, <1>4, Growing
  <2>1. ~Holds => SameTexts(out', sent)
    BY <1>2, <2>0, <2>s, SilentLeft
  <2>2. Textual(out') = Textual(out)
    BY <1>2, <2>s, GrownSilent, Zenon
  <2> QED
    BY <1>3, <1>4, <1>5, <2>0, <2>1, <2>2 DEF Told, Holds
<1>11. Known'
  BY <1>3, <1>4 DEF Known
<1>12. Placed'
  BY <1>3, <1>4, <1>6, <1>9, Zenon DEF Placed
<1> QED
  BY <1>10, <1>11, <1>12, Zenon DEF StreamInv

(* Anthropic's structured response comes before the last event.            *)
LEMMA StructuredYielded == StreamInv /\ anthropic_structured => StreamInv'
<1> SUFFICES ASSUME StreamInv, anthropic_structured PROVE StreamInv'
  OBVIOUS
<1>0. pc = "streaming" /\ req.schema /\ req.provider = "anthropic"
  BY DEF anthropic_structured
<1>1. CASE buf # Whole
  <2>1. Finish("PROVIDER_UNAVAILABLE", NoFailure)
    BY <1>1 DEF anthropic_structured
  <2> QED
    BY <1>0, <2>1, FinishStops
<1>2. CASE buf = Whole
  <2>1. PICK e : e = Event("none", TRUE, NoMeta)
    BY Zenon
  <2>2. e.text = "none" /\ e.structured = TRUE /\ ~Terminal(e) /\ e \in Events
    BY <2>1 DEF Event, Terminal, Events, NoMeta, Metas
  <2>3. /\ out' = Append(out, e) /\ pc' = "structured" /\ UNCHANGED <<req, meta, buf, sent>>
    BY <1>2, <2>1, Zenon DEF anthropic_structured
  <2>4. Known /\ Told /\ Open /\ out \in Seq(Events) /\ Holds
    BY <1>0 DEF StreamInv, Placed, Told, Holds
  <2>5. /\ out' \in Seq(Events) /\ out'[Len(out')] = e /\ Len(out') \in DOMAIN out'
        /\ \A i \in DOMAIN out' : i = Len(out') \/ (i \in DOMAIN out /\ out'[i] = out[i])
    BY <2>2, <2>3, <2>4, EventAppend, Zenon
  <2>6. Parsed' /\ Open'
    BY <2>2, <2>4, <2>5 DEF Parsed, Open
  <2>7. Textual(out') = {}
    <3>0. Grown(out', out, e)
      BY <2>2, <2>3, <2>4, Growing
    <3>1. Textual(out') = Textual(out)
      BY <2>2, <3>0, GrownSilent
    <3> QED
      BY <2>4, <3>1 DEF Told
  <2>8. Told'
    BY <2>3, <2>4, <2>5, <2>7 DEF Told, Holds
  <2>9. Known'
    BY <2>3, <2>4 DEF Known
  <2>10. Placed'
    BY <1>2, <2>3, <2>6 DEF Placed
  <2> QED
    BY <2>8, <2>9, <2>10 DEF StreamInv
<1> QED
  BY <1>1, <1>2

(* Every chunk of every adapter.                                           *)
LEMMA ChunkStep ==
  ASSUME CallInv, StreamInv, NEW c \in Chunks[req.provider],
         openai_chunk(c) \/ anthropic_event(c) \/ gemini_chunk(c) \/ openrouter_chunk(c)
  PROVE  StreamInv'
<1>0. c \in StreamChunks /\ req.schema \in BOOLEAN
  BY GatewayAssumption DEF CallInv, StreamInv, Told
<1>1. CASE openai_chunk(c)
  BY <1>0, <1>1, ChunkTaken DEF openai_chunk, Holds
<1>2. CASE anthropic_event(c)
  BY <1>0, <1>2, ChunkTaken DEF anthropic_event, Holds
<1>3. CASE gemini_chunk(c)
  BY <1>0, <1>3, ChunkTaken, Zenon DEF gemini_chunk, Holds
<1>4. CASE openrouter_chunk(c)
  <2>1. CASE Taken(c) /\ (IF req.schema THEN Held(c) ELSE Yielded(c))
    <3>1. req.provider = "openrouter"
      BY <1>4 DEF openrouter_chunk
    <3> QED
      BY <1>0, <2>1, <3>1, ChunkTaken, Zenon DEF Holds
  <2>2. CASE \E r, e : r # "ok" /\ Finish(r, e)
    <3>1. pc = "streaming"
      BY <1>4 DEF openrouter_chunk
    <3> QED
      BY <2>2, <3>1, FinishStops
  <2>3. CASE c.err # NoFailure
    <3>1. Finish(normalize_embedded_openrouter_error(c.err), c.err)
      BY <1>4, <2>3 DEF openrouter_chunk
    <3>2. normalize_embedded_openrouter_error(c.err) # "ok"
      BY Zenon DEF normalize_embedded_openrouter_error
    <3> QED
      BY <2>2, <3>1, <3>2
  <2>4. CASE c.err = NoFailure
    <3>1. Finish("PROVIDER_UNAVAILABLE", NoFailure) \/ (Taken(c) /\ (IF req.schema THEN Held(c) ELSE Yielded(c)))
      BY <1>4, <2>4 DEF openrouter_chunk
    <3> QED
      BY <2>1, <2>2, <3>1, Zenon
  <2> QED
    BY <2>3, <2>4
<1> QED
  BY <1>1, <1>2, <1>3, <1>4

(* The ends of the four streams.                                           *)
LEMMA EndStep ==
  ASSUME StreamInv, openai_end \/ anthropic_end \/ gemini_end \/ openrouter_end PROVE StreamInv'
<1>0. meta \in Metas /\ req.schema \in BOOLEAN
  BY DEF StreamInv, Known, Told
<1>1. CASE Finish("PROVIDER_UNAVAILABLE", NoFailure)
  <2>1. pc \in {"streaming", "structured"}
    BY Zenon DEF openai_end, anthropic_end, gemini_end, openrouter_end
  <2> QED
    BY <1>1, <2>1, FinishStops
<1>2. CASE openai_end /\ ~Finish("PROVIDER_UNAVAILABLE", NoFailure)
  <2>1. /\ pc = "streaming" /\ req.provider = "openai" /\ meta # NoMeta
        /\ YieldLast(Event("none", FALSE, meta))
    BY <1>2, Zenon DEF openai_end
  <2>2. ~Holds
    BY <2>1 DEF Holds
  <2> QED
    BY <1>0, <2>1, <2>2, LastYielded, Zenon
<1>3. CASE (gemini_end \/ openrouter_end) /\ ~Finish("PROVIDER_UNAVAILABLE", NoFailure)
  <2>1. /\ pc = "streaming" /\ req.provider \in {"gemini", "openrouter"} /\ meta # NoMeta
        /\ (req.schema => buf = Whole) /\ YieldLast(Event("none", req.schema, meta))
    BY <1>3 DEF gemini_end, openrouter_end
  <2>2. Holds => req.schema
    BY DEF Holds
  <2> QED
    BY <1>0, <2>1, <2>2, LastYielded
<1>4. CASE anthropic_end /\ ~Finish("PROVIDER_UNAVAILABLE", NoFailure)
  <2>0. PICK m : m = [meta EXCEPT !.usage = TRUE]
    BY Zenon
  <2>1. /\ pc = (IF req.schema THEN "structured" ELSE "streaming") /\ req.provider = "anthropic"
        /\ meta.fin # "none" /\ meta.id /\ YieldLast(Event("none", FALSE, m))
    BY <1>4, <2>0, Zenon DEF anthropic_end
  <2>2. m \in Metas /\ m.fin = meta.fin /\ m.id = meta.id
    BY <1>0, <2>0, Zenon DEF Metas
  <2>3. m # NoMeta
    BY <2>1, <2>2 DEF NoMeta
  <2>4. Holds => Parsed
    BY <2>1 DEF Holds, StreamInv, Placed
  <2> QED
    BY <1>0, <2>1, <2>2, <2>3, <2>4, LastYielded, Zenon
<1> QED
  BY <1>1, <1>2, <1>3, <1>4

(* The steps that yield nothing.                                           *)
LEMMA CallStep ==
  ASSUME CallInv, StreamInv,
         \/ boundary \/ Start \/ Abandon \/ generate_embeddings \/ create_stream \/ resume
         \/ \E n \in 1..2 : receive_limited(n)
         \/ \E e \in SdkFailures : Fails(e)
  PROVE  StreamInv'
<1>0. {"503", "401", "400", "413", "422", "200"} \cap (ErrorCodes \cup {"ok"}) = {} /\ "abandoned" \notin ErrorCodes
      /\ "ok" \notin ErrorCodes
  BY DEF ErrorCodes
<1>1. CASE \E s \in {"503", "401", "400", "413", "422", "200"} : Respond(s) /\ pc # "done"
  BY <1>0, <1>1, RespondStops
<1>2. CASE /\ UNCHANGED <<req, meta, buf, out, sent>> /\ pc \in {"boundary", "body", "start", "awaiting"}
           /\ pc' \in {"body", "start", "awaiting", "streaming"}
  BY <1>2, MovesOn
<1>3. CASE boundary
  BY <1>1, <1>2, <1>3 DEF boundary
<1>4. CASE generate_embeddings \/ \E n \in 1..2 : receive_limited(n)
  BY <1>1, <1>2, <1>4, Zenon DEF generate_embeddings, receive_limited
<1>5. CASE create_stream
  BY <1>2, <1>5 DEF create_stream
<1>6. CASE Start
  <2>1. CASE Refusal = "ok"
    BY <1>2, <1>6, <2>1 DEF Start
  <2>2. CASE Refusal # "ok"
    BY <1>6, <2>2, FinishStops DEF Start
  <2> QED
    BY <2>1, <2>2
<1>7. CASE Abandon \/ resume
  BY <1>0, <1>7, FinishStops DEF Abandon, resume
<1>8. ASSUME NEW e \in SdkFailures, Fails(e) PROVE StreamInv'
  <2>1. NormalizedError(e) # "ok"
    <3> USE DEF normalize_openai_error, normalize_anthropic_error, normalize_gemini_error,
                normalize_openrouter_error
    <3>1. /\ normalize_openai_error(e) # "ok" /\ normalize_anthropic_error(e) # "ok"
          /\ normalize_gemini_error(e) # "ok" /\ normalize_openrouter_error(e) # "ok"
      OBVIOUS
    <3> HIDE DEF normalize_openai_error, normalize_anthropic_error, normalize_gemini_error,
                 normalize_openrouter_error
    <3> QED
      BY <3>1 DEF NormalizedError, CallInv, Providers
  <2> QED
    BY <1>8, <2>1, FinishStops DEF Fails
<1> QED
  BY <1>3, <1>4, <1>5, <1>6, <1>7, <1>8

LEMMA StreamServe == CallInv /\ StreamInv /\ GatewayNext => StreamInv'
<1> SUFFICES ASSUME CallInv, StreamInv, GatewayNext PROVE StreamInv'
  OBVIOUS
<1>1. CASE \E c \in Completions : \/ openai_generate(c) \/ anthropic_generate(c)
                                 \/ gemini_generate(c) \/ openrouter_generate(c)
  <2>1. PICK r, e : Finish(r, e) /\ pc = "awaiting" /\ req.path \in {"generate", "test"}
    BY <1>1 DEF openai_generate, anthropic_generate, gemini_generate, openrouter_generate, Answered
  <2>2. ~Streams
    BY <2>1 DEF Streams
  <2> QED
    BY <2>1, <2>2, FinishStops
<1>2. PlainCompletions \subseteq Completions
  BY DEF PlainCompletions
<1>3. CASE \E c \in Chunks[req.provider] :
             openai_chunk(c) \/ anthropic_event(c) \/ gemini_chunk(c) \/ openrouter_chunk(c)
  BY <1>3, ChunkStep, Zenon
<1>4. CASE openai_end \/ anthropic_end \/ gemini_end \/ openrouter_end
  BY <1>4, EndStep
<1>5. CASE anthropic_structured
  BY <1>5, StructuredYielded
<1>6. CASE \/ boundary \/ Start \/ Abandon \/ generate_embeddings \/ create_stream \/ resume
           \/ \E n \in 1..2 : receive_limited(n)
           \/ \E e \in SdkFailures : Fails(e)
  BY <1>6, CallStep
<1> QED
  BY <1>1, <1>2, <1>3, <1>4, <1>5, <1>6, Zenon DEF GatewayNext

(* A call begins with nothing sent and nothing yielded.                    *)
LEMMA RequestsShaped ==
  /\ \A path, p : Call(path, p).schema = FALSE
  /\ \A p, x : [Call("test", p) EXCEPT !.key = x].schema = FALSE
  /\ \A p, x : [Call("test", p) EXCEPT !.token = x].schema = FALSE
  /\ \A r \in AdapterCalls \cup EmbedCalls : r.schema \in BOOLEAN
<1>1. \A path, p : Call(path, p).schema = FALSE
  BY Zenon DEF Call
<1>2. /\ \A p, x : [Call("test", p) EXCEPT !.key = x].schema = FALSE
      /\ \A p, x : [Call("test", p) EXCEPT !.token = x].schema = FALSE
  BY DEF Call
<1>3. \A r \in AdapterCalls \cup EmbedCalls : r.schema \in BOOLEAN
  BY Zenon DEF AdapterCalls, EmbedCalls
<1> QED
  BY <1>1, <1>2, <1>3

(* The state of a call of r that has not done anything.                    *)
LEMMA NothingYet ==
  /\ NoMeta \in Metas /\ NoMeta.fin = "none" /\ NoMeta.id = FALSE /\ NoMeta.usage = FALSE
  /\ FinSeen(<<>>, "none") /\ Textual(<<>>) = {} /\ Fragments(<<>>) = <<>>
  /\ \A r : Entry(r.path) \notin {"structured", "last", "done"}
<1>1. NoMeta \in Metas /\ NoMeta.fin = "none" /\ NoMeta.id = FALSE /\ NoMeta.usage = FALSE
  BY DEF NoMeta, Metas
<1>2. FinSeen(<<>>, "none")
  BY DEF FinSeen
<1>3. Textual(<<>>) = {}
  BY DEF Textual
<1>4. Fragments(<<>>) = <<>>
  BY DEF Fragments
<1>5. \A r : Entry(r.path) \notin {"structured", "last", "done"}
  BY DEF Entry
<1> QED
  BY <1>1, <1>2, <1>3, <1>4, <1>5

LEMMA StreamStarts == ASSUME NEW r, GatewayInit(r), r.schema \in BOOLEAN PROVE StreamInv
<1>1. /\ req.schema \in BOOLEAN /\ meta = NoMeta /\ buf = <<>> /\ out = <<>> /\ sent = <<>>
      /\ pc = Entry(r.path)
  BY DEF GatewayInit
<1>2. Known
  <2>1. meta \in Metas /\ meta.id = FALSE /\ meta.usage = FALSE /\ meta.fin = "none"
    BY <1>1, NothingYet, Zenon
  <2>2. sent \in Seq(StreamChunks) /\ DOMAIN sent = {}
    BY <1>1
  <2>3. FinSeen(sent, meta.fin)
    BY <1>1, <2>1, NothingYet
  <2> QED
    BY <2>1, <2>2, <2>3 DEF Known
<1>3. Told
  <2>1. out \in Seq(Events) /\ buf \in Seq({"head", "tail"})
    BY <1>1
  <2>2. Textual(out) = {} /\ SameTexts(Fragments(buf), sent) /\ SameTexts(out, sent)
    BY <1>1, NothingYet, NothingSaid, Zenon
  <2> QED
    BY <1>1, <2>1, <2>2 DEF Told
<1>4. Open /\ ~Parsed
  BY <1>1 DEF Open, Parsed
<1>5. Placed
  BY <1>1, <1>4, NothingYet DEF Placed
<1> QED
  BY <1>2, <1>3, <1>5 DEF StreamInv

LEMMA StreamBegins == ASSUME NEW r, Begin(r), r.schema \in BOOLEAN PROVE StreamInv'
<1>1. /\ req'.schema \in BOOLEAN /\ meta' = NoMeta /\ buf' = <<>> /\ out' = <<>> /\ sent' = <<>>
      /\ pc' = Entry(r.path)
  BY DEF Begin
<1>2. Known'
  <2>1. meta' \in Metas /\ meta'.id = FALSE /\ meta'.usage = FALSE /\ meta'.fin = "none"
    BY <1>1, NothingYet, Zenon
  <2>2. sent' \in Seq(StreamChunks) /\ DOMAIN sent' = {}
    BY <1>1
  <2>3. FinSeen(sent', meta'.fin)
    BY <1>1, <2>1, NothingYet
  <2> QED
    BY <2>1, <2>2, <2>3 DEF Known
<1>3. Told'
  <2>1. out' \in Seq(Events) /\ buf' \in Seq({"head", "tail"})
    BY <1>1
  <2>2. Textual(out') = {} /\ SameTexts(Fragments(buf'), sent') /\ SameTexts(out', sent')
    BY <1>1, NothingYet, NothingSaid
  <2> QED
    BY <1>1, <2>1, <2>2 DEF Told
<1>4. Open' /\ ~Parsed'
  BY <1>1 DEF Open, Parsed
<1>5. Placed'
  BY <1>1, <1>4, NothingYet DEF Placed
<1> QED
  BY <1>2, <1>3, <1>5 DEF StreamInv

LEMMA StreamUntouched == StreamInv /\ UNCHANGED gatewayVars => StreamInv'
<1> SUFFICES ASSUME StreamInv, UNCHANGED gatewayVars PROVE StreamInv'
  OBVIOUS
<1>1. UNCHANGED <<req, meta, buf, out, sent>> /\ UNCHANGED <<pc, result>>
  BY DEF gatewayVars
<1> QED
  BY <1>1, DataKept DEF StreamInv, Placed

LEMMA StreamKept == CallInv /\ StreamInv /\ [Next]_vars => StreamInv'
<1> SUFFICES ASSUME CallInv, StreamInv, [Next]_vars PROVE StreamInv'
  OBVIOUS
<1>1. CASE post
  <2>1. CASE UNCHANGED gatewayVars
    BY <2>1, StreamUntouched
  <2>2. CASE ~UNCHANGED gatewayVars
    <3>1. CASE \E p \in Providers, key \in {"ok", "blank"} : Begin([Call("test", p) EXCEPT !.key = key])
      BY <3>1, RequestsShaped, StreamBegins, Zenon
    <3>2. CASE \E p \in Providers, token \in {"bad", "unset"} :
                 Begin([Call("test", p) EXCEPT !.token = token])
      BY <3>2, RequestsShaped, StreamBegins, Zenon
    <3> QED
      BY <1>1, <2>2, <3>1, <3>2 DEF post
  <2> QED
    BY <2>1, <2>2
<1>2. CASE gateway_answer \/ gateway_timeout \/ gateway_lost
  <2>1. Begin(Call("none", "openai"))
    BY <1>2 DEF gateway_answer, gateway_timeout, gateway_lost, record
  <2> QED
    BY <2>1, RequestsShaped, StreamBegins, Zenon
<1>3. CASE Serve
  BY <1>3, StreamServe DEF Serve
<1>4. CASE (\E u \in Users, c \in Conns : check_limits(u, c)) \/ LimitStep \/ UNCHANGED vars
  BY <1>4, StreamUntouched, Zenon DEF check_limits, LimitStep, vars
<1> QED
  BY <1>1, <1>2, <1>3, <1>4 DEF Next

(* What the invariant says of a stream, in the words of StreamFaithful.    *)
LEMMA FaithfulByInv == CallInv /\ StreamInv => StreamFaithful
<1> SUFFICES ASSUME CallInv, StreamInv PROVE StreamFaithful
  OBVIOUS
<1>0. /\ Known /\ Told /\ (Open \/ Ended) /\ (Parsed => buf = Whole) /\ out \in Seq(Events)
      /\ (result = "ok" /\ Streams => Ended) /\ (result \in ErrorCodes => Open)
  <2>1. pc # "done" => result = "none"
    BY DEF CallInv
  <2> QED
    BY <2>1 DEF StreamInv, Placed, Told, ErrorCodes
<1>1. StreamShape
  <2>1. \A i \in DOMAIN out : Terminal(out[i]) => i = Len(out)
    BY <1>0 DEF Open, Ended
  <2>2. Ended => out # <<>> /\ Terminal(out[Len(out)])
    BY Zenon DEF Ended
  <2> QED
    BY <1>0, <2>1, <2>2 DEF StreamShape, Open
<1>2. ResponseFaithful
  <2>1. CASE Holds
    <3>1. Textual(out) = {} /\ SameTexts(Fragments(buf), sent)
      BY <1>0, <2>1 DEF Told
    <3>2. (\E i \in DOMAIN out : out[i].structured) => SameTexts(Fragments(Whole), sent)
      BY <1>0, <3>1 DEF Parsed
    <3>3. result = "ok" /\ Streams => \E i \in DOMAIN out : out[i].structured
      BY <1>0, <2>1, Zenon DEF Ended, Parsed
    <3> QED
      BY <2>1, <3>1, <3>2, <3>3 DEF ResponseFaithful
  <2>2. CASE ~Holds
    BY <1>0, <2>2 DEF Told, ResponseFaithful
  <2> QED
    BY <2>1, <2>2
<1>3. TerminalTruthful
  <2> SUFFICES ASSUME NEW i \in DOMAIN out, Terminal(out[i])
               PROVE  /\ out[i].meta.fin = LastFin
                      /\ out[i].meta.id = \E j \in DOMAIN sent : sent[j].id
                      /\ req.provider # "anthropic" => out[i].meta.usage = \E j \in DOMAIN sent : sent[j].usage
                      /\ req.provider = "anthropic" => out[i].meta.fin # "none" /\ out[i].meta.id
    BY Zenon DEF TerminalTruthful
  <2>1. Ended /\ i = Len(out)
    BY <1>0, Zenon DEF Open, Ended
  <2>2. /\ out[i].meta.fin = meta.fin /\ out[i].meta.id = meta.id
        /\ req.provider # "anthropic" => out[i].meta.usage = meta.usage
        /\ req.provider = "anthropic" => meta.fin # "none" /\ meta.id
    BY <2>1, Zenon DEF Ended
  <2>3. LastFin = meta.fin
    BY <1>0, FinIsLast DEF Known
  <2>4. /\ meta.id \in BOOLEAN /\ meta.usage \in BOOLEAN
        /\ meta.id <=> \E j \in DOMAIN sent : sent[j].id
        /\ meta.usage <=> \E j \in DOMAIN sent : sent[j].usage
    BY <1>0 DEF Known, Metas
  <2> QED
    BY <2>2, <2>3, <2>4, Zenon
<1> QED
  BY <1>1, <1>2, <1>3 DEF StreamFaithful

(* For streams of any length and any chunks a provider may send, in any     *)
(* order and broken off or abandoned anywhere: the consumer gets every      *)
(* fragment once and in order, or the structured response only if it is     *)
(* whole; the last event comes once, last and only without an error, and    *)
(* reports what the provider reported.                                      *)
THEOREM StreamsFaithful == Spec => []StreamFaithful
<1>1. Init => StreamInv
  <2> SUFFICES ASSUME Init PROVE StreamInv
    OBVIOUS
  <2>1. PICK r : GatewayInit(r) /\ (r = Call("none", "openai") \/ r \in AdapterCalls \cup EmbedCalls)
    BY DEF Init
  <2>2. r.schema \in BOOLEAN
    <3>1. Call("none", "openai").schema = FALSE
      BY RequestsShaped
    <3>2. r \in AdapterCalls \cup EmbedCalls => r.schema \in BOOLEAN
      BY RequestsShaped
    <3>3. CASE r = Call("none", "openai")
      BY <3>1, <3>3, Zenon
    <3> QED
      BY <2>1, <3>2, <3>3
  <2>3. GatewayInit(r)
    BY <2>1
  <2> QED
    BY <2>2, <2>3, StreamStarts
<1> QED
  BY <1>1, CallsSound, StreamKept, FaithfulByInv, PTL DEF Spec

=============================================================================
