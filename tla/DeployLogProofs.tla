-------------------------- MODULE DeployLogProofs --------------------------
(***************************************************************************)
(* Proofs about DeployLog, for a log of any length, any keys, any number   *)
(* of connections and any size of the view: first the stream, then what    *)
(* the view makes of the events, by induction over their number.           *)
(***************************************************************************)
EXTENDS DeployLog, SequenceTheorems, WellFoundedInduction, TLAPS

(* The part of TypeOK that the stream keeps by itself.                     *)
StreamType ==
  /\ worker \in {"starting", "writing", "closed", "gone"}
  /\ written \in 0..Length
  /\ stream \in {"none", "stat", "read", "check", "waiting", "lost", "ended", "refused"}
  /\ offset \in 0..Length /\ size \in 0..Length
  /\ dialled \in 0..MaxConnections
  /\ received \in Seq(1..Length)

(* The tail never points beyond the file: the file only grows.             *)
TailBehindFile ==
  /\ offset <= written
  /\ size <= written
  /\ stream = "read" => offset < size

(* What lies before the offset was sent, over this connection.             *)
BeforeOffsetSent ==
  \A i \in 1..offset : \E k \in DOMAIN received : received[k] = i

StreamInv == StreamType /\ TailBehindFile /\ BeforeOffsetSent /\ NoGap

USE LogAssumption

-----------------------------------------------------------------------------
(* Lines 1, ..., n are in s;  the lines of s come in order at first.       *)
HasAll(s, n) == \A i \in 1..n : \E k \in DOMAIN s : s[k] = i
InOrder(s) ==
  \A j \in DOMAIN s : \A i \in 1..(s[j] - 1) : \E k \in 1..(j - 1) : s[k] = i

Run(n, m) == [i \in 1..(m - n) |-> n + i]

(* t is s and then n + 1, ..., m.                                          *)
WithRun(t, s, n, m) ==
  /\ t \in Seq(1..Length)
  /\ DOMAIN s = 1..Len(s) /\ Len(s) \in Nat /\ m - n \in Nat
  /\ DOMAIN t = 1..(Len(s) + (m - n))
  /\ \A k \in 1..Len(s) : t[k] = s[k]
  /\ \A i \in 1..(m - n) : t[Len(s) + i] = n + i

LEMMA RunAppended ==
  ASSUME NEW s \in Seq(1..Length), NEW n \in Nat, NEW m \in 0..Length, n <= m
  PROVE  WithRun(s \o Run(n, m), s, n, m)
<1>1. m - n \in Nat /\ \A i \in 1..(m - n) : n + i \in 1..Length
  OBVIOUS
<1>2. Run(n, m) \in Seq(1..Length) /\ Len(Run(n, m)) = m - n
  BY <1>1 DEF Run
<1>3. \A i \in 1..(m - n) : Run(n, m)[i] = n + i
  BY DEF Run
<1>4. DOMAIN s = 1..Len(s) /\ Len(s) \in Nat
  OBVIOUS
<1> HIDE DEF Run
<1>5. s \o Run(n, m) \in Seq(1..Length) /\ Len(s \o Run(n, m)) = Len(s) + (m - n)
  <2> DEFINE r == Run(n, m)
  <2>1. r \in Seq(1..Length) /\ Len(r) = m - n
    BY <1>2
  <2> HIDE DEF r
  <2>2. s \o r \in Seq(1..Length) /\ Len(s \o r) = Len(s) + Len(r)
    BY <2>1
  <2> QED
    BY <2>1, <2>2 DEF r
<1>6. \A k \in 1..Len(s) : (s \o Run(n, m))[k] = s[k]
  BY <1>1, <1>2, <1>4
<1>7. ASSUME NEW i \in 1..(m - n) PROVE (s \o Run(n, m))[Len(s) + i] = n + i
  BY <1>1, <1>2, <1>3, <1>4
<1>8. DOMAIN (s \o Run(n, m)) = 1..(Len(s) + (m - n))
  BY <1>5
<1> QED
  BY <1>1, <1>4, <1>5, <1>6, <1>7, <1>8 DEF WithRun

(* Appending the run n + 1, ..., m to a sequence that has 1, ..., n.       *)
LEMMA AppendRun ==
  ASSUME NEW s \in Seq(1..Length), NEW n \in Nat, NEW m \in 0..Length, n <= m,
         HasAll(s, n), InOrder(s)
  PROVE  HasAll(s \o Run(n, m), m) /\ InOrder(s \o Run(n, m))
<1> DEFINE t == s \o Run(n, m)
<1> HIDE DEF t
<1>1. /\ DOMAIN s = 1..Len(s) /\ Len(s) \in Nat /\ m - n \in Nat
      /\ DOMAIN t = 1..(Len(s) + (m - n))
      /\ \A k \in 1..Len(s) : t[k] = s[k]
      /\ \A i \in 1..(m - n) : t[Len(s) + i] = n + i
  <2>1. WithRun(t, s, n, m)
    BY RunAppended DEF t
  <2> QED
    BY <2>1 DEF WithRun
<1>2. ASSUME NEW i \in 1..n PROVE \E k \in 1..Len(s) : t[k] = i
  BY <1>1 DEF HasAll
<1>3. ASSUME NEW i \in 1..m, i > n
      PROVE  i - n \in 1..(m - n) /\ t[Len(s) + (i - n)] = i
  <2>1. i - n \in 1..(m - n) /\ n + (i - n) = i
    BY <1>3
  <2> QED
    BY <2>1, <1>1
<1>4. HasAll(t, m)
  <2> SUFFICES ASSUME NEW i \in 1..m PROVE \E k \in DOMAIN t : t[k] = i
    BY DEF HasAll
  <2>1. CASE i <= n
    <3>1. PICK k \in 1..Len(s) : t[k] = i
      BY <1>2, <2>1
    <3>2. k \in 1..(Len(s) + (m - n))
      BY <1>1
    <3> QED
      BY <3>1, <3>2, <1>1
  <2>2. CASE i > n
    <3>1. i - n \in 1..(m - n) /\ t[Len(s) + (i - n)] = i
      BY <1>3, <2>2
    <3>2. Len(s) + (i - n) \in 1..(Len(s) + (m - n))
      BY <1>1, <3>1
    <3> QED
      BY <3>1, <3>2, <1>1
  <2> QED
    BY <2>1, <2>2
<1>5. InOrder(t)
  <2> SUFFICES ASSUME NEW j \in DOMAIN t, NEW i \in 1..(t[j] - 1)
               PROVE  \E k \in 1..(j - 1) : t[k] = i
    BY DEF InOrder
  <2>1. j \in 1..(Len(s) + (m - n))
    BY <1>1
  <2>2. CASE j <= Len(s)
    <3>1. t[j] = s[j] /\ j \in DOMAIN s
      BY <1>1, <2>1, <2>2
    <3>2. PICK k \in 1..(j - 1) : s[k] = i
      BY <3>1 DEF InOrder
    <3>3. k \in 1..Len(s)
      BY <2>1, <2>2, <1>1
    <3> QED
      BY <3>2, <3>3, <1>1
  <2>3. CASE j > Len(s)
    <3>1. j - Len(s) \in 1..(m - n) /\ Len(s) + (j - Len(s)) = j
      BY <2>1, <2>3, <1>1
    <3>2. t[j] = n + (j - Len(s))
      BY <3>1, <1>1
    <3>3. CASE i <= n
      <4>1. PICK k \in 1..Len(s) : t[k] = i
        BY <1>2, <3>3
      <4>2. k \in 1..(j - 1)
        BY <2>1, <2>3, <1>1
      <4> QED
        BY <4>1, <4>2
    <3>4. CASE i > n
      <4>1. i \in 1..m
        BY <3>1, <3>2, <1>1
      <4>2. t[Len(s) + (i - n)] = i
        BY <4>1, <3>4, <1>3
      <4>3. Len(s) + (i - n) \in 1..(j - 1)
        BY <3>1, <3>2, <3>4, <1>1
      <4> QED
        BY <4>2, <4>3
    <3> QED
      BY <3>1, <3>2, <3>3, <3>4
  <2> QED
    BY <2>1, <2>2, <2>3, <1>1
<1> QED
  BY <1>4, <1>5 DEF t

LEMMA StreamInit == Init => StreamInv
BY DEF Init, StreamInv, StreamType, TailBehindFile, BeforeOffsetSent, NoGap

LEMMA StreamStep == StreamInv /\ [Next]_vars => StreamInv'
<1> SUFFICES ASSUME StreamInv, [Next]_vars PROVE StreamInv'
  OBVIOUS
<1> USE DEF StreamInv, StreamType, TailBehindFile, fileVars, streamVars, viewVars
<1>0. ASSUME received' = received, offset' \in {0, offset}
      PROVE  BeforeOffsetSent' /\ NoGap'
  BY <1>0 DEF BeforeOffsetSent, NoGap
<1>1. CASE Worker
  <2>1. StreamType' /\ TailBehindFile' /\ received' = received /\ offset' = offset
    BY <1>1 DEF Worker, OpenLog, AppendLine, CloseLog, Deregister
  <2> QED
    BY <1>0, <2>1
<1>2. CASE Stat \/ CheckInFlight \/ Tick
  <2>1. StreamType' /\ TailBehindFile' /\ received' = received /\ offset' = offset
    BY <1>2 DEF Stat, CheckInFlight, Tick
  <2> QED
    BY <1>0, <2>1
<1>3. CASE Read
  <2>1. received' = received \o Run(offset, written)
    BY <1>3 DEF Read, Deliver, Run
  <2>2. offset' = size /\ written' = written /\ size' = size /\ stream' = "check"
        /\ worker' = worker /\ dialled' = dialled
    BY <1>3 DEF Read
  <2>3. HasAll(received, offset) /\ InOrder(received)
    BY DEF HasAll, InOrder, BeforeOffsetSent, NoGap
  <2>4. received' \in Seq(1..Length)
    <3>1. offset \in Nat /\ written \in 0..Length /\ offset <= written
          /\ received \in Seq(1..Length)
      OBVIOUS
    <3>2. received \o Run(offset, written) \in Seq(1..Length)
      BY <3>1, RunAppended DEF WithRun
    <3> QED
      BY <2>1, <3>2
  <2>5. HasAll(received', written) /\ InOrder(received')
    BY <2>1, <2>3, AppendRun
  <2>6. StreamType' /\ TailBehindFile'
    BY <2>2, <2>4
  <2>7. BeforeOffsetSent' /\ NoGap'
    BY <2>2, <2>5 DEF HasAll, InOrder, BeforeOffsetSent, NoGap
  <2> QED
    BY <2>6, <2>7
<1>4. CASE View
  <2>1. StreamType' /\ TailBehindFile' /\ received' = received /\ offset' \in {0, offset}
    BY <1>4 DEF View, Connect, Pause, Resume
  <2> QED
    BY <1>0, <2>1
<1>5. CASE ReadFails \/ Drop \/ Crash
  <2>1. StreamType' /\ TailBehindFile' /\ received' = received /\ offset' = offset
    BY <1>5 DEF ReadFails, Drop, Crash
  <2> QED
    BY <1>0, <2>1
<1>6. CASE UNCHANGED vars
  <2>1. StreamType' /\ TailBehindFile' /\ received' = received /\ offset' = offset
    BY <1>6 DEF vars
  <2> QED
    BY <1>0, <2>1
<1> QED
  BY <1>1, <1>2, <1>3, <1>4, <1>5, <1>6 DEF Next, Stream

(* A view is never sent a line before all the lines that precede it in the *)
(* file, whatever the worker appends between the stat and the read, and    *)
(* over any number of broken connections.                                  *)
THEOREM LogHasNoGap == Spec => []NoGap
<1>1. StreamInv => NoGap
  BY DEF StreamInv
<1> QED
  BY <1>1, StreamInit, StreamStep, PTL DEF Spec

-----------------------------------------------------------------------------
(* What the view makes of the events, one after the other.                 *)

(* Induction, for a set of numbers.                                        *)
LEMMA SetInduction ==
  ASSUME NEW S \in SUBSET Nat, 0 \in S, \A n \in Nat : n \in S => n + 1 \in S
  PROVE  S = Nat
<1> SUFFICES ASSUME Nat \ S # {} PROVE FALSE
  OBVIOUS
<1> DEFINE R == OpToRel(<, Nat)
<1>1. IsWellFoundedOn(R, Nat)
  BY NatLessThanWellFounded
<1>2. \A x, y \in Nat : x < y => <<x, y>> \in R
  BY DEF OpToRel
<1> HIDE DEF R
<1>3. PICK n \in Nat \ S : \A m \in Nat \ S : ~(<<m, n>> \in R)
  BY <1>1, WFMin
<1>4. n # 0 /\ n - 1 \in Nat /\ n - 1 < n
  OBVIOUS
<1>5. n - 1 \in S
  BY <1>2, <1>3, <1>4
<1> QED
  BY <1>4, <1>5

(* f[k] is what the view shows after the first k events.                   *)
Follows(f, rows, events) ==
  f = [k \in 0..Len(events) |-> IF k = 0 THEN rows ELSE Apply(f[k - 1], events[k])]

LEMMA OneFollows ==
  ASSUME NEW rows, NEW events, Len(events) \in Nat
  PROVE  \E f : Follows(f, rows, events)
<1> DEFINE Upto(f, n) == f = [k \in 0..n |-> IF k = 0 THEN rows ELSE Apply(f[k - 1], events[k])]
           S == {n \in Nat : \E f : Upto(f, n)}
<1>1. 0 \in S
  <2> DEFINE f == [k \in 0..0 |-> rows]
  <2>1. f = [k \in 0..0 |-> IF k = 0 THEN rows ELSE Apply(f[k - 1], events[k])]
    OBVIOUS
  <2> QED
    BY <2>1
<1>2. ASSUME NEW n \in Nat, n \in S PROVE n + 1 \in S
  <2>1. PICK f : f = [k \in 0..n |-> IF k = 0 THEN rows ELSE Apply(f[k - 1], events[k])]
    BY <1>2
  <2> DEFINE g == [k \in 0..(n + 1) |-> IF k = n + 1 THEN Apply(f[n], events[n + 1]) ELSE f[k]]
  <2>2. ASSUME NEW k \in 0..(n + 1)
        PROVE  g[k] = IF k = 0 THEN rows ELSE Apply(g[k - 1], events[k])
    <3>1. CASE k = n + 1
      <4>1. k # 0 /\ k - 1 = n /\ n \in 0..(n + 1) /\ n # n + 1
        BY <3>1
      <4>2. g[n] = f[n]
        BY <4>1
      <4> QED
        BY <3>1, <4>1, <4>2
    <3>2. CASE k = 0
      BY <2>1, <3>2
    <3>3. CASE k \in 1..n
      <4>1. k - 1 \in 0..(n + 1) /\ k - 1 # n + 1 /\ k \in 0..n /\ k # 0 /\ k # n + 1
        BY <3>3
      <4>2. g[k - 1] = f[k - 1] /\ g[k] = f[k]
        BY <4>1
      <4>3. f[k] = Apply(f[k - 1], events[k])
        BY <2>1, <4>1
      <4> QED
        BY <4>1, <4>2, <4>3
    <3> QED
      BY <3>1, <3>2, <3>3
  <2>3. g = [k \in 0..(n + 1) |-> g[k]]
    OBVIOUS
  <2> HIDE DEF g
  <2>4. g = [k \in 0..(n + 1) |-> IF k = 0 THEN rows ELSE Apply(g[k - 1], events[k])]
    BY <2>2, <2>3
  <2> QED
    BY <2>4
<1> HIDE DEF S
<1>3. S = Nat
  <2>1. S \in SUBSET Nat
    BY DEF S
  <2> QED
    BY <1>1, <1>2, <2>1, SetInduction
<1> QED
  BY <1>3 DEF S, Follows

LEMMA AppliedFollows ==
  ASSUME NEW rows, NEW events, Len(events) \in Nat
  PROVE  \E f : /\ Applied(rows, events) = f[Len(events)]
                /\ f[0] = rows
                /\ \A k \in 1..Len(events) : f[k] = Apply(f[k - 1], events[k])
<1> DEFINE f == CHOOSE f : Follows(f, rows, events)
<1>1. Follows(f, rows, events)
  BY OneFollows
<1>2. Applied(rows, events) = f[Len(events)]
  BY DEF Applied, Follows
<1> HIDE DEF f
<1>3. f[0] = rows /\ \A k \in 1..Len(events) : f[k] = Apply(f[k - 1], events[k])
  <2>1. \A k \in 0..Len(events) : f[k] = IF k = 0 THEN rows ELSE Apply(f[k - 1], events[k])
    BY <1>1 DEF Follows
  <2>2. 0 \in 0..Len(events) /\ \A k \in 1..Len(events) : k \in 0..Len(events) /\ k # 0
    OBVIOUS
  <2> QED
    BY <2>1, <2>2
<1> QED
  BY <1>2, <1>3

(* Some events and then some more are all of them.                         *)
LEMMA AppliedInTwo ==
  ASSUME NEW rows, NEW s \in Seq(1..Length), NEW t \in Seq(1..Length)
  PROVE  Applied(rows, s \o t) = Applied(Applied(rows, s), t)
<1>1. /\ Len(s) \in Nat /\ Len(t) \in Nat /\ Len(s \o t) = Len(s) + Len(t)
      /\ \A i \in 1..(Len(s) + Len(t)) : (s \o t)[i] = IF i <= Len(s) THEN s[i] ELSE t[i - Len(s)]
  BY ConcatProperties
<1>2. Len(s) \in Nat /\ Len(t) \in Nat
  BY <1>1
<1> DEFINE mid == Applied(rows, s)
<1>3. PICK f : /\ Applied(rows, s) = f[Len(s)] /\ f[0] = rows
               /\ \A k \in 1..Len(s) : f[k] = Apply(f[k - 1], s[k])
  BY <1>2, AppliedFollows, SMTT(60)
<1> HIDE DEF mid
<1>4. PICK g : /\ Applied(mid, t) = g[Len(t)] /\ g[0] = mid
               /\ \A k \in 1..Len(t) : g[k] = Apply(g[k - 1], t[k])
  BY <1>2, AppliedFollows, SMTT(60)
<1> DEFINE m == Len(s)
           n == Len(t)
           w == s \o t
<1>5. m + n \in Nat /\ Len(w) = m + n
  BY <1>1
<1>6. PICK h : /\ Applied(rows, w) = h[m + n] /\ h[0] = rows
               /\ \A k \in 1..(m + n) : h[k] = Apply(h[k - 1], w[k])
  <2>1. Len(w) \in Nat
    BY <1>5
  <2> HIDE DEF w, m, n
  <2> QED
    BY <1>5, <2>1, AppliedFollows, SMTT(60)
<1>7. \A k \in 1..m : w[k] = s[k]
  BY <1>1
<1>8. \A k \in 1..n : w[m + k] = t[k]
  <2> TAKE k \in 1..n
  <2>1. m + k \in 1..(m + n) /\ ~(m + k <= m) /\ (m + k) - m = k
    BY <1>1
  <2> QED
    BY <1>1, <2>1
<1>9. m \in Nat /\ n \in Nat
  BY <1>1
<1>10. /\ mid = f[m] /\ f[0] = rows
      /\ \A k \in 1..m : f[k] = Apply(f[k - 1], s[k])
  BY <1>3 DEF mid
<1>11. /\ Applied(mid, t) = g[n] /\ g[0] = mid
      /\ \A k \in 1..n : g[k] = Apply(g[k - 1], t[k])
  BY <1>4
<1> HIDE DEF w, m, n
<1>12. h[m] = mid
  <2> DEFINE S == {k \in Nat : k <= m => h[k] = f[k]}
  <2>1. 0 \in S
    BY <1>10, <1>6
  <2>2. ASSUME NEW k \in Nat, k \in S PROVE k + 1 \in S
    <3> SUFFICES ASSUME k + 1 <= m PROVE h[k + 1] = f[k + 1]
      OBVIOUS
    <3>1. k + 1 \in 1..m /\ k + 1 \in 1..(m + n) /\ (k + 1) - 1 = k /\ k <= m
      BY <1>9
    <3>2. h[k] = f[k]
      BY <2>2, <3>1
    <3>3. h[k + 1] = Apply(h[k], w[k + 1]) /\ f[k + 1] = Apply(f[k], s[k + 1])
      BY <1>10, <1>6, <3>1
    <3> QED
      BY <1>7, <3>1, <3>2, <3>3
  <2> HIDE DEF S
  <2>3. S = Nat
    <3>1. S \in SUBSET Nat
      BY DEF S
    <3> QED
      BY <2>1, <2>2, <3>1, SetInduction
  <2>4. m <= m => h[m] = f[m]
    BY <1>9, <2>3 DEF S
  <2> QED
    BY <1>10, <1>9, <2>4
<1>13. h[m + n] = g[n]
  <2> DEFINE S == {k \in Nat : k <= n => h[m + k] = g[k]}
  <2>1. 0 \in S
    BY <1>11, <1>9, <1>12
  <2>2. ASSUME NEW k \in Nat, k \in S PROVE k + 1 \in S
    <3> SUFFICES ASSUME k + 1 <= n PROVE h[m + (k + 1)] = g[k + 1]
      OBVIOUS
    <3>1. /\ k + 1 \in 1..n /\ m + (k + 1) \in 1..(m + n) /\ (k + 1) - 1 = k /\ k <= n
          /\ (m + (k + 1)) - 1 = m + k
      BY <1>9
    <3>2. h[m + k] = g[k]
      BY <2>2, <3>1
    <3>3. h[m + (k + 1)] = Apply(h[m + k], w[m + (k + 1)]) /\ g[k + 1] = Apply(g[k], t[k + 1])
      BY <1>11, <1>6, <3>1
    <3> QED
      BY <1>8, <3>1, <3>2, <3>3
  <2> HIDE DEF S
  <2>3. S = Nat
    <3>1. S \in SUBSET Nat
      BY DEF S
    <3> QED
      BY <2>1, <2>2, <3>1, SetInduction
  <2>4. n <= n => h[m + n] = g[n]
    BY <1>9, <2>3 DEF S
  <2> QED
    BY <1>9, <2>4
<1> QED
  <2>1. Applied(rows, w) = Applied(mid, t)
    BY <1>11, <1>6, <1>13
  <2> QED
    BY <2>1 DEF w, mid

(* The rows of a key, of which there is one at most.                       *)
OneEach(rows) ==
  \A i, j \in DOMAIN rows : rows[i].key = rows[j].key /\ rows[i].key # None => i = j

LEMMA ApplyKeeps ==
  ASSUME NEW rows \in Seq(Rows), OneEach(rows), NEW i \in 1..Length
  PROVE  /\ Apply(rows, i) \in Seq(Rows) /\ OneEach(Apply(rows, i))
         /\ Len(Apply(rows, i)) <= Len(rows) + 1
<1> DEFINE at == {j \in DOMAIN rows : KeyOf[i] # None /\ rows[j].key = KeyOf[i]}
           new == [line |-> i, key |-> KeyOf[i]]
<1>1. Len(rows) \in Nat /\ DOMAIN rows = 1..Len(rows)
  BY LenProperties
<1>2. CASE at = {}
  <2>1. new \in Rows
    BY DEF Rows
  <2>2. Apply(rows, i) = Append(rows, new)
    BY <1>2 DEF Apply
  <2> DEFINE all == Append(rows, new)
  <2>3. /\ all \in Seq(Rows) /\ Len(all) = Len(rows) + 1
        /\ \A j \in 1..Len(rows) : all[j] = rows[j]
        /\ all[Len(rows) + 1] = new
    BY <2>1, AppendProperties
  <2>4. DOMAIN all = 1..(Len(rows) + 1)
    BY <2>3, LenProperties
  <2>5. \A j \in 1..Len(rows) : KeyOf[i] # None => rows[j].key # KeyOf[i]
    BY <1>1, <1>2
  <2>6. new.key = KeyOf[i]
    OBVIOUS
  <2> HIDE DEF all, new
  <2>7. OneEach(all)
    <3> SUFFICES ASSUME NEW a \in 1..(Len(rows) + 1), NEW b \in 1..(Len(rows) + 1),
                        all[a].key = all[b].key, all[a].key # None
                 PROVE  a = b
      BY <2>4 DEF OneEach
    <3>1. CASE a \in 1..Len(rows) /\ b \in 1..Len(rows)
      BY <1>1, <2>3, <3>1 DEF OneEach
    <3>2. CASE a = Len(rows) + 1 /\ b \in 1..Len(rows)
      BY <2>3, <2>5, <2>6, <3>2
    <3>3. CASE b = Len(rows) + 1 /\ a \in 1..Len(rows)
      BY <2>3, <2>5, <2>6, <3>3
    <3> QED
      BY <1>1, <3>1, <3>2, <3>3
  <2> QED
    BY <1>1, <2>2, <2>3, <2>7 DEF all
<1>3. ASSUME NEW j \in at PROVE
         /\ Apply(rows, i) \in Seq(Rows) /\ OneEach(Apply(rows, i))
         /\ Len(Apply(rows, i)) <= Len(rows) + 1
  <2>1. at = {j}
    BY DEF OneEach
  <2>2. j \in 1..Len(rows) /\ rows[j] \in Rows
    BY <1>1, ElementOfSeq
  <2>3. Max(at) = j
    <3>1. \E x \in at : \A y \in at : x >= y
      BY <1>1, <2>1, <2>2
    <3> HIDE DEF at
    <3>2. Max(at) \in at
      BY <3>1 DEF Max
    <3> QED
      BY <2>1, <3>2
  <2> DEFINE row == [rows[j] EXCEPT !.line = i]
  <2>4. row \in Rows /\ row.key = rows[j].key
    BY <2>2 DEF Rows
  <2>5. Apply(rows, i) = [rows EXCEPT ![j] = row]
    BY <2>1, <2>3 DEF Apply
  <2> HIDE DEF row
  <2> DEFINE all == [rows EXCEPT ![j] = row]
  <2>6. /\ all \in Seq(Rows) /\ Len(all) = Len(rows) /\ DOMAIN all = DOMAIN rows
        /\ \A k \in 1..Len(rows) : all[k] = IF k = j THEN row ELSE rows[k]
    BY <2>2, <2>4, ExceptSeq
  <2> HIDE DEF all
  <2>7. \A k \in 1..Len(rows) : all[k].key = rows[k].key
    BY <2>4, <2>6
  <2>8. OneEach(all)
    BY <1>1, <2>6, <2>7 DEF OneEach
  <2> QED
    BY <1>1, <2>5, <2>6, <2>8 DEF all
<1> QED
  BY <1>2, <1>3

LEMMA AppliedKeeps ==
  ASSUME NEW rows \in Seq(Rows), OneEach(rows), NEW events \in Seq(1..Length)
  PROVE  /\ Applied(rows, events) \in Seq(Rows) /\ OneEach(Applied(rows, events))
         /\ Len(Applied(rows, events)) <= Len(rows) + Len(events)
<1>1. Len(events) \in Nat /\ Len(rows) \in Nat /\ \A k \in 1..Len(events) : events[k] \in 1..Length
  BY LenProperties, ElementOfSeq
<1>2. PICK f : /\ Applied(rows, events) = f[Len(events)] /\ f[0] = rows
               /\ \A k \in 1..Len(events) : f[k] = Apply(f[k - 1], events[k])
  BY <1>1, AppliedFollows, SMTT(60)
<1> DEFINE Good(k) == f[k] \in Seq(Rows) /\ OneEach(f[k]) /\ Len(f[k]) <= Len(rows) + k
           S == {k \in Nat : k <= Len(events) => Good(k)}
<1>3. 0 \in S
  BY <1>1, <1>2
<1>4. ASSUME NEW k \in Nat, k \in S PROVE k + 1 \in S
  <2> SUFFICES ASSUME k + 1 <= Len(events) PROVE Good(k + 1)
    OBVIOUS
  <2>1. k + 1 \in 1..Len(events) /\ (k + 1) - 1 = k /\ k <= Len(events)
    BY <1>1
  <2>2. f[k] \in Seq(Rows) /\ OneEach(f[k]) /\ Len(f[k]) <= Len(rows) + k
    BY <1>4, <2>1
  <2>3. f[k + 1] = Apply(f[k], events[k + 1]) /\ events[k + 1] \in 1..Length
    BY <1>1, <1>2, <2>1
  <2>4. /\ f[k + 1] \in Seq(Rows) /\ OneEach(f[k + 1]) /\ Len(f[k + 1]) <= Len(f[k]) + 1
    BY <2>2, <2>3, ApplyKeeps
  <2>5. Len(f[k]) \in Nat /\ Len(f[k + 1]) \in Nat
    BY <2>2, <2>4, LenProperties
  <2> QED
    BY <1>1, <2>2, <2>4, <2>5
<1> HIDE DEF S
<1>5. S = Nat
  <2>1. S \in SUBSET Nat
    BY DEF S
  <2> QED
    BY <1>3, <1>4, <2>1, SetInduction
<1>6. Len(events) <= Len(events) => Good(Len(events))
  BY <1>1, <1>5 DEF S
<1> QED
  BY <1>1, <1>2, <1>6

LEMMA LastOfKeeps ==
  ASSUME NEW D, NEW s \in Seq(D), NEW n \in Nat
  PROVE  /\ LastOf(s, n) \in Seq(D) /\ Len(LastOf(s, n)) <= n
         /\ Len(s) <= n => LastOf(s, n) = s
         /\ \E m \in Nat : \A i \in DOMAIN LastOf(s, n) :
              i + m \in DOMAIN s /\ LastOf(s, n)[i] = s[i + m]
<1>1. Len(s) \in Nat /\ DOMAIN s = 1..Len(s)
  BY LenProperties
<1>2. CASE Len(s) <= n
  <2>1. LastOf(s, n) = s
    BY <1>2 DEF LastOf
  <2>2. \A i \in DOMAIN s : i + 0 \in DOMAIN s /\ s[i] = s[i + 0]
    BY <1>1
  <2> QED
    BY <1>2, <2>1, <2>2
<1>3. CASE Len(s) > n
  <2> DEFINE m == Len(s) - n
             l == SubSeq(s, m + 1, Len(s))
  <2>1. m \in Nat /\ m + 1 \in Int /\ Len(s) \in Int /\ Len(s) - (m + 1) + 1 = n
    BY <1>1, <1>3
  <2>2. \A i \in (m + 1)..Len(s) : s[i] \in D
    BY <1>1, <2>1, ElementOfSeq
  <2>3. LastOf(s, n) = l
    BY <1>1, <1>3 DEF LastOf
  <2> HIDE DEF m
  <2>4. /\ l \in Seq(D) /\ Len(l) = IF m + 1 <= Len(s) THEN Len(s) - (m + 1) + 1 ELSE 0
        /\ \A i \in 1..(Len(s) - (m + 1) + 1) : l[i] = s[(m + 1) + i - 1]
    BY <2>1, <2>2, SubSeqProperties
  <2> HIDE DEF l
  <2>5. Len(l) = n /\ DOMAIN l = 1..n
    BY <1>1, <1>3, <2>1, <2>4, LenProperties
  <2>6. \A i \in 1..n : i + m \in DOMAIN s /\ l[i] = s[i + m]
    <3> TAKE i \in 1..n
    <3>1. i + m \in 1..Len(s) /\ (m + 1) + i - 1 = i + m
      BY <1>1, <2>1
    <3> QED
      BY <1>1, <2>1, <2>4, <3>1
  <2>7. LastOf(s, n) \in Seq(D) /\ Len(LastOf(s, n)) <= n
    BY <2>3, <2>4, <2>5
  <2>8. ~(Len(s) <= n)
    BY <1>1, <1>3
  <2>9. \A i \in DOMAIN LastOf(s, n) : i + m \in DOMAIN s /\ LastOf(s, n)[i] = s[i + m]
    BY <2>3, <2>5, <2>6
  <2> QED
    BY <2>1, <2>7, <2>8, <2>9
<1> QED
  BY <1>1, <1>2, <1>3

LEMMA ShownKeeps ==
  ASSUME NEW rows \in Seq(Rows), OneEach(rows), NEW events \in Seq(1..Length)
  PROVE  /\ Shown(rows, events) \in Seq(Rows) /\ Len(Shown(rows, events)) <= MaxLines
         /\ OneEach(Shown(rows, events))
         /\ Len(rows) + Len(events) <= MaxLines => Shown(rows, events) = Applied(rows, events)
<1> DEFINE all == Applied(rows, events)
           last == LastOf(all, MaxLines)
<1>1. all \in Seq(Rows) /\ OneEach(all) /\ Len(all) <= Len(rows) + Len(events)
  BY AppliedKeeps
<1> HIDE DEF all
<1>2. /\ last \in Seq(Rows) /\ Len(last) <= MaxLines /\ (Len(all) <= MaxLines => last = all)
      /\ \E m \in Nat : \A i \in DOMAIN last : i + m \in DOMAIN all /\ last[i] = all[i + m]
  BY <1>1, LastOfKeeps
<1>3. Len(all) \in Nat /\ Len(rows) \in Nat /\ Len(events) \in Nat
      /\ Len(last) \in Nat /\ DOMAIN last = 1..Len(last)
  BY <1>1, <1>2, LenProperties
<1> HIDE DEF last
<1>4. OneEach(last)
  <2>1. PICK m \in Nat : \A i \in DOMAIN last : i + m \in DOMAIN all /\ last[i] = all[i + m]
    BY <1>2
  <2> SUFFICES ASSUME NEW i \in 1..Len(last), NEW j \in 1..Len(last),
                      last[i].key = last[j].key, last[i].key # None
               PROVE  i = j
    BY <1>3 DEF OneEach
  <2>2. /\ i + m \in DOMAIN all /\ last[i] = all[i + m]
        /\ j + m \in DOMAIN all /\ last[j] = all[j + m]
    BY <1>3, <2>1
  <2>3. i + m = j + m
    BY <1>1, <2>2 DEF OneEach
  <2> QED
    BY <2>3
<1>5. Len(rows) + Len(events) <= MaxLines => last = all
  BY <1>1, <1>2, <1>3
<1> QED
  BY <1>2, <1>4, <1>5 DEF all, last, Shown

-----------------------------------------------------------------------------
(* The view.                                                               *)

(* What was received is what the view shows, all applied from an empty     *)
(* view, and then what it has put off.                                     *)
ShownThenPutOff(sent, rows, putOff) ==
  \E s \in Seq(1..Length) : sent = s \o putOff /\ rows = Applied(<<>>, s)

LEMMA NothingYet == ShownThenPutOff(<<>>, <<>>, <<>>)
<1>1. Len(<<>>) = 0 /\ <<>> \in Seq(1..Length) /\ <<>> \o <<>> = <<>>
  OBVIOUS
<1>2. Len(<<>>) \in Nat
  BY <1>1
<1>3. PICK f : Applied(<<>>, <<>>) = f[Len(<<>>)] /\ f[0] = <<>>
  BY <1>2, AppliedFollows, SMTT(60)
<1>4. Applied(<<>>, <<>>) = <<>>
  BY <1>1, <1>3
<1> QED
  BY <1>1, <1>4 DEF ShownThenPutOff

(* More events are put off: they go behind those that were.                *)
LEMMA PuttingOff ==
  ASSUME NEW sent \in Seq(1..Length), NEW rows, NEW putOff \in Seq(1..Length),
         NEW more \in Seq(1..Length),
         Len(sent \o more) <= MaxLines, ShownThenPutOff(sent, rows, putOff)
  PROVE  ShownThenPutOff(sent \o more, rows, LastOf(putOff \o more, MaxLines))
<1>1. PICK s \in Seq(1..Length) : sent = s \o putOff /\ rows = Applied(<<>>, s)
  BY DEF ShownThenPutOff
<1>2. /\ putOff \o more \in Seq(1..Length)
      /\ Len(putOff \o more) = Len(putOff) + Len(more)
      /\ Len(sent) = Len(s) + Len(putOff)
      /\ Len(sent \o more) = Len(sent) + Len(more)
  BY <1>1, ConcatProperties
<1>3. Len(s) \in Nat /\ Len(putOff) \in Nat /\ Len(more) \in Nat
  BY LenProperties
<1>4. Len(putOff \o more) <= MaxLines
  BY <1>2, <1>3
<1>5. LastOf(putOff \o more, MaxLines) = putOff \o more
  BY <1>4 DEF LastOf
<1>6. sent \o more = s \o (putOff \o more)
  BY <1>1, ConcatAssociative
<1> QED
  BY <1>1, <1>5, <1>6 DEF ShownThenPutOff

(* Events are shown when none is put off.                                  *)
LEMMA Showing ==
  ASSUME NEW sent \in Seq(1..Length), NEW rows,
         NEW more \in Seq(1..Length),
         Len(sent \o more) <= MaxLines, ShownThenPutOff(sent, rows, <<>>)
  PROVE  ShownThenPutOff(sent \o more, Shown(rows, more), <<>>)
<1>1. PICK s \in Seq(1..Length) : sent = s \o <<>> /\ rows = Applied(<<>>, s)
  BY DEF ShownThenPutOff
<1>2. sent = s
  BY <1>1, ConcatEmptySeq
<1>3. rows \in Seq(Rows) /\ OneEach(rows) /\ Len(rows) <= Len(sent)
  <2>1. <<>> \in Seq(Rows) /\ OneEach(<<>>) /\ Len(<<>>) = 0
    BY DEF OneEach
  <2>2. /\ Applied(<<>>, s) \in Seq(Rows) /\ OneEach(Applied(<<>>, s))
        /\ Len(Applied(<<>>, s)) <= Len(<<>>) + Len(s)
    BY <2>1, AppliedKeeps
  <2>3. Len(s) \in Nat
    BY LenProperties
  <2> QED
    BY <1>1, <1>2, <2>1, <2>2, <2>3
<1>4. Len(rows) + Len(more) <= MaxLines
  <2>1. Len(sent \o more) = Len(sent) + Len(more)
    BY ConcatProperties
  <2>2. Len(rows) \in Nat /\ Len(sent) \in Nat /\ Len(more) \in Nat
    BY <1>3, LenProperties
  <2> QED
    BY <1>3, <2>1, <2>2
<1>5. Shown(rows, more) = Applied(rows, more)
  BY <1>3, <1>4, ShownKeeps
<1>6. Applied(rows, more) = Applied(<<>>, sent \o more)
  BY <1>1, <1>2, AppliedInTwo
<1>7. sent \o more \in Seq(1..Length)
  BY ConcatProperties
<1>8. sent \o more = (sent \o more) \o <<>>
  BY <1>7, ConcatEmptySeq
<1> QED
  BY <1>5, <1>6, <1>7, <1>8 DEF ShownThenPutOff

(* Resuming shows what was put off.                                        *)
LEMMA Resuming ==
  ASSUME NEW sent \in Seq(1..Length), NEW rows, NEW putOff \in Seq(1..Length),
         Len(sent) <= MaxLines, ShownThenPutOff(sent, rows, putOff)
  PROVE  ShownThenPutOff(sent, Shown(rows, putOff), <<>>)
<1>1. PICK s \in Seq(1..Length) : sent = s \o putOff /\ rows = Applied(<<>>, s)
  BY DEF ShownThenPutOff
<1>2. ShownThenPutOff(s, rows, <<>>)
  BY <1>1, ConcatEmptySeq DEF ShownThenPutOff
<1> QED
  BY <1>1, <1>2, Showing

(* Nothing waits in an unpaused view, and as long as all that came fits,   *)
(* nothing of it is lost.                                                  *)
ViewInv ==
  /\ exists \in BOOLEAN
  /\ lines \in Seq(Rows) /\ Len(lines) <= MaxLines
  /\ paused \in BOOLEAN
  /\ backlog \in Seq(1..Length) /\ Len(backlog) <= MaxLines
  /\ OneEach(lines)
  /\ ~paused => backlog = <<>>
  /\ Len(received) <= MaxLines => ShownThenPutOff(received, lines, backlog)

LEMMA ViewInit == Init => ViewInv
<1> SUFFICES ASSUME Init PROVE ViewInv
  OBVIOUS
<1> USE DEF Init
<1>1. exists \in BOOLEAN /\ paused \in BOOLEAN /\ backlog = <<>>
  OBVIOUS
<1>2. lines \in Seq(Rows) /\ Len(lines) <= MaxLines
      /\ backlog \in Seq(1..Length) /\ Len(backlog) <= MaxLines
  OBVIOUS
<1>3. OneEach(lines)
  BY DEF OneEach
<1>4. ShownThenPutOff(received, lines, backlog)
  BY NothingYet
<1> QED
  BY <1>1, <1>2, <1>3, <1>4 DEF ViewInv

(* Events that come keep the invariant.                                    *)
LEMMA DeliverStep ==
  ASSUME ViewInv, received \in Seq(1..Length), exists' = exists,
         NEW more \in Seq(1..Length), Deliver(more)
  PROVE  ViewInv'
<1>1. received' = received \o more /\ paused' = paused
  BY DEF Deliver
<1>2. Len(received') <= MaxLines => Len(received) <= MaxLines
  <2>1. Len(received \o more) = Len(received) + Len(more)
    BY ConcatProperties
  <2>2. Len(received) \in Nat /\ Len(more) \in Nat
    BY LenProperties
  <2> QED
    BY <1>1, <2>1, <2>2
<1>3. CASE paused
  <2>1. backlog' = LastOf(backlog \o more, MaxLines) /\ lines' = lines
    BY <1>3 DEF Deliver
  <2>2. backlog \o more \in Seq(1..Length) /\ MaxLines \in Nat
    BY ConcatProperties DEF ViewInv
  <2>3. backlog' \in Seq(1..Length) /\ Len(backlog') <= MaxLines
    BY <2>1, <2>2, LastOfKeeps
  <2>4. ASSUME Len(received') <= MaxLines
        PROVE  ShownThenPutOff(received', lines', backlog')
    <3>1. ShownThenPutOff(received, lines, backlog) /\ backlog \in Seq(1..Length)
      BY <1>2, <2>4 DEF ViewInv
    <3> QED
      BY <1>1, <2>1, <2>4, <3>1, PuttingOff
  <2> QED
    BY <1>1, <1>3, <2>1, <2>3, <2>4 DEF ViewInv, OneEach
<1>4. CASE ~paused
  <2>1. lines' = Shown(lines, more) /\ backlog' = backlog /\ backlog = <<>>
    BY <1>4 DEF Deliver, ViewInv
  <2>2. lines \in Seq(Rows) /\ OneEach(lines)
    BY DEF ViewInv
  <2>3. lines' \in Seq(Rows) /\ Len(lines') <= MaxLines /\ OneEach(lines')
    BY <2>1, <2>2, ShownKeeps
  <2>4. ASSUME Len(received') <= MaxLines
        PROVE  ShownThenPutOff(received', lines', backlog')
    <3>1. ShownThenPutOff(received, lines, <<>>)
      BY <1>2, <2>1, <2>4 DEF ViewInv
    <3> QED
      BY <1>1, <2>1, <2>4, <3>1, Showing
  <2> QED
    BY <1>1, <1>4, <2>1, <2>3, <2>4 DEF ViewInv
<1> QED
  BY <1>3, <1>4

LEMMA ResumeStep == ViewInv /\ received \in Seq(1..Length) /\ Resume => ViewInv'
<1> SUFFICES ASSUME ViewInv, received \in Seq(1..Length), Resume PROVE ViewInv'
  OBVIOUS
<1>1. /\ paused' = FALSE /\ lines' = Shown(lines, backlog) /\ backlog' = <<>>
      /\ received' = received /\ exists' = exists
  BY DEF Resume, fileVars
<1>2. /\ lines \in Seq(Rows) /\ OneEach(lines) /\ backlog \in Seq(1..Length)
      /\ exists \in BOOLEAN
  BY DEF ViewInv
<1>3. lines' \in Seq(Rows) /\ Len(lines') <= MaxLines /\ OneEach(lines')
  BY <1>1, <1>2, ShownKeeps
<1>4. ASSUME Len(received') <= MaxLines
      PROVE  ShownThenPutOff(received', lines', backlog')
  <2>1. ShownThenPutOff(received, lines, backlog)
    BY <1>1, <1>4 DEF ViewInv
  <2> QED
    BY <1>1, <1>2, <1>4, <2>1, Resuming
<1>5. backlog' \in Seq(1..Length) /\ Len(backlog') <= MaxLines
  BY <1>1
<1> QED
  BY <1>1, <1>2, <1>3, <1>4, <1>5 DEF ViewInv

LEMMA ViewStep == StreamInv /\ ViewInv /\ [Next]_vars => ViewInv'
<1> SUFFICES ASSUME StreamInv, ViewInv, [Next]_vars PROVE ViewInv'
  OBVIOUS
<1> USE DEF fileVars, streamVars, viewVars
<1>1. received \in Seq(1..Length)
  BY DEF StreamInv, StreamType
<1>2. ASSUME exists' \in BOOLEAN, UNCHANGED viewVars PROVE ViewInv'
  BY <1>2 DEF ViewInv, OneEach
<1>3. exists \in BOOLEAN
  BY DEF ViewInv
<1>4. CASE Worker
  BY <1>2, <1>3, <1>4 DEF Worker, OpenLog, AppendLine, CloseLog, Deregister
<1>5. CASE Stat \/ CheckInFlight \/ Tick \/ Connect \/ ReadFails \/ Drop \/ Crash
  BY <1>2, <1>3, <1>5 DEF Stat, CheckInFlight, Tick, Connect, ReadFails, Drop, Crash
<1>6. CASE Read
  <2>1. Deliver(Run(offset, written)) /\ exists' = exists
    BY <1>6 DEF Read, Run
  <2>2. offset \in Nat /\ written \in 0..Length /\ offset <= written
    <3>1. offset \in 0..Length /\ written \in 0..Length /\ size \in 0..Length
          /\ offset <= written
      BY DEF StreamInv, StreamType, TailBehindFile
    <3> QED
      BY <3>1
  <2>3. Run(offset, written) \in Seq(1..Length)
    <3>1. written - offset \in Nat /\ \A i \in 1..(written - offset) : offset + i \in 1..Length
      BY <2>2
    <3> QED
      BY <3>1 DEF Run
  <2> QED
    BY <1>1, <2>1, <2>3, DeliverStep
<1>7. CASE Pause
  <2>1. paused' = TRUE /\ exists' = exists /\ UNCHANGED <<lines, backlog, received>>
    BY <1>7 DEF Pause
  <2> QED
    BY <2>1 DEF ViewInv, OneEach
<1>8. CASE Resume
  BY <1>1, <1>8, ResumeStep
<1>9. CASE UNCHANGED vars
  BY <1>2, <1>3, <1>9 DEF vars
<1> QED
  BY <1>4, <1>5, <1>6, <1>7, <1>8, <1>9 DEF Next, Stream, View

LEMMA LogInvariant == Spec => [](StreamInv /\ ViewInv)
<1>1. Init => StreamInv /\ ViewInv
  BY StreamInit, ViewInit
<1>2. StreamInv /\ ViewInv /\ [Next]_vars => (StreamInv /\ ViewInv)'
  BY StreamStep, ViewStep
<1> QED
  BY <1>1, <1>2, PTL DEF Spec

(* The log, its stream and the view keep their types; in particular the    *)
(* rows and the events put off never exceed MAX_LINES, however long a      *)
(* pause lasts (useLogStream.ts:174).                                      *)
THEOREM LogTypeCorrect == Spec => []TypeOK
<1>1. StreamInv /\ ViewInv => TypeOK
  BY DEF StreamInv, StreamType, ViewInv, TypeOK
<1> QED
  BY <1>1, LogInvariant, PTL

(* A key has one row at most, whatever was cut from the view and however   *)
(* often its lines come again (useLogStream.ts:31).                        *)
THEOREM KeysHaveOneRow == Spec => []OneRowPerKey
<1>1. ViewInv => OneRowPerKey
  BY DEF ViewInv, OneEach, OneRowPerKey
<1> QED
  BY <1>1, LogInvariant, PTL

(* As long as no row had to go, an unpaused view shows what it would if it *)
(* had never paused (useLogStream.ts:23).                                  *)
THEOREM PausesDefer == Spec => []PauseDefers
<1>1. StreamInv /\ ViewInv => PauseDefers
  <2> SUFFICES ASSUME StreamInv, ViewInv, ~paused, Len(received) <= MaxLines
               PROVE  lines = Shown(<<>>, received)
    BY DEF PauseDefers
  <2>1. received \in Seq(1..Length) /\ ShownThenPutOff(received, lines, <<>>)
    BY DEF StreamInv, StreamType, ViewInv
  <2>2. PICK s \in Seq(1..Length) : received = s \o <<>> /\ lines = Applied(<<>>, s)
    BY <2>1 DEF ShownThenPutOff
  <2>3. received = s
    BY <2>2, ConcatEmptySeq
  <2>4. <<>> \in Seq(Rows) /\ OneEach(<<>>) /\ Len(<<>>) + Len(received) <= MaxLines
    <3>1. Len(received) \in Nat /\ Len(<<>>) = 0
      BY <2>1, LenProperties
    <3> QED
      BY <3>1 DEF OneEach
  <2>5. Shown(<<>>, received) = Applied(<<>>, received)
    BY <2>1, <2>4, ShownKeeps
  <2> QED
    BY <2>2, <2>3, <2>5
<1> QED
  BY <1>1, LogInvariant, PTL
=============================================================================
