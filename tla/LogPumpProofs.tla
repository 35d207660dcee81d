--------------------------- MODULE LogPumpProofs ---------------------------
(***************************************************************************)
(* Proofs about LogPump, for any streams, any amount of output and any     *)
(* capacity of the channel.                                                *)
(***************************************************************************)
EXTENDS LogPump, SequenceTheorems, TLAPS

(* The error lies in its channel until the handler takes it, and closing   *)
(* the channels does not take it away.                                     *)
ErrorWaits == failed /\ handler = "select" => errs

(* The handler of a browser that is there leaves only because the reader   *)
(* has closed a channel or met an error, so that none can follow.          *)
NoneFollows ==
  /\ connected /\ handler # "select" => reader \notin {"read", "write"}
  /\ open # {"lines", "errs"} => reader \notin {"read", "write"}
  /\ errs => reader \notin {"read", "write"}

Places ==
  /\ reader \in {"read", "write", "cancel", "closeErrs", "closeLines", "gone"}
  /\ handler \in {"select", "cancel", "gone"}
  /\ errs \in BOOLEAN /\ failed \in BOOLEAN /\ connected \in BOOLEAN
  /\ open \in SUBSET {"lines", "errs"}

ErrorInv == Places /\ ErrorWaits /\ NoneFollows /\ ErrorIsShown

LEMMA ErrorInit == Init => ErrorInv
BY DEF Init, ErrorInv, Places, ErrorWaits, NoneFollows, ErrorIsShown

LEMMA ErrorStep == ErrorInv /\ [Next]_vars => ErrorInv'
<1> SUFFICES ASSUME ErrorInv, [Next]_vars PROVE ErrorInv'
  OBVIOUS
<1> USE DEF ErrorInv, Places, ErrorWaits, NoneFollows, ErrorIsShown
<1>1. ASSUME NEW s \in Sinks, NEW w \in Frames, Read(s, w) PROVE ErrorInv'
  BY <1>1 DEF Read, channelVars, handlerVars
<1>2. CASE SendLine
  BY <1>2 DEF SendLine, handlerVars
<1>3. CASE WriteReturns
  BY <1>3 DEF WriteReturns, channelVars, handlerVars
<1>4. CASE ReadEnds
  BY <1>4 DEF ReadEnds, channelVars, handlerVars
<1>5. CASE Fails
  BY <1>5 DEF Fails, handlerVars
<1>6. CASE ReaderCancels
  BY <1>6 DEF ReaderCancels, handlerVars
<1>7. CASE CloseErrs
  BY <1>7 DEF CloseErrs, handlerVars
<1>8. CASE CloseLines
  BY <1>8 DEF CloseLines, handlerVars
<1>9. CASE TakeLine
  BY <1>9 DEF TakeLine, readerVars
<1>10. CASE TakeEnd
  BY <1>10 DEF TakeEnd, readerVars
<1>11. CASE TakeError
  BY <1>11 DEF TakeError, readerVars
<1>12. CASE TakeClosedErrors
  BY <1>12 DEF TakeClosedErrors, readerVars, channelVars
<1>13. CASE ContextDone
  BY <1>13 DEF ContextDone, readerVars, channelVars
<1>14. CASE Cancel
  BY <1>14 DEF Cancel, readerVars
<1>15. CASE Disconnect
  BY <1>15 DEF Disconnect, readerVars, channelVars, handlerVars
<1>16. CASE UNCHANGED vars
  BY <1>16 DEF vars, readerVars, channelVars, handlerVars
<1> QED
  BY <1>1, <1>2, <1>3, <1>4, <1>5, <1>6, <1>7, <1>8, <1>9, <1>10, <1>11, <1>12, <1>13, <1>14,
     <1>15, <1>16 DEF Next, Engine, Reader, Handler, ReadBreaks, ReadReleased

(* A browser that stays is told of every error, whichever of its ready     *)
(* cases the handler's select takes.                                       *)
THEOREM ErrorsAreShown == Spec => []ErrorIsShown
<1>1. ErrorInv => ErrorIsShown
  BY DEF ErrorInv
<1> QED
  BY <1>1, ErrorInit, ErrorStep, PTL DEF Spec

-----------------------------------------------------------------------------
(* Stretches.                                                              *)

LEMMA StretchType ==
  ASSUME NEW s \in Sinks, NEW a \in Nat, NEW b \in a..MaxPieces
  PROVE  /\ Stretch(s, a, b) \in Seq(Pieces)
         /\ Len(Stretch(s, a, b)) = b - a
         /\ DOMAIN Stretch(s, a, b) = 1..(b - a)
         /\ \A k \in 1..(b - a) : Stretch(s, a, b)[k] = [of |-> s, at |-> a + k]
<1>1. b - a \in Nat /\ \A k \in 1..(b - a) : a + k \in 1..MaxPieces
  BY PumpAssumption
<1>2. \A k \in 1..(b - a) : [of |-> s, at |-> a + k] \in Pieces
  BY <1>1 DEF Pieces
<1> QED
  BY <1>1, <1>2 DEF Stretch

(* Two stretches that meet are one.                                        *)
LEMMA StretchesMeet ==
  ASSUME NEW s \in Sinks, NEW a \in Nat, NEW b \in a..MaxPieces, NEW c \in b..MaxPieces
  PROVE  Stretch(s, a, b) \o Stretch(s, b, c) = Stretch(s, a, c)
<1> DEFINE l == Stretch(s, a, b)
           r == Stretch(s, b, c)
           w == Stretch(s, a, c)
<1>1. /\ l \in Seq(Pieces) /\ r \in Seq(Pieces) /\ w \in Seq(Pieces)
      /\ Len(l) = b - a /\ Len(r) = c - b /\ Len(w) = c - a
      /\ \A k \in 1..(b - a) : l[k] = [of |-> s, at |-> a + k]
      /\ \A k \in 1..(c - b) : r[k] = [of |-> s, at |-> b + k]
      /\ \A k \in 1..(c - a) : w[k] = [of |-> s, at |-> a + k]
  <2>1. b \in Nat /\ c \in a..MaxPieces
    BY PumpAssumption
  <2> QED
    BY <2>1, StretchType
<1> HIDE DEF l, r, w
<1>2. /\ l \o r \in Seq(Pieces) /\ Len(l \o r) = Len(l) + Len(r)
      /\ \A i \in 1..(Len(l) + Len(r)) :
           (l \o r)[i] = IF i <= Len(l) THEN l[i] ELSE r[i - Len(l)]
  BY <1>1, ConcatProperties
<1>3. Len(l \o r) = Len(w)
  BY <1>1, <1>2, PumpAssumption
<1>4. ASSUME NEW i \in 1..Len(l \o r) PROVE (l \o r)[i] = w[i]
  <2>1. i \in 1..(c - a)
    BY <1>1, <1>3
  <2>2. CASE i <= b - a
    <3>1. (l \o r)[i] = l[i]
      BY <1>1, <1>2, <1>3, <2>1, <2>2
    <3>2. i \in 1..(b - a)
      BY <2>1, <2>2, PumpAssumption
    <3>3. l[i] = [of |-> s, at |-> a + i] /\ w[i] = [of |-> s, at |-> a + i]
      BY <1>1, <2>1, <3>2
    <3> QED
      BY <3>1, <3>3
  <2>3. CASE i > b - a
    <3>1. i - (b - a) \in 1..(c - b) /\ b + (i - (b - a)) = a + i
      BY <2>1, <2>3, PumpAssumption
    <3>2. (l \o r)[i] = r[i - (b - a)]
      BY <1>1, <1>2, <1>3, <2>1, <2>3
    <3> QED
      BY <1>1, <2>1, <3>1, <3>2
  <2> QED
    BY <2>1, <2>2, <2>3
<1>5. l \o r = w
  BY <1>1, <1>2, <1>3, <1>4, SeqEqual
<1> QED
  BY <1>5 DEF l, r, w

(* Cutting a stretch after k pieces.                                       *)
LEMMA StretchCut ==
  ASSUME NEW s \in Sinks, NEW a \in Nat, NEW b \in a..MaxPieces, NEW k \in 0..(b - a)
  PROVE  /\ SubSeq(Stretch(s, a, b), 1, k) = Stretch(s, a, a + k)
         /\ SubSeq(Stretch(s, a, b), k + 1, b - a) = Stretch(s, a + k, b)
<1> DEFINE w == Stretch(s, a, b)
           l == Stretch(s, a, a + k)
           r == Stretch(s, a + k, b)
<1>1. /\ l \in Seq(Pieces) /\ r \in Seq(Pieces) /\ w \in Seq(Pieces)
      /\ Len(l) = k /\ Len(r) = b - a - k /\ Len(w) = b - a
      /\ \A i \in 1..(b - a) : w[i] = [of |-> s, at |-> a + i]
      /\ \A i \in 1..k : l[i] = [of |-> s, at |-> a + i]
      /\ \A i \in 1..(b - a - k) : r[i] = [of |-> s, at |-> a + k + i]
  <2>1. /\ a + k \in Nat /\ a + k \in a..MaxPieces /\ b \in (a + k)..MaxPieces
        /\ (a + k) - a = k /\ b - (a + k) = b - a - k
    BY PumpAssumption
  <2> QED
    BY <2>1, StretchType
<1> HIDE DEF l, r, w
<1>2. k \in Int /\ k + 1 \in Int /\ b - a \in Int /\ b - a - k \in Nat
  BY PumpAssumption
<1>3. SubSeq(w, 1, k) = l
  <2>1. \A i \in 1..k : w[i] \in Pieces
    BY <1>1, <1>2
  <2>2. /\ SubSeq(w, 1, k) \in Seq(Pieces)
        /\ Len(SubSeq(w, 1, k)) = IF 1 <= k THEN k - 1 + 1 ELSE 0
        /\ \A i \in 1..(k - 1 + 1) : SubSeq(w, 1, k)[i] = w[1 + i - 1]
    BY <1>2, <2>1, SubSeqProperties
  <2>3. Len(SubSeq(w, 1, k)) = k /\ \A i \in 1..k : SubSeq(w, 1, k)[i] = w[i]
    BY <2>2
  <2>4. \A i \in 1..k : w[i] = l[i]
    BY <1>1, <1>2
  <2> QED
    BY <1>1, <2>2, <2>3, <2>4, SeqEqual
<1>4. SubSeq(w, k + 1, b - a) = r
  <2>1. \A i \in (k + 1)..(b - a) : w[i] \in Pieces
    BY <1>1, <1>2
  <2> DEFINE t == SubSeq(w, k + 1, b - a)
  <2>2. /\ t \in Seq(Pieces)
        /\ Len(t) = IF k + 1 <= b - a THEN (b - a) - (k + 1) + 1 ELSE 0
        /\ \A i \in 1..((b - a) - (k + 1) + 1) : t[i] = w[(k + 1) + i - 1]
    BY <1>2, <2>1, SubSeqProperties
  <2> HIDE DEF t
  <2>3. Len(t) = b - a - k /\ \A i \in 1..(b - a - k) : t[i] = w[k + i]
    BY <2>2, <1>2
  <2>4. ASSUME NEW i \in 1..(b - a - k) PROVE t[i] = r[i]
    <3>1. k + i \in 1..(b - a) /\ a + (k + i) = a + k + i
      BY <1>2
    <3> QED
      BY <1>1, <2>3, <3>1
  <2>5. t = r
    BY <1>1, <2>2, <2>3, <2>4, SeqEqual
  <2> QED
    BY <2>5 DEF t
<1> QED
  BY <1>3, <1>4 DEF l, r, w

-----------------------------------------------------------------------------
(* Lines.  The operators of LogPump about text x.                          *)

NextLineIn(x, s, q, i) ==
  \E b \in DOMAIN x[s] : \E a \in 0..(b - 1) :
    /\ q[i] = Stretch(s, a, b)
    /\ \A k \in (a + 1)..b : x[s][k] <=> k = b
    /\ EndAt(s, q, i - 1, a)

Chained(x, q) == \A i \in DOMAIN q : \E s \in Sinks : NextLineIn(x, s, q, i)

Texts == {x \in [Sinks -> Seq(BOOLEAN)] : \A s \in Sinks : Len(x[s]) <= MaxPieces}

LEMMA EndAtSame ==
  ASSUME NEW q, NEW r, NEW i \in Int, NEW s, NEW n, \A j \in 1..i : q[j] = r[j]
  PROVE  EndAt(s, q, i, n) => EndAt(s, r, i, n)
BY DEF EndAt

(* A line that takes up its stream where the lines of q leave it off goes  *)
(* on with the chain, and leaves the other streams where they are.         *)
LEMMA ChainGrows ==
  ASSUME NEW x \in Texts, NEW q \in Seq(Seq(Pieces)), Chained(x, q),
         NEW s \in Sinks, NEW b \in DOMAIN x[s], NEW a \in 0..(b - 1),
         EndAt(s, q, Len(q), a), \A k \in (a + 1)..b : x[s][k] <=> k = b
  PROVE  LET r == Append(q, Stretch(s, a, b))
         IN  /\ r \in Seq(Seq(Pieces)) /\ Chained(x, r) /\ EndAt(s, r, Len(r), b)
             /\ \A t \in Sinks \ {s}, n \in Nat : EndAt(t, q, Len(q), n) => EndAt(t, r, Len(r), n)
<1> DEFINE l == Stretch(s, a, b)
           r == Append(q, l)
<1>1. /\ l \in Seq(Pieces) /\ Len(l) = b - a /\ Len(l) \in Nat \ {0}
      /\ l[1].of = s /\ l[Len(l)].at = b
  <2>1. x[s] \in Seq(BOOLEAN) /\ Len(x[s]) <= MaxPieces
    BY DEF Texts
  <2>2. a \in Nat /\ b \in Nat /\ b \in a..MaxPieces /\ b - a \in Nat \ {0} /\ a + (b - a) = b
    BY <2>1, PumpAssumption
  <2>3. /\ l \in Seq(Pieces) /\ Len(l) = b - a
        /\ \A k \in 1..(b - a) : l[k] = [of |-> s, at |-> a + k]
    BY <2>2, StretchType
  <2> HIDE DEF l
  <2>4. 1 \in 1..(b - a) /\ b - a \in 1..(b - a)
    BY <2>2
  <2>5. l[1].of = s
    BY <2>3, <2>4
  <2>6. l[b - a].at = b
    <3>1. l[b - a] = [of |-> s, at |-> a + (b - a)]
      BY <2>3, <2>4
    <3> QED
      BY <2>2, <3>1
  <2> QED
    BY <2>2, <2>3, <2>5, <2>6
<1> HIDE DEF l
<1>2. /\ r \in Seq(Seq(Pieces)) /\ Len(r) = Len(q) + 1 /\ Len(q) \in Nat
      /\ DOMAIN q = 1..Len(q) /\ DOMAIN r = 1..(Len(q) + 1)
      /\ \A j \in 1..Len(q) : q[j] = r[j] /\ r[j] = q[j]
      /\ r[Len(q) + 1] = l
  BY <1>1, AppendProperties, LenProperties
<1> HIDE DEF r
<1>9. Len(q) \in Int /\ \A j \in 1..Len(q) : q[j] = r[j]
  BY <1>2
<1>3. EndAt(s, r, Len(q), a)
  BY <1>9, EndAtSame
<1>4. Chained(x, r)
  <2> SUFFICES ASSUME NEW i \in 1..(Len(q) + 1) PROVE \E t \in Sinks : NextLineIn(x, t, r, i)
    BY <1>2 DEF Chained
  <2>1. CASE i = Len(q) + 1
    <3>1. i - 1 = Len(q)
      BY <2>1, <1>2
    <3>2. r[i] = Stretch(s, a, b)
      BY <2>1, <1>2 DEF l
    <3>3. NextLineIn(x, s, r, i)
      BY <1>3, <3>1, <3>2 DEF NextLineIn
    <3> QED
      BY <3>3
  <2>2. CASE i \in 1..Len(q)
    <3>1. PICK t \in Sinks : NextLineIn(x, t, q, i)
      BY <2>2, <1>2 DEF Chained
    <3>2. PICK c \in DOMAIN x[t] : \E d \in 0..(c - 1) :
            /\ q[i] = Stretch(t, d, c)
            /\ \A k \in (d + 1)..c : x[t][k] <=> k = c
            /\ EndAt(t, q, i - 1, d)
      BY <3>1 DEF NextLineIn
    <3>3. PICK d \in 0..(c - 1) :
            /\ q[i] = Stretch(t, d, c)
            /\ \A k \in (d + 1)..c : x[t][k] <=> k = c
            /\ EndAt(t, q, i - 1, d)
      BY <3>2
    <3>4. i - 1 \in Int /\ \A j \in 1..(i - 1) : q[j] = r[j]
      <4>1. i - 1 \in Int /\ \A j \in 1..(i - 1) : j \in 1..Len(q)
        BY <2>2, <1>9
      <4> QED
        BY <4>1, <1>9
    <3>5. EndAt(t, r, i - 1, d)
      BY <3>3, <3>4, EndAtSame
    <3>6. r[i] = Stretch(t, d, c)
      BY <1>2, <2>2, <3>3
    <3>7. NextLineIn(x, t, r, i)
      BY <3>3, <3>5, <3>6 DEF NextLineIn
    <3> QED
      BY <3>7
  <2> QED
    BY <1>2, <2>1, <2>2
<1>5. EndAt(s, r, Len(r), b)
  <2>1. r[Len(q) + 1][1].of = s /\ r[Len(q) + 1][Len(r[Len(q) + 1])].at = b
    BY <1>1, <1>2
  <2>2. Len(q) + 1 \in 1..Len(r) /\ \A k \in 1..Len(r) : k <= Len(q) + 1
    BY <1>2
  <2> QED
    BY <2>1, <2>2 DEF EndAt
<1>6. ASSUME NEW t \in Sinks \ {s}, NEW n \in Nat, EndAt(t, q, Len(q), n)
      PROVE  EndAt(t, r, Len(r), n)
  <2>1. EndAt(t, r, Len(q), n)
    BY <1>6, <1>9, EndAtSame
  <2>2. r[Len(q) + 1][1].of # t
    BY <1>1, <1>2
  <2>3. {j \in 1..Len(r) : r[j][1].of = t} = {j \in 1..Len(q) : r[j][1].of = t}
    BY <1>2, <2>2
  <2> QED
    BY <2>1, <2>3 DEF EndAt
<1> QED
  BY <1>2, <1>4, <1>5, <1>6 DEF r, l

(* What more a container writes does not change the lines it has written.  *)
LEMMA ChainStays ==
  ASSUME NEW x \in Texts, NEW y \in Texts, NEW q, Chained(x, q),
         \A s \in Sinks : Len(x[s]) <= Len(y[s]) /\ \A k \in 1..Len(x[s]) : x[s][k] = y[s][k]
  PROVE  Chained(y, q)
<1> SUFFICES ASSUME NEW i \in DOMAIN q PROVE \E s \in Sinks : NextLineIn(y, s, q, i)
  BY DEF Chained
<1>1. PICK s \in Sinks : NextLineIn(x, s, q, i)
  BY DEF Chained
<1>2. PICK b \in DOMAIN x[s] : \E a \in 0..(b - 1) :
        /\ q[i] = Stretch(s, a, b)
        /\ \A k \in (a + 1)..b : x[s][k] <=> k = b
        /\ EndAt(s, q, i - 1, a)
  BY <1>1 DEF NextLineIn
<1>3. PICK a \in 0..(b - 1) :
        /\ q[i] = Stretch(s, a, b)
        /\ \A k \in (a + 1)..b : x[s][k] <=> k = b
        /\ EndAt(s, q, i - 1, a)
  BY <1>2
<1>4. x[s] \in Seq(BOOLEAN) /\ y[s] \in Seq(BOOLEAN)
  BY DEF Texts
<1>5. /\ DOMAIN x[s] = 1..Len(x[s]) /\ DOMAIN y[s] = 1..Len(y[s])
      /\ Len(x[s]) \in Nat /\ Len(y[s]) \in Nat
  BY <1>4
<1>6. b \in DOMAIN y[s] /\ \A k \in (a + 1)..b : k \in 1..Len(x[s])
  BY <1>5
<1>7. \A k \in (a + 1)..b : y[s][k] <=> k = b
  BY <1>3, <1>6
<1>8. NextLineIn(y, s, q, i)
  BY <1>3, <1>6, <1>7 DEF NextLineIn
<1> QED
  BY <1>8

(* The first lines of a chain are one.                                     *)
LEMMA ChainPrefix ==
  ASSUME NEW x, NEW q \in Seq(Seq(Pieces)), NEW r \in Seq(Seq(Pieces)), Chained(x, q \o r)
  PROVE  Chained(x, q)
<1> DEFINE w == q \o r
<1>1. /\ w \in Seq(Seq(Pieces)) /\ Len(w) = Len(q) + Len(r)
      /\ \A i \in 1..(Len(q) + Len(r)) : w[i] = IF i <= Len(q) THEN q[i] ELSE r[i - Len(q)]
  BY ConcatProperties
<1>2. Chained(x, w)
  OBVIOUS
<1> HIDE DEF w
<1>3. /\ Len(q) \in Nat /\ Len(r) \in Nat
      /\ DOMAIN q = 1..Len(q) /\ DOMAIN w = 1..(Len(q) + Len(r))
  BY <1>1, LenProperties
<1>4. \A i \in 1..Len(q) : w[i] = q[i]
  BY <1>1, <1>3
<1> SUFFICES ASSUME NEW i \in 1..Len(q) PROVE \E s \in Sinks : NextLineIn(x, s, q, i)
  BY <1>3 DEF Chained
<1>5. i \in DOMAIN w
  BY <1>3
<1>6. PICK s \in Sinks : NextLineIn(x, s, w, i)
  BY <1>2, <1>5 DEF Chained
<1>7. i - 1 \in Int /\ \A j \in 1..(i - 1) : w[j] = q[j]
  BY <1>3, <1>4
<1>8. \A a : EndAt(s, w, i - 1, a) => EndAt(s, q, i - 1, a)
  BY <1>7, EndAtSame
<1>9. NextLineIn(x, s, q, i)
  BY <1>4, <1>6, <1>8 DEF NextLineIn
<1> QED
  BY <1>9

-----------------------------------------------------------------------------
(* What the lines are.                                                     *)

(* The line writer of s holds back what comes after the first n pieces.    *)
HoldsBack(s, n) == buf[s] = Stretch(s, n, Len(text[s]))

SomeHeldBack == \A s \in Sinks : \E n \in 0..Len(text[s]) : HoldsBack(s, n)

(* As long as the browser is there, what it got and what is still in the   *)
(* channel are the lines of each stream up to what is held back.           *)
OnTheWay ==
  connected =>
    /\ Chained(text, got \o lines)
    /\ \A s \in Sinks : \E n \in 0..Len(text[s]) :
         HoldsBack(s, n) /\ EndAt(s, got \o lines, Len(got \o lines), n)

(* Only the stream that is being written may have a line to send.          *)
NoLineLeft ==
  \A s \in Sinks : reader # "write" \/ s # writing => Newlines(buf[s]) = {}

Ended ==
  /\ "lines" \notin open => reader = "gone"
  /\ "end" \in said => reader = "gone" /\ handler # "select"

PumpInv ==
  TypeOK /\ SomeHeldBack /\ OnTheWay /\ NoLineLeft /\ Ended /\ LinesAreWhole /\ EndIsWhole

LEMMA TextType ==
  ASSUME TypeOK
  PROVE  /\ text \in Texts
         /\ \A s \in Sinks : /\ text[s] \in Seq(BOOLEAN) /\ DOMAIN text[s] = 1..Len(text[s])
                             /\ Len(text[s]) \in Nat /\ Len(text[s]) \in 0..MaxPieces
<1>1. ASSUME NEW s \in Sinks
      PROVE  /\ text[s] \in Seq(BOOLEAN) /\ DOMAIN text[s] = 1..Len(text[s])
             /\ Len(text[s]) \in Nat /\ Len(text[s]) \in 0..MaxPieces
  BY PumpAssumption DEF TypeOK
<1> QED
  BY <1>1 DEF TypeOK, Texts

(* A piece held back is a newline if the text has one there.               *)
LEMMA HeldNewlines ==
  ASSUME TypeOK, NEW s \in Sinks, NEW n \in 0..Len(text[s]), HoldsBack(s, n)
  PROVE  /\ Newlines(buf[s]) \subseteq 1..(Len(text[s]) - n)
         /\ \A k \in 1..(Len(text[s]) - n) :
              /\ buf[s][k] = [of |-> s, at |-> n + k]
              /\ k \in Newlines(buf[s]) <=> text[s][n + k]
         /\ Len(buf[s]) = Len(text[s]) - n
<1>1. n \in Nat /\ Len(text[s]) \in n..MaxPieces
  BY TextType
<1>2. buf[s] = Stretch(s, n, Len(text[s]))
  BY DEF HoldsBack
<1>3. /\ DOMAIN buf[s] = 1..(Len(text[s]) - n) /\ Len(buf[s]) = Len(text[s]) - n
      /\ \A k \in 1..(Len(text[s]) - n) : buf[s][k] = [of |-> s, at |-> n + k]
  <2> DEFINE held == Stretch(s, n, Len(text[s]))
  <2>1. /\ DOMAIN held = 1..(Len(text[s]) - n) /\ Len(held) = Len(text[s]) - n
        /\ \A k \in 1..(Len(text[s]) - n) : held[k] = [of |-> s, at |-> n + k]
    BY <1>1, StretchType
  <2> HIDE DEF held
  <2>2. buf[s] = held
    BY <1>2 DEF held
  <2> QED
    BY <2>1, <2>2
<1> QED
  BY <1>3 DEF Newlines, IsNewline

LEMMA WholeIsChained == LinesAreWhole <=> Chained(text, got)
BY DEF LinesAreWhole, Chained, NextLine, NextLineIn

LEMMA PumpInit == Init => PumpInv
<1> SUFFICES ASSUME Init PROVE PumpInv
  OBVIOUS
<1> USE DEF Init
<1>1. TypeOK
  <2>1. <<>> \in Seq(BOOLEAN) /\ <<>> \in Seq(Pieces) /\ <<>> \in Seq(Seq(Pieces)) /\ Len(<<>>) = 0
    OBVIOUS
  <2>2. text \in [Sinks -> Seq(BOOLEAN)] /\ \A s \in Sinks : Len(text[s]) <= MaxPieces
    BY <2>1, PumpAssumption
  <2>3. Len(lines) <= Capacity
    BY <2>1, PumpAssumption
  <2> QED
    BY <2>1, <2>2, <2>3 DEF TypeOK
<1>2. ASSUME NEW s \in Sinks
      PROVE  /\ 0 \in 0..Len(text[s]) /\ HoldsBack(s, 0) /\ Newlines(buf[s]) = {}
  BY DEF HoldsBack, Stretch, Newlines
<1>3. got \o lines = <<>>
  OBVIOUS
<1>4. Chained(text, <<>>) /\ \A s : EndAt(s, <<>>, Len(<<>>), 0)
  BY DEF Chained, EndAt
<1>5. OnTheWay
  BY <1>2, <1>3, <1>4 DEF OnTheWay
<1> QED
  BY <1>1, <1>2, <1>5 DEF PumpInv, SomeHeldBack, NoLineLeft, Ended, LinesAreWhole, EndIsWhole

-----------------------------------------------------------------------------
(* The steps.                                                              *)

(* A step that leaves the text and the lines alone.                        *)
LEMMA QuietStep ==
  ASSUME PumpInv, UNCHANGED <<text, buf, lines, got>>, connected' => connected
  PROVE  SomeHeldBack' /\ OnTheWay' /\ LinesAreWhole'
BY DEF PumpInv, SomeHeldBack, OnTheWay, HoldsBack, LinesAreWhole, NextLine

LEMMA ReadInv ==
  ASSUME PumpInv, NEW s \in Sinks, NEW w \in Seq(BOOLEAN), Len(text[s]) + Len(w) <= MaxPieces,
         Read(s, w)
  PROVE  PumpInv'
<1> USE DEF PumpInv
<1> DEFINE end == Len(text[s])
           more == Len(text[s]) + Len(w)
<1>1. /\ text' = [text EXCEPT ![s] = @ \o w] /\ writing' = s /\ reader' = "write"
      /\ buf' = [buf EXCEPT ![s] = @ \o Stretch(s, end, more)]
      /\ UNCHANGED <<failed, lines, errs, open, rc, handler, got, said, connected>>
  BY DEF Read, channelVars, handlerVars
<1>2. /\ text[s] \in Seq(BOOLEAN) /\ end \in Nat /\ Len(w) \in Nat /\ more \in end..MaxPieces
  BY TextType, PumpAssumption
<1>3. /\ text[s] \o w \in Seq(BOOLEAN) /\ Len(text[s] \o w) = more
      /\ \A k \in 1..end : (text[s] \o w)[k] = text[s][k]
  BY <1>2, ConcatProperties
<1>4. text \in [Sinks -> Seq(BOOLEAN)] /\ buf \in [Sinks -> Seq(Pieces)]
  BY DEF TypeOK
<1>5. /\ text'[s] = text[s] \o w /\ \A t \in Sinks \ {s} : text'[t] = text[t]
      /\ text' \in [Sinks -> Seq(BOOLEAN)]
  <2>1. text'[s] = text[s] \o w /\ \A t \in Sinks \ {s} : text'[t] = text[t]
    BY <1>1, <1>4
  <2>2. text'[s] \in Seq(BOOLEAN)
    BY <1>3, <2>1
  <2>3. text' = [t \in Sinks |-> text'[t]] /\ \A t \in Sinks : text'[t] \in Seq(BOOLEAN)
    BY <1>1, <1>4, <2>1, <2>2
  <2> QED
    BY <2>1, <2>3
<1>6. Len(text'[s]) = more /\ \A t \in Sinks : Len(text'[t]) <= MaxPieces
  <2>1. Len(text'[s]) = more /\ more <= MaxPieces
    BY <1>3, <1>5
  <2>2. ASSUME NEW t \in Sinks, t # s PROVE Len(text'[t]) <= MaxPieces
    <3>1. text'[t] = text[t]
      BY <1>5, <2>2
    <3> QED
      BY <2>2, <3>1, TextType
  <2>3. ASSUME NEW t \in Sinks, t = s PROVE Len(text'[t]) <= MaxPieces
    BY <2>1, <2>3, Zenon
  <2> QED
    BY <2>2, <2>3, <2>1, Zenon
<1>7. ASSUME NEW n \in 0..end, HoldsBack(s, n)
      PROVE  n \in 0..more /\ buf'[s] = Stretch(s, n, more)
  <2>1. n \in Nat /\ end \in n..MaxPieces /\ n \in 0..more
    BY <1>2, TextType
  <2>2. buf'[s] = buf[s] \o Stretch(s, end, more)
    BY <1>1, <1>4
  <2> QED
    BY <1>2, <1>7, <2>1, <2>2, StretchesMeet DEF HoldsBack
<1>8. \A t \in Sinks \ {s} : buf'[t] = buf[t]
  BY <1>1, <1>4
<1>9. buf' \in [Sinks -> Seq(Pieces)]
  <2>1. PICK n \in 0..end : HoldsBack(s, n)
    BY DEF SomeHeldBack
  <2>2. n \in Nat /\ more \in n..MaxPieces /\ buf'[s] = Stretch(s, n, more)
    BY <1>2, <1>7, <2>1
  <2>3. buf'[s] \in Seq(Pieces)
    BY <2>2, StretchType
  <2>4. DOMAIN buf' = Sinks /\ buf' = [t \in Sinks |-> buf'[t]]
    BY <1>1, <1>4
  <2> QED
    BY <1>4, <1>8, <2>3, <2>4
<1>10. TypeOK'
  BY <1>1, <1>5, <1>6, <1>9 DEF TypeOK
<1>11. \A t \in Sinks : \A n \in 0..Len(text[t]) :
         HoldsBack(t, n) => n \in 0..Len(text'[t]) /\ HoldsBack(t, n)'
  BY <1>5, <1>6, <1>7, <1>8 DEF HoldsBack
<1>12. SomeHeldBack'
  BY <1>11 DEF SomeHeldBack
<1>13. text \in Texts /\ text' \in Texts
  BY <1>5, <1>6, TextType DEF Texts
<1>14. ASSUME NEW t \in Sinks
       PROVE  Len(text[t]) <= Len(text'[t]) /\ \A k \in 1..Len(text[t]) : text[t][k] = text'[t][k]
  <2>1. CASE t = s
    BY <1>2, <1>3, <1>5, <1>6, <2>1
  <2>2. CASE t # s
    <3>1. text'[t] = text[t] /\ Len(text[t]) \in Nat
      BY <1>5, <2>2, TextType
    <3> QED
      BY <3>1
  <2> QED
    BY <2>1, <2>2
<1>15. \A q : Chained(text, q) => Chained(text', q)
  BY <1>13, <1>14, ChainStays
<1>16. OnTheWay'
  BY <1>1, <1>11, <1>15 DEF OnTheWay
<1>17. LinesAreWhole'
  <2>1. Chained(text', got')
    BY <1>1, <1>15, WholeIsChained
  <2> QED
    BY <2>1 DEF LinesAreWhole, Chained, NextLine, NextLineIn
<1>18. NoLineLeft'
  <2> SUFFICES ASSUME NEW t \in Sinks, t # s PROVE (Newlines(buf[t]) = {})'
    BY <1>1 DEF NoLineLeft
  <2>1. Newlines(buf[t]) = {}
    BY DEF NoLineLeft, Read
  <2>2. PICK n \in 0..Len(text[t]) : HoldsBack(t, n)
    BY DEF SomeHeldBack
  <2>3. buf[t] \in Seq(Pieces) /\ DOMAIN buf[t] = 1..Len(buf[t])
    BY <1>4
  <2>4. DOMAIN buf[t] = 1..(Len(text[t]) - n)
    BY <2>2, <2>3, HeldNewlines
  <2>5. ASSUME NEW k \in DOMAIN buf[t] PROVE ~text[t][n + k] /\ buf[t][k] = [of |-> t, at |-> n + k]
    BY <2>1, <2>2, <2>4, HeldNewlines
  <2>6. ASSUME NEW k \in DOMAIN buf'[t] PROVE ~IsNewline(buf[t][k])'
    <3>1. buf'[t] = buf[t] /\ text'[t] = text[t]
      BY <1>5, <1>8
    <3>2. ~text'[t][n + k] /\ buf'[t][k] = [of |-> t, at |-> n + k]
      BY <2>5, <3>1
    <3> QED
      BY <3>2 DEF IsNewline
  <2> QED
    BY <2>6 DEF Newlines
<1>19. Ended' /\ EndIsWhole'
  BY <1>1 DEF Ended, EndIsWhole, Read
<1> QED
  BY <1>10, <1>12, <1>16, <1>17, <1>18, <1>19

LEMMA AppendInside ==
  ASSUME NEW D, NEW q \in Seq(D), NEW r \in Seq(D), NEW e \in D
  PROVE  q \o Append(r, e) = Append(q \o r, e)
<1>1. <<e>> \in Seq(D) /\ q \o r \in Seq(D)
  BY ConcatProperties
<1>2. Append(r, e) = r \o <<e>> /\ Append(q \o r, e) = (q \o r) \o <<e>>
  BY <1>1, AppendIsConcat
<1> QED
  BY <1>1, <1>2, ConcatAssociative

LEMMA SendInv == PumpInv /\ SendLine => PumpInv'
<1> SUFFICES ASSUME PumpInv, SendLine PROVE PumpInv'
  OBVIOUS
<1> USE DEF PumpInv
<1>0. PICK s \in Sinks : s = writing
  BY DEF TypeOK
<1> DEFINE end == Len(text[s])
           way == got \o lines
<1>1. s \in Sinks /\ text[s] \in Seq(BOOLEAN) /\ end \in Nat /\ end \in 0..MaxPieces
  BY TextType DEF TypeOK
<1>2. PICK n \in 0..end : HoldsBack(s, n) /\ (connected => EndAt(s, way, Len(way), n))
  BY <1>1 DEF SomeHeldBack, OnTheWay
<1>3. PICK k \in FirstNewlines(buf[s]) :
        /\ lines' = Append(lines, SubSeq(buf[s], 1, k))
        /\ buf' = [buf EXCEPT ![s] = SubSeq(@, k + 1, Len(@))]
  BY <1>0 DEF SendLine
<1> DEFINE b == n + k
           line == Stretch(s, n, b)
<1>4. /\ reader = "write" /\ ~Full
      /\ UNCHANGED <<text, reader, writing, failed, errs, open, rc, handler, got, said, connected>>
  BY DEF SendLine, handlerVars
<1>5. /\ k \in 1..(end - n) /\ text[s][b] = TRUE
      /\ \A j \in 1..(end - n) : text[s][n + j] => k <= j
  <2>1. k \in Newlines(buf[s]) /\ \A j \in Newlines(buf[s]) : k <= j
    BY DEF FirstNewlines
  <2>2. /\ Newlines(buf[s]) \subseteq 1..(end - n)
        /\ \A j \in 1..(end - n) : j \in Newlines(buf[s]) <=> text[s][n + j]
    BY <1>1, <1>2, HeldNewlines
  <2>3. k \in 1..(end - n) /\ text[s][b]
    BY <2>1, <2>2
  <2>4. b \in DOMAIN text[s]
    BY <1>1, <2>3
  <2> QED
    BY <1>1, <2>1, <2>2, <2>3, <2>4
<1>6. /\ n \in Nat /\ end \in n..MaxPieces /\ k \in 0..(end - n) /\ b \in 1..end
      /\ b \in DOMAIN text[s] /\ b \in Nat /\ end \in b..MaxPieces /\ b \in n..MaxPieces
      /\ n \in 0..(b - 1)
  <2>1. k \in 1..(end - n) /\ n \in 0..end /\ end \in 0..MaxPieces
    BY <1>1, <1>2, <1>5
  <2>2. /\ n \in Nat /\ end \in n..MaxPieces /\ k \in 0..(end - n) /\ b \in 1..end
        /\ b \in Nat /\ end \in b..MaxPieces /\ b \in n..MaxPieces /\ n \in 0..(b - 1)
    BY <2>1, PumpAssumption
  <2>3. DOMAIN text[s] = 1..end
    BY <1>1
  <2> QED
    BY <2>2, <2>3
<1>7. ASSUME NEW j \in (n + 1)..b PROVE text[s][j] <=> j = b
  <2>1. j - n \in 1..(end - n) /\ n + (j - n) = j
    BY <1>1, <1>5, <1>6
  <2>2. text[s][j] => k <= j - n
    BY <1>5, <2>1
  <2> QED
    BY <1>5, <1>6, <2>2
<1>8. /\ SubSeq(buf[s], 1, k) = line /\ SubSeq(buf[s], k + 1, Len(buf[s])) = Stretch(s, b, end)
  <2>1. buf[s] = Stretch(s, n, end) /\ Len(buf[s]) = end - n
    BY <1>1, <1>2, HeldNewlines DEF HoldsBack
  <2>2. SubSeq(buf[s], k + 1, Len(buf[s])) = SubSeq(Stretch(s, n, end), k + 1, end - n)
    BY <2>1
  <2>3. /\ SubSeq(Stretch(s, n, end), 1, k) = line
        /\ SubSeq(Stretch(s, n, end), k + 1, end - n) = Stretch(s, b, end)
    BY <1>1, <1>6, StretchCut
  <2> QED
    BY <2>1, <2>2, <2>3
<1>9. line \in Seq(Pieces) /\ Stretch(s, b, end) \in Seq(Pieces)
  BY <1>1, <1>6, StretchType
<1>10. lines' = Append(lines, line)
  BY <1>3, <1>8
<1>11. /\ buf'[s] = Stretch(s, b, end) /\ \A t \in Sinks \ {s} : buf'[t] = buf[t]
       /\ buf' \in [Sinks -> Seq(Pieces)]
  <2>1. buf \in [Sinks -> Seq(Pieces)]
    BY DEF TypeOK
  <2>2. buf' = [buf EXCEPT ![s] = Stretch(s, b, end)]
    BY <1>1, <1>3, <1>8, <2>1
  <2> QED
    BY <1>1, <1>9, <2>1, <2>2
<1> HIDE DEF line
<1>12. TypeOK'
  <2>1. lines \in Seq(Seq(Pieces)) /\ got \in Seq(Seq(Pieces)) /\ Len(lines) <= Capacity
    BY DEF TypeOK
  <2>2. lines' \in Seq(Seq(Pieces)) /\ Len(lines') = Len(lines) + 1 /\ Len(lines) \in Nat
    BY <1>9, <1>10, <2>1, AppendProperties
  <2>3. Len(lines') <= Capacity
    BY <1>4, <2>1, <2>2, PumpAssumption DEF Full
  <2> QED
    BY <1>4, <1>11, <2>2, <2>3 DEF TypeOK
<1>13. HoldsBack(s, b)' /\ \A t \in Sinks \ {s} : \A m : HoldsBack(t, m) => HoldsBack(t, m)'
  BY <1>4, <1>11 DEF HoldsBack
<1>14. SomeHeldBack'
  BY <1>4, <1>6, <1>13 DEF SomeHeldBack
<1>15. OnTheWay'
  <2> SUFFICES ASSUME connected
               PROVE  /\ Chained(text, got \o lines')
                      /\ \A t \in Sinks : \E m \in 0..Len(text[t]) :
                           HoldsBack(t, m)' /\ EndAt(t, got \o lines', Len(got \o lines'), m)
    BY <1>4 DEF OnTheWay
  <2>1. lines \in Seq(Seq(Pieces)) /\ got \in Seq(Seq(Pieces)) /\ way \in Seq(Seq(Pieces))
    BY DEF TypeOK
  <2>2. got \o lines' = Append(way, line)
    <3>1. got \o Append(lines, line) = Append(got \o lines, line)
      BY <1>9, <2>1, AppendInside, SMTT(60)
    <3> QED
      BY <1>10, <3>1
  <2>3. Chained(text, way) /\ EndAt(s, way, Len(way), n) /\ text \in Texts
    BY <1>2, TextType DEF OnTheWay
  <2> HIDE DEF way
  <2>4. /\ Chained(text, Append(way, line)) /\ EndAt(s, Append(way, line), Len(Append(way, line)), b)
        /\ \A t \in Sinks \ {s}, m \in Nat :
             EndAt(t, way, Len(way), m) => EndAt(t, Append(way, line), Len(Append(way, line)), m)
    BY <1>1, <1>6, <1>7, <2>1, <2>3, ChainGrows DEF line
  <2>5. ASSUME NEW t \in Sinks \ {s}
        PROVE  \E m \in 0..Len(text[t]) :
                 HoldsBack(t, m)' /\ EndAt(t, got \o lines', Len(got \o lines'), m)
    <3>1. PICK m \in 0..Len(text[t]) : HoldsBack(t, m) /\ EndAt(t, way, Len(way), m)
      BY DEF OnTheWay, way
    <3>2. m \in Nat
      BY TextType
    <3> QED
      BY <1>13, <2>2, <2>4, <3>1, <3>2
  <2>6. b \in 0..end
    BY <1>6
  <2> QED
    BY <1>13, <2>2, <2>4, <2>5, <2>6
<1>16. LinesAreWhole'
  BY <1>4 DEF LinesAreWhole, NextLine
<1>17. NoLineLeft'
  BY <1>0, <1>4, <1>11 DEF NoLineLeft, Newlines, IsNewline
<1>18. Ended' /\ EndIsWhole'
  BY <1>4 DEF Ended, EndIsWhole
<1> QED
  BY <1>12, <1>14, <1>15, <1>16, <1>17, <1>18

(* A line passes from the channel to the browser; of what is between them  *)
(* nothing changes.                                                        *)
LEMMA HeadPasses ==
  ASSUME NEW D, NEW q \in Seq(D), NEW r \in Seq(D), r # <<>>
  PROVE  /\ Append(q, Head(r)) \in Seq(D) /\ Tail(r) \in Seq(D) /\ Len(Tail(r)) <= Len(r)
         /\ Append(q, Head(r)) \o Tail(r) = q \o r
<1>1. Head(r) \in D /\ Tail(r) \in Seq(D) /\ <<Head(r)>> \in Seq(D)
  BY HeadTailProperties
<1>2. Append(q, Head(r)) \in Seq(D) /\ Append(q, Head(r)) = q \o <<Head(r)>>
  BY <1>1, AppendProperties, AppendIsConcat
<1>3. Len(r) \in Nat \ {0} /\ Len(Tail(r)) = Len(r) - 1
  BY EmptySeq, HeadTailProperties
<1>4. <<Head(r)>> \o Tail(r) = r
  <2>1. 1 \in 1..Len(r) /\ Len(r) \in 1..Len(r)
    BY <1>3
  <2>2. SubSeq(r, 1, Len(r)) = <<r[1]>> \o SubSeq(r, 1 + 1, Len(r))
    BY <2>1, SubSeqRecursiveFirst
  <2>3. Head(r) = r[1] /\ Tail(r) = SubSeq(r, 2, Len(r)) /\ SubSeq(r, 1, Len(r)) = r
    BY TailIsSubSeq, SubSeqFull
  <2> QED
    BY <2>2, <2>3
<1>5. (q \o <<Head(r)>>) \o Tail(r) = q \o (<<Head(r)>> \o Tail(r))
  BY <1>1, ConcatAssociative
<1>6. Len(Tail(r)) <= Len(r)
  BY <1>3
<1> QED
  BY <1>1, <1>2, <1>4, <1>5, <1>6

LEMMA TakeLineInv == PumpInv /\ TakeLine => PumpInv'
<1> SUFFICES ASSUME PumpInv, TakeLine PROVE PumpInv'
  OBVIOUS
<1> USE DEF PumpInv
<1>1. /\ handler = "select" /\ lines # <<>> /\ lines' = Tail(lines)
      /\ got' = IF connected THEN Append(got, Head(lines)) ELSE got
      /\ handler' \in {"select", "cancel"}
      /\ UNCHANGED <<text, buf, reader, writing, failed, errs, open, rc, said, connected>>
  BY DEF TakeLine, readerVars
<1>2. lines \in Seq(Seq(Pieces)) /\ got \in Seq(Seq(Pieces)) /\ Len(lines) <= Capacity
  BY DEF TypeOK
<1>3. /\ Append(got, Head(lines)) \in Seq(Seq(Pieces)) /\ lines' \in Seq(Seq(Pieces))
      /\ Len(lines') <= Len(lines) /\ Append(got, Head(lines)) \o lines' = got \o lines
  BY <1>1, <1>2, HeadPasses
<1>4. TypeOK'
  <2>1. Len(lines) \in Nat /\ Len(lines') \in Nat
    BY <1>2, <1>3, LenProperties
  <2>2. Len(lines') <= Capacity
    BY <1>2, <1>3, <2>1, PumpAssumption
  <2> QED
    BY <1>1, <1>2, <1>3, <2>2 DEF TypeOK
<1>5. SomeHeldBack' /\ NoLineLeft'
  BY <1>1 DEF SomeHeldBack, HoldsBack, NoLineLeft, Newlines, IsNewline
<1>6. OnTheWay'
  <2>1. connected => got' \o lines' = got \o lines
    BY <1>1, <1>3
  <2> QED
    BY <1>1, <2>1 DEF OnTheWay, HoldsBack
<1>7. Chained(text, got')
  <2>1. CASE connected
    <3>1. Chained(text, got' \o lines') /\ got' \in Seq(Seq(Pieces))
      BY <1>1, <1>3, <2>1 DEF OnTheWay
    <3> QED
      BY <1>3, <3>1, ChainPrefix
  <2>2. CASE ~connected
    BY <1>1, <2>2, WholeIsChained
  <2> QED
    BY <2>1, <2>2
<1>8. LinesAreWhole'
  BY <1>1, <1>7 DEF LinesAreWhole, Chained, NextLine, NextLineIn
<1>9. Ended' /\ EndIsWhole'
  BY <1>1 DEF Ended, EndIsWhole
<1> QED
  BY <1>4, <1>5, <1>6, <1>8, <1>9

(* The channel of lines is closed only when the reader is done, and empty  *)
(* only when the browser that is there got every line that was sent.       *)
LEMMA TakeEndInv == PumpInv /\ TakeEnd => PumpInv'
<1> SUFFICES ASSUME PumpInv, TakeEnd PROVE PumpInv'
  OBVIOUS
<1> USE DEF PumpInv
<1>1. /\ handler = "select" /\ lines = <<>> /\ "lines" \notin open
      /\ handler' = "cancel" /\ errs' = FALSE
      /\ said' = IF connected THEN said \cup {"end"} \cup (IF errs THEN {"error"} ELSE {}) ELSE said
      /\ UNCHANGED <<text, buf, reader, writing, failed, lines, open, rc, got, connected>>
  BY DEF TakeEnd, readerVars
<1>2. TypeOK'
  BY <1>1 DEF TypeOK
<1>3. SomeHeldBack' /\ OnTheWay' /\ LinesAreWhole'
  BY <1>1, QuietStep
<1>4. NoLineLeft'
  BY <1>1 DEF NoLineLeft, Newlines, IsNewline
<1>5. reader = "gone" /\ "end" \notin said
  BY <1>1 DEF Ended
<1>6. Ended'
  BY <1>1, <1>5 DEF Ended
<1>7. ASSUME connected, NEW s \in Sinks
      PROVE  \E n \in 0..Len(text[s]) :
               EndAt(s, got, Len(got), n) /\ \A k \in (n + 1)..Len(text[s]) : ~text[s][k]
  <2>1. got \o lines = got
    BY <1>1 DEF TypeOK
  <2>2. PICK n \in 0..Len(text[s]) : HoldsBack(s, n) /\ EndAt(s, got, Len(got), n)
    BY <1>7, <2>1 DEF OnTheWay
  <2>3. Newlines(buf[s]) = {}
    BY <1>5 DEF NoLineLeft
  <2>4. ASSUME NEW k \in (n + 1)..Len(text[s]) PROVE ~text[s][k]
    <3>1. k - n \in 1..(Len(text[s]) - n) /\ n + (k - n) = k
      BY TextType
    <3>2. k - n \in Newlines(buf[s]) <=> text[s][n + (k - n)]
      BY <2>2, <3>1, HeldNewlines
    <3> QED
      BY <2>3, <3>1, <3>2
  <2> QED
    BY <2>2, <2>4
<1>8. EndIsWhole'
  BY <1>1, <1>5, <1>7 DEF EndIsWhole
<1> QED
  BY <1>2, <1>3, <1>4, <1>6, <1>8

LEMMA FrameType == \A w \in Frames : w \in Seq(BOOLEAN)
<1>1. ASSUME NEW D, NEW a \in D, NEW b \in D PROVE <<a>> \in Seq(D) /\ <<a, b>> \in Seq(D)
  OBVIOUS
<1>2. \A a, b \in BOOLEAN : <<a>> \in Seq(BOOLEAN) /\ <<a, b>> \in Seq(BOOLEAN)
  BY <1>1, Zenon
<1>3. ASSUME NEW w \in Frames PROVE w \in Seq(BOOLEAN)
  <2>1. CASE \E a \in BOOLEAN : w = <<a>>
    BY <1>2, <2>1, Zenon
  <2>2. CASE \E a, b \in BOOLEAN : w = <<a, b>>
    BY <1>2, <2>2, Zenon
  <2>3. (\E a \in BOOLEAN : w = <<a>>) \/ \E a, b \in BOOLEAN : w = <<a, b>>
    BY DEF Frames
  <2> QED
    BY <2>1, <2>2, <2>3
<1> QED
  BY <1>3

LEMMA PumpStep == PumpInv /\ [Next]_vars => PumpInv'
<1> SUFFICES ASSUME PumpInv, [Next]_vars PROVE PumpInv'
  OBVIOUS
<1>1. ASSUME NEW s \in Sinks, NEW w \in Frames, Len(text[s]) + Len(w) <= MaxPieces, Read(s, w)
      PROVE  PumpInv'
  BY <1>1, FrameType, ReadInv
<1>2. CASE SendLine
  BY <1>2, SendInv
<1>3. CASE TakeLine
  BY <1>3, TakeLineInv
<1>4. CASE TakeEnd
  BY <1>4, TakeEndInv
<1>5. ASSUME UNCHANGED <<text, buf, writing, lines, got, said>>, connected' => connected,
             TypeOK', reader' # "write", Newlines(buf[writing]) = {} \/ reader # "write", Ended'
      PROVE  PumpInv'
  <2>1. SomeHeldBack' /\ OnTheWay' /\ LinesAreWhole'
    BY <1>5, QuietStep
  <2>2. NoLineLeft' /\ EndIsWhole'
    BY <1>5 DEF PumpInv, NoLineLeft, Newlines, IsNewline, EndIsWhole
  <2> QED
    BY <1>5, <2>1, <2>2 DEF PumpInv
<1>6. ASSUME UNCHANGED <<text, buf, reader, writing, lines, got, said>>, connected' => connected,
             TypeOK', Ended'
      PROVE  PumpInv'
  <2>1. SomeHeldBack' /\ OnTheWay' /\ LinesAreWhole'
    BY <1>6, QuietStep
  <2>2. NoLineLeft' /\ EndIsWhole'
    BY <1>6 DEF PumpInv, NoLineLeft, Newlines, IsNewline, EndIsWhole
  <2> QED
    BY <1>6, <2>1, <2>2 DEF PumpInv
<1> USE DEF PumpInv, TypeOK, Ended
<1>7. CASE WriteReturns
  BY <1>5, <1>7 DEF WriteReturns, channelVars, handlerVars
<1>8. CASE ReadEnds
  BY <1>5, <1>8 DEF ReadEnds, channelVars, handlerVars
<1>9. CASE Fails
  BY <1>5, <1>9 DEF Fails, handlerVars
<1>10. CASE ReaderCancels
  BY <1>5, <1>10 DEF ReaderCancels, handlerVars
<1>11. CASE CloseErrs
  BY <1>5, <1>11 DEF CloseErrs, handlerVars
<1>12. CASE CloseLines
  BY <1>5, <1>12 DEF CloseLines, handlerVars
<1>13. CASE TakeError
  <2>1. said' \subseteq {"error", "end"} /\ ("end" \in said' => "end" \in said)
    BY <1>13 DEF TakeError
  <2>2. /\ UNCHANGED <<text, buf, reader, writing, lines, got, connected, rc, open, failed>>
        /\ errs' = FALSE /\ handler' = "cancel"
    BY <1>13 DEF TakeError, readerVars
  <2>3. TypeOK' /\ Ended'
    BY <2>1, <2>2
  <2>4. SomeHeldBack' /\ OnTheWay' /\ LinesAreWhole'
    BY <2>2, QuietStep
  <2>5. NoLineLeft' /\ EndIsWhole'
    BY <2>1, <2>2 DEF NoLineLeft, Newlines, IsNewline, EndIsWhole
  <2> QED
    BY <2>3, <2>4, <2>5
<1>14. CASE TakeClosedErrors
  BY <1>6, <1>14 DEF TakeClosedErrors, readerVars, channelVars
<1>15. CASE ContextDone
  BY <1>6, <1>15 DEF ContextDone, readerVars, channelVars
<1>16. CASE Cancel
  BY <1>6, <1>16 DEF Cancel, readerVars
<1>17. CASE Disconnect
  BY <1>6, <1>17 DEF Disconnect, readerVars, channelVars, handlerVars
<1>18. CASE UNCHANGED vars
  BY <1>6, <1>18 DEF vars, readerVars, channelVars, handlerVars
<1> QED
  BY <1>1, <1>2, <1>3, <1>4, <1>7, <1>8, <1>9, <1>10, <1>11, <1>12, <1>13, <1>14, <1>15, <1>16,
     <1>17, <1>18 DEF Next, Engine, Reader, Handler, ReadBreaks, ReadReleased

LEMMA PumpInvariant == Spec => []PumpInv
BY PumpInit, PumpStep, PTL DEF Spec

(* The types, with the bound of the channel.                               *)
THEOREM PumpTypeCorrect == Spec => []TypeOK
<1>1. PumpInv => TypeOK
  BY DEF PumpInv
<1> QED
  BY <1>1, PumpInvariant, PTL

(* However the engine cuts and mixes the two streams, and however slow the *)
(* browser is, it gets each line of the container whole, in order and      *)
(* once, without one left out before it.                                   *)
THEOREM LinesStayWhole == Spec => []LinesAreWhole
<1>1. PumpInv => LinesAreWhole
  BY DEF PumpInv
<1> QED
  BY <1>1, PumpInvariant, PTL

(* A browser that is told of the end has every line that was written.      *)
THEOREM EndsAreWhole == Spec => []EndIsWhole
<1>1. PumpInv => EndIsWhole
  BY DEF PumpInv
<1> QED
  BY <1>1, PumpInvariant, PTL

=============================================================================
