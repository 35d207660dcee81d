------------------------------ MODULE LogPump ------------------------------
(***************************************************************************)
(* A live tail of a container's logs.  The reader goroutine of             *)
(* ContainerLogsStream takes what the engine sends of the container's two  *)
(* streams, cuts it into lines and puts them into a channel; streamToSSE   *)
(* takes them out of it for the browser.  Two more channels of Go's run    *)
(* beside that: the reader's one error, and the browser's leaving.         *)
(*                                                                         *)
(* A piece is a newline or some text without one; its number among the     *)
(* pieces of its stream stands for its bytes.                              *)
(***************************************************************************)
EXTENDS Naturals, Sequences

CONSTANTS
  Sinks,      \* the streams the demultiplexer tells apart: stdout, stderr
  Capacity,   \* of the channel of lines
  MaxPieces   \* how much a container writes to each stream (bound)

ASSUME PumpAssumption == Capacity \in Nat \ {0} /\ MaxPieces \in Nat

VARIABLES
  text,       \* text[s]: what the engine has sent of s; TRUE is a newline
  buf,        \* buf[s]: the pieces the line writer of s holds back
  reader,     \* where the reader goroutine is
  writing,    \* the stream whose frame it is writing
  lines,      \* the channel of lines
  errs,       \* whether the channel of errors holds one
  open,       \* the channels that are not closed
  rc,         \* whether the engine's stream is open
  handler,    \* where streamToSSE is
  connected,  \* whether the browser is there: the request's context
  got,        \* the lines the browser was sent
  said,       \* what it was told besides: "error", "end"
  failed      \* history: the reader has met an error

readerVars == <<text, buf, reader, writing, failed>>
channelVars == <<lines, errs, open, rc>>
handlerVars == <<handler, got, said>>
vars == <<readerVars, channelVars, handlerVars, connected>>

-----------------------------------------------------------------------------
Pieces == [of : Sinks, at : 1..MaxPieces]
IsNewline(p) == text[p.of][p.at]

(* The pieces a + 1, ..., b of stream s.                                   *)
Stretch(s, a, b) == [k \in 1..(b - a) |-> [of |-> s, at |-> a + k]]

Full == Len(lines) = Capacity

Newlines(q) == {i \in DOMAIN q : IsNewline(q[i])}
FirstNewlines(q) == {i \in Newlines(q) : \A j \in Newlines(q) : i <= j}

TypeOK ==
  /\ text \in [Sinks -> Seq(BOOLEAN)] /\ \A s \in Sinks : Len(text[s]) <= MaxPieces
  /\ buf \in [Sinks -> Seq(Pieces)]
  /\ reader \in {"read", "write", "cancel", "closeErrs", "closeLines", "gone"}
  /\ writing \in Sinks
  /\ lines \in Seq(Seq(Pieces)) /\ Len(lines) <= Capacity
  /\ errs \in BOOLEAN /\ open \in SUBSET {"lines", "errs"} /\ rc \in BOOLEAN
  /\ handler \in {"select", "cancel", "gone"}
  /\ connected \in BOOLEAN /\ failed \in BOOLEAN
  /\ got \in Seq(Seq(Pieces)) /\ said \in SUBSET {"error", "end"}

Init ==
  /\ text = [s \in Sinks |-> <<>>] /\ buf = [s \in Sinks |-> <<>>]
  /\ reader = "read" /\ writing \in Sinks /\ failed = FALSE
  /\ lines = <<>> /\ errs = FALSE /\ open = {"lines", "errs"} /\ rc = TRUE
  /\ handler = "select" /\ got = <<>> /\ said = {} /\ connected = TRUE

-----------------------------------------------------------------------------
(* Faulty variants of actions below, one per mistake the properties are    *)
(* meant to catch.  No specification uses them.                            *)

(* One line writer serves both streams.                                    *)
Read_OneWriter(s, w) ==
  /\ reader = "read" /\ rc
  /\ text' = [text EXCEPT ![s] = @ \o w]
  /\ LET one == CHOOSE x \in Sinks : TRUE
     IN  /\ buf' = [buf EXCEPT ![one] = @ \o Stretch(s, Len(text[s]), Len(text[s]) + Len(w))]
         /\ writing' = one
  /\ reader' = "write"
  /\ UNCHANGED <<failed, channelVars, handlerVars, connected>>

(* One line is taken out of a frame, `if` where there is a `for`.          *)
WriteReturns_OneLine ==
  /\ reader = "write"
  /\ reader' = "read"
  /\ UNCHANGED <<text, buf, writing, failed, channelVars, handlerVars, connected>>

(* The send does not wait for a place.                                     *)
SendLine_Unbounded ==
  /\ reader = "write"
  /\ \E k \in FirstNewlines(buf[writing]) :
       /\ lines' = Append(lines, SubSeq(buf[writing], 1, k))
       /\ buf' = [buf EXCEPT ![writing] = SubSeq(@, k + 1, Len(@))]
  /\ UNCHANGED <<text, reader, writing, failed, errs, open, rc, handlerVars, connected>>

(* The errors are not looked at once the lines are closed.                 *)
TakeEnd_NoDrain ==
  /\ handler = "select"
  /\ lines = <<>> /\ "lines" \notin open
  /\ handler' = "cancel"
  /\ said' = IF connected THEN said \cup {"end"} ELSE said
  /\ UNCHANGED <<readerVars, channelVars, got, connected>>

(* The deferred cancel is missing.                                         *)
Cancel_Missing ==
  /\ handler = "cancel"
  /\ handler' = "gone"
  /\ UNCHANGED <<readerVars, channelVars, got, said, connected>>

-----------------------------------------------------------------------------
(* The reader: StdCopy hands a frame of the engine to the line writer of   *)
(* its stream, which sends every line the buffer then holds, one blocking  *)
(* send after another, and keeps the rest.                                 *)

Read(s, w) ==
  /\ reader = "read" /\ rc
  /\ text' = [text EXCEPT ![s] = @ \o w]
  /\ buf' = [buf EXCEPT ![s] = @ \o Stretch(s, Len(text[s]), Len(text[s]) + Len(w))]
  /\ writing' = s
  /\ reader' = "write"
  /\ UNCHANGED <<failed, channelVars, handlerVars, connected>>

SendLine ==
  /\ reader = "write"
  /\ ~Full
  /\ \E k \in FirstNewlines(buf[writing]) :
       /\ lines' = Append(lines, SubSeq(buf[writing], 1, k))
       /\ buf' = [buf EXCEPT ![writing] = SubSeq(@, k + 1, Len(@))]
  /\ UNCHANGED <<text, reader, writing, failed, errs, open, rc, handlerVars, connected>>

WriteReturns ==
  /\ reader = "write"
  /\ Newlines(buf[writing]) = {}
  /\ reader' = "read"
  /\ UNCHANGED <<text, buf, writing, failed, channelVars, handlerVars, connected>>

(* The container has exited and everything it wrote was read.              *)
ReadEnds ==
  /\ reader = "read" /\ rc
  /\ reader' = "cancel"
  /\ UNCHANGED <<text, buf, writing, failed, channelVars, handlerVars, connected>>

Fails ==
  /\ reader = "read"
  /\ reader' = "cancel"
  /\ errs' = TRUE
  /\ failed' = TRUE
  /\ UNCHANGED <<text, buf, writing, lines, open, rc, handlerVars, connected>>

(* The connection to the engine breaks, or a frame makes no sense.         *)
ReadBreaks == Fails

(* The body was closed, or the context of its request is over.             *)
ReadReleased == (~rc \/ ~connected) /\ Fails

(* The deferred calls, the last one first.                                 *)
ReaderCancels ==
  /\ reader = "cancel"
  /\ reader' = "closeErrs"
  /\ rc' = FALSE
  /\ UNCHANGED <<text, buf, writing, failed, lines, errs, open, handlerVars, connected>>

CloseErrs ==
  /\ reader = "closeErrs"
  /\ reader' = "closeLines"
  /\ open' = open \ {"errs"}
  /\ UNCHANGED <<text, buf, writing, failed, lines, errs, rc, handlerVars, connected>>

CloseLines ==
  /\ reader = "closeLines"
  /\ reader' = "gone"
  /\ open' = open \ {"lines"}
  /\ UNCHANGED <<text, buf, writing, failed, lines, errs, rc, handlerVars, connected>>

-----------------------------------------------------------------------------
(* The handler's select: of the cases that are ready any may be taken.     *)

(* What is written while the browser is gone is lost, or fails.            *)
TakeLine ==
  /\ handler = "select"
  /\ lines # <<>>
  /\ lines' = Tail(lines)
  /\ got' = IF connected THEN Append(got, Head(lines)) ELSE got
  /\ handler' \in {"select"} \cup (IF connected THEN {} ELSE {"cancel"})
  /\ UNCHANGED <<readerVars, errs, open, rc, said, connected>>

TakeEnd ==
  /\ handler = "select"
  /\ lines = <<>> /\ "lines" \notin open
  /\ handler' = "cancel"
  /\ errs' = FALSE
  /\ said' = IF connected THEN said \cup {"end"} \cup (IF errs THEN {"error"} ELSE {})
             ELSE said
  /\ UNCHANGED <<readerVars, lines, open, rc, got, connected>>

TakeError ==
  /\ handler = "select"
  /\ errs
  /\ handler' = "cancel"
  /\ errs' = FALSE
  /\ said' = IF connected THEN said \cup {"error"} ELSE said
  /\ UNCHANGED <<readerVars, lines, open, rc, got, connected>>

TakeClosedErrors ==
  /\ handler = "select"
  /\ ~errs /\ "errs" \notin open
  /\ handler' = "cancel"
  /\ UNCHANGED <<readerVars, channelVars, got, said, connected>>

(* Or a keepalive cannot be written.                                       *)
ContextDone ==
  /\ handler = "select"
  /\ ~connected
  /\ handler' = "cancel"
  /\ UNCHANGED <<readerVars, channelVars, got, said, connected>>

Cancel ==
  /\ handler = "cancel"
  /\ handler' = "gone"
  /\ rc' = FALSE
  /\ UNCHANGED <<readerVars, lines, errs, open, got, said, connected>>

Disconnect ==
  /\ connected
  /\ connected' = FALSE
  /\ UNCHANGED <<readerVars, channelVars, handlerVars>>

-----------------------------------------------------------------------------
(* What a frame may hold (bound): one piece or two.                        *)
Frames == {<<a>> : a \in BOOLEAN} \cup {<<a, b>> : a \in BOOLEAN, b \in BOOLEAN}

Engine ==
  \/ \E s \in Sinks : \E w \in Frames : Len(text[s]) + Len(w) <= MaxPieces /\ Read(s, w)
  \/ ReadEnds \/ ReadBreaks

Reader ==
  SendLine \/ WriteReturns \/ ReadReleased \/ ReaderCancels \/ CloseErrs \/ CloseLines

Handler == TakeLine \/ TakeEnd \/ TakeError \/ TakeClosedErrors \/ ContextDone \/ Cancel

Next == Engine \/ Reader \/ Handler \/ Disconnect

(* Both goroutines go on as long as they can.  Nothing makes the engine    *)
(* send, or the browser leave.  Go picks among the ready cases of a select *)
(* at random, so that one which stays ready is taken in the end.           *)
Fairness ==
  /\ WF_vars(Reader) /\ WF_vars(Handler) /\ WF_vars(ContextDone)

Spec == Init /\ [][Next]_vars /\ Fairness

-----------------------------------------------------------------------------
(* The lines of stream s among the first i of q end with its piece n.      *)
EndAt(s, q, i, n) ==
  LET own == {j \in 1..i : q[j][1].of = s}
  IN  \/ own = {} /\ n = 0
      \/ \E j \in own : q[j][Len(q[j])].at = n /\ \A k \in own : k <= j

(* The i-th line of q takes up the stream s where the line of s before it  *)
(* has left off, and ends at the first newline from there.                 *)
NextLine(s, q, i) ==
  \E b \in DOMAIN text[s] : \E a \in 0..(b - 1) :
    /\ q[i] = Stretch(s, a, b)
    /\ \A k \in (a + 1)..b : text[s][k] <=> k = b
    /\ EndAt(s, q, i - 1, a)

(* Every line the browser gets is a line the container wrote: it ends at   *)
(* its first newline, it is of one stream however the frames of the two    *)
(* fall between one another and between newlines, and the lines of a       *)
(* stream come in order, none twice, none left out before another.         *)
LinesAreWhole == \A i \in DOMAIN got : \E s \in Sinks : NextLine(s, got, i)

(* A stream that is said to have ended has ended for the browser too: all  *)
(* there is beyond what it got is an unfinished last line.                 *)
EndIsWhole ==
  "end" \in said =>
    \A s \in Sinks : \E n \in 0..Len(text[s]) :
      /\ EndAt(s, got, Len(got), n)
      /\ \A k \in (n + 1)..Len(text[s]) : ~text[s][k]

(* When the tail of the log breaks, a browser that is there is told,       *)
(* whichever of the channels the handler looks at first (sse.go:140: "We   *)
(* prefer surfacing an error event over a clean end-of-stream comment").   *)
ErrorIsShown ==
  failed /\ connected /\ handler # "select" => "error" \in said

(* A browser that leaves does not leave a stream open at the engine, even  *)
(* if the reader is stuck with a full channel (sse.go:121: "On exit it     *)
(* always calls cancel").                                                  *)
EngineIsReleased == ~connected ~> ~rc /\ handler = "gone"
=============================================================================
