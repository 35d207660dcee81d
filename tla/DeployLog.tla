----------------------------- MODULE DeployLog -----------------------------
(***************************************************************************)
(* The log of one deploy: the worker appends lines to a file, the handler  *)
(* of the event stream tails that file until the worker is no longer in    *)
(* flight, and the log view of the UI shows what it receives, in place for *)
(* lines with a key, and later for lines that arrive while it is paused.   *)
(*                                                                         *)
(* A line is its number in the file.  One step is one append, one stat,    *)
(* one read to the end of the file, one look at the in-flight map.         *)
(***************************************************************************)
EXTENDS Naturals, Sequences, FiniteSetsExt

CONSTANTS
  Length,          \* how many lines the worker writes
  KeyOf,           \* KeyOf[i]: the key of line i, None for a plain line
  None,
  MaxLines,        \* MAX_LINES: rows shown, and events kept while paused
  MaxConnections   \* how often the view connects (bound)

ASSUME LogAssumption ==
  /\ Length \in Nat /\ MaxLines \in Nat \ {0} /\ MaxConnections \in Nat \ {0}
  /\ DOMAIN KeyOf = 1..Length

VARIABLES
  worker,    \* the deploy worker
  exists,    \* whether the file exists
  written,   \* lines in the file
  stream,    \* where the handler of the view's connection is
  offset,    \* closure variable of tail: the bytes it takes for read
  size,      \* what its stat returned
  dialled,   \* connections made
  lines,     \* the rows of the view
  paused,    \* whether it is paused
  backlog,   \* events it has put off
  received   \* history: every event the view was sent, over all connections

fileVars == <<worker, exists, written>>
streamVars == <<stream, offset, size, dialled>>
viewVars == <<lines, paused, backlog, received>>
vars == <<fileVars, streamVars, viewVars>>

Rows == [line : 1..Length, key : {None} \cup {KeyOf[i] : i \in 1..Length}]

TypeOK ==
  /\ worker \in {"starting", "writing", "closed", "gone"}
  /\ exists \in BOOLEAN /\ written \in 0..Length
  /\ stream \in {"none", "stat", "read", "check", "waiting", "lost", "ended", "refused"}
  /\ offset \in 0..Length /\ size \in 0..Length
  /\ dialled \in 0..MaxConnections
  /\ lines \in Seq(Rows) /\ Len(lines) <= MaxLines
  /\ paused \in BOOLEAN
  /\ backlog \in Seq(1..Length) /\ Len(backlog) <= MaxLines
  /\ received \in Seq(1..Length)

Init ==
  /\ worker = "starting" /\ exists = FALSE /\ written = 0
  /\ stream = "none" /\ offset = 0 /\ size = 0 /\ dialled = 0
  /\ lines = <<>> /\ paused = FALSE /\ backlog = <<>> /\ received = <<>>

InFlight == worker # "gone"

LastOf(s, n) == IF Len(s) <= n THEN s ELSE SubSeq(s, Len(s) - n + 1, Len(s))

(* Faulty variant: a progress line is always a new row.                    *)
Apply_Appends(rows, i) == Append(rows, [line |-> i, key |-> KeyOf[i]])

(* applyEvents: an event with a key overwrites the row of that key, any    *)
(* other is appended; the oldest rows go when there are too many.          *)
Apply(rows, i) ==
  LET at == {j \in DOMAIN rows : KeyOf[i] # None /\ rows[j].key = KeyOf[i]}
  IN  IF at = {} THEN Append(rows, [line |-> i, key |-> KeyOf[i]])
      ELSE [rows EXCEPT ![Max(at)].line = i]

(* after[k]: the rows after the first k events.                            *)
Applied(rows, events) ==
  LET after[k \in 0..Len(events)] == IF k = 0 THEN rows ELSE Apply(after[k - 1], events[k])
  IN  after[Len(events)]

Shown(rows, events) == LastOf(Applied(rows, events), MaxLines)

(* Faulty variant: what arrives during a pause is kept without a bound.    *)
Deliver_Uncapped(events) ==
  /\ received' = received \o events
  /\ IF paused
     THEN backlog' = backlog \o events /\ UNCHANGED lines
     ELSE lines' = Shown(lines, events) /\ UNCHANGED backlog
  /\ UNCHANGED paused

(* The events reach the view: rendered, or put off.                        *)
Deliver(events) ==
  /\ received' = received \o events
  /\ IF paused
     THEN backlog' = LastOf(backlog \o events, MaxLines) /\ UNCHANGED lines
     ELSE lines' = Shown(lines, events) /\ UNCHANGED backlog
  /\ UNCHANGED paused

-----------------------------------------------------------------------------
(* Faulty variants of actions below.  No specification uses these, nor     *)
(* Apply_Appends and Deliver_Uncapped above.                               *)

(* The offset moves to the end of the file as it is after the read.        *)
Read_ToSize ==
  /\ stream = "read"
  /\ stream' = "check"
  /\ Deliver([i \in 1..(size - offset) |-> offset + i])
  /\ offset' = written
  /\ UNCHANGED <<fileVars, size, dialled>>

(* Resuming forgets what was put off.                                      *)
Resume_Empty ==
  /\ paused
  /\ paused' = FALSE
  /\ backlog' = <<>>
  /\ UNCHANGED <<fileVars, streamVars, lines, received>>

(* The stream goes on after the worker has gone.                           *)
CheckInFlight_Waits ==
  /\ stream = "check"
  /\ stream' = "waiting"
  /\ UNCHANGED <<fileVars, offset, size, dialled, viewVars>>

-----------------------------------------------------------------------------
(* The worker.                                                             *)

OpenLog ==
  /\ worker = "starting"
  /\ worker' = "writing"
  /\ exists' = TRUE
  /\ UNCHANGED <<written, streamVars, viewVars>>

AppendLine ==
  /\ worker = "writing"
  /\ written < Length
  /\ written' = written + 1
  /\ UNCHANGED <<worker, exists, streamVars, viewVars>>

(* The deferred close; a deploy may end after any line.                    *)
CloseLog ==
  /\ worker = "writing"
  /\ worker' = "closed"
  /\ UNCHANGED <<exists, written, streamVars, viewVars>>

(* The deferred delete from the in-flight map, which runs after the close. *)
(* A worker that cannot open its log, or fails before that, has none.      *)
Deregister ==
  /\ worker \in {"closed", "starting"}
  /\ worker' = "gone"
  /\ UNCHANGED <<exists, written, streamVars, viewVars>>

-----------------------------------------------------------------------------
(* DeployLogStream and streamDeployLog.                                    *)

Connect ==
  /\ stream \in {"none", "lost"}
  /\ dialled < MaxConnections
  /\ dialled' = dialled + 1
  /\ stream' = IF exists THEN "stat" ELSE "refused"
  /\ offset' = 0 /\ size' = 0
  /\ UNCHANGED <<fileVars, viewVars>>

Stat ==
  /\ stream = "stat"
  /\ size' = written
  /\ stream' = IF written = offset THEN "check" ELSE "read"
  /\ UNCHANGED <<fileVars, offset, dialled, viewVars>>

(* The read goes on to the end of the file, the offset to the size that    *)
(* the stat saw.                                                           *)
Read ==
  /\ stream = "read"
  /\ stream' = "check"
  /\ Deliver([i \in 1..(written - offset) |-> offset + i])
  /\ offset' = size
  /\ UNCHANGED <<fileVars, size, dialled>>

(* A file that cannot be opened, sought or read is the end of the stream,  *)
(* and the view is told so although the deploy may go on.                  *)
ReadFails ==
  /\ stream \in {"stat", "read"}
  /\ stream' = "ended"
  /\ UNCHANGED <<fileVars, offset, size, dialled, viewVars>>

(* `end` is sent, and the view closes its event source, as soon as the     *)
(* worker is not in flight; otherwise the next tick of the second.         *)
CheckInFlight ==
  /\ stream = "check"
  /\ stream' = IF InFlight THEN "waiting" ELSE "ended"
  /\ UNCHANGED <<fileVars, offset, size, dialled, viewVars>>

Tick ==
  /\ stream = "waiting"
  /\ stream' = "stat"
  /\ UNCHANGED <<fileVars, offset, size, dialled, viewVars>>

(* The connection breaks, or a keepalive cannot be written; the browser    *)
(* will dial again.                                                        *)
Drop ==
  /\ stream \in {"stat", "read", "check", "waiting"}
  /\ stream' = "lost"
  /\ UNCHANGED <<fileVars, offset, size, dialled, viewVars>>

(* The process dies: the file stays, the in-flight map does not.           *)
Crash ==
  /\ InFlight
  /\ worker' = "gone"
  /\ stream' = IF stream \in {"stat", "read", "check", "waiting"} THEN "lost" ELSE stream
  /\ UNCHANGED <<exists, written, offset, size, dialled, viewVars>>

-----------------------------------------------------------------------------
(* The log view.                                                           *)

Pause ==
  /\ ~paused
  /\ paused' = TRUE
  /\ UNCHANGED <<fileVars, streamVars, lines, backlog, received>>

Resume ==
  /\ paused
  /\ paused' = FALSE
  /\ lines' = Shown(lines, backlog)
  /\ backlog' = <<>>
  /\ UNCHANGED <<fileVars, streamVars, received>>

-----------------------------------------------------------------------------
Worker == OpenLog \/ AppendLine \/ CloseLog \/ Deregister
Stream == Stat \/ Read \/ CheckInFlight \/ Tick
View == Connect \/ Pause \/ Resume

Next == Worker \/ Stream \/ View \/ ReadFails \/ Drop \/ Crash

Spec == Init /\ [][Next]_vars

(* The handler's ticker fires every second and its reads return; a worker  *)
(* ends (its deadline) and runs its deferred calls.                        *)
FairSpec ==
  /\ Spec
  /\ WF_vars(Stream)
  /\ WF_vars(Deregister) /\ WF_vars(CloseLog)

-----------------------------------------------------------------------------
(* The lines sent to a view have no gap, over all its connections and      *)
(* whatever the writer did between stat and read: a line is never sent     *)
(* before every line that precedes it (deploy_log_store.go:197).           *)
NoGap ==
  \A j \in DOMAIN received : \A i \in 1..(received[j] - 1) :
    \E k \in 1..(j - 1) : received[k] = i

(* Pausing only defers the render (useLogStream.ts:23): as long as no row  *)
(* had to go, an unpaused view shows what it would if it had never paused. *)
PauseDefers ==
  ~paused /\ Len(received) <= MaxLines => lines = Shown(<<>>, received)

(* A key has one row at most, however often its lines come again           *)
(* (useLogStream.ts:31).                                                   *)
OneRowPerKey ==
  \A i, j \in DOMAIN lines :
    lines[i].key = lines[j].key /\ lines[i].key # None => i = j

(* A stream does not outlive its worker for ever: the view is told the     *)
(* end, unless the connection breaks.                                      *)
StreamEnds ==
  ~InFlight /\ stream \notin {"none", "refused"} ~> stream \in {"ended", "lost"}
=============================================================================
