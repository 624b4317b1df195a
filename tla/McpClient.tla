-------------------------------- MODULE McpClient --------------------------------
(***************************************************************************)
(* The stdio client of executor/razorpay_mcp.py: one request at a time to  *)
(* a server in a subprocess, newline-delimited answers on a pipe.          *)
(*                                                                         *)
(* Between the server and readline there are two buffers: the pipe, which  *)
(* select looks at, and the text layer of the process object, which select *)
(* knows nothing of.  The server may also write log noise, answer late, or *)
(* die.  A line carries the id it answers, 0 if none, and what it says.    *)
(***************************************************************************)
EXTENDS Naturals, Sequences

CONSTANT MaxLines      \* capacity of the pipe, in lines

ASSUME ClientAssumption == MaxLines \in Nat \ {0}

VARIABLES
  proc,                \* _proc: "none", "up", or "dead" and not noticed
  nextId,              \* _next_id
  waiting,             \* id of the request being waited for, 0 when there is none
  late,                \* its deadline has passed
  pipe,                \* lines the server wrote and nobody read
  buffer               \* lines read from the pipe and not yet returned by readline

lines  == <<pipe, buffer>>
client == <<proc, nextId, waiting, late, lines>>

ClientInit ==
  /\ proc = "none" /\ nextId = 0 /\ waiting = 0 /\ late = FALSE
  /\ pipe = <<>> /\ buffer = <<>>

ClientTypeOK ==
  /\ proc \in {"none", "up", "dead"} /\ late \in BOOLEAN
  /\ nextId \in Nat /\ waiting \in 0..nextId
  /\ \A i \in 1..Len(buffer \o pipe) : (buffer \o pipe)[i].id \in 0..nextId
  /\ Len(pipe) <= MaxLines
  /\ proc = "none" => pipe = <<>> /\ buffer = <<>>

\* _call up to the wait: a fresh id, a fresh deadline.
Posts ==
  /\ nextId' = nextId + 1
  /\ waiting' = nextId'
  /\ late' = FALSE

\* The call is over, one way or the other.
Hangs_up == waiting' = 0 /\ late' = FALSE

\* _readable: select on the descriptor.  A dead server's pipe is at its end.
Readable == pipe # <<>> \/ proc = "dead"

\* Mutant of Expired: the deadline is looked at only when there is nothing to read.
Expired_when_silent == late /\ ~Readable

\* The loop looks at the clock first.
Expired == late

\* The line readline returns, if there is one.
Ahead == buffer \o pipe
Line  == Head(Ahead)

\* readline: from the text layer, or, when that is empty, after reading a
\* chunk, which holds some of the lines that are there.
ReadsLine ==
  /\ Ahead # <<>>
  /\ \/ /\ buffer # <<>>
        /\ buffer' = Tail(buffer) /\ UNCHANGED pipe
     \/ /\ buffer = <<>>
        /\ \E n \in 1..Len(pipe) :
             buffer' = SubSeq(pipe, 2, n) /\ pipe' = SubSeq(pipe, n + 1, Len(pipe))

\* Mutant of Mine: the first answer that comes is taken for the answer.
Mine_any(line) == line.id # 0

\* message.get("id") != request_id
Mine(line) == line.id = waiting

\* One turn of the loop that finds a line of no interest.
Skip ==
  /\ waiting # 0 /\ ~Expired /\ Readable
  /\ ReadsLine /\ ~Mine(Line)
  /\ UNCHANGED <<proc, nextId, waiting, late>>

\* The three other ends of a turn: the answer, the end of the stream, the deadline.
Hears(said) ==
  /\ waiting # 0 /\ ~Expired /\ Readable
  /\ ReadsLine /\ Mine(Line) /\ said = Line.said

Closed == waiting # 0 /\ ~Expired /\ Readable /\ Ahead = <<>>

TimesOut == waiting # 0 /\ Expired

\* time.monotonic() > deadline
DeadlinePasses ==
  /\ waiting # 0 /\ ~late
  /\ late' = TRUE
  /\ UNCHANGED <<proc, nextId, waiting, lines>>

\* Mutant of Stop: a new server is read from where the old one broke off.
Stop_keeps_reading ==
  /\ waiting = 0 /\ proc # "none"
  /\ proc' = "none"
  /\ UNCHANGED <<nextId, waiting, late, pipe, buffer>>

\* stop(): the process is terminated and its pipes go with it.
Stop ==
  /\ waiting = 0 /\ proc # "none"
  /\ proc' = "none" /\ pipe' = <<>> /\ buffer' = <<>>
  /\ UNCHANGED <<nextId, waiting, late>>

----------------------------------------------------------------------------------
(* The server, as far as the client can see it.                            *)

Writes(line) ==
  /\ proc = "up" /\ Len(pipe) < MaxLines
  /\ pipe' = Append(pipe, line)
  /\ UNCHANGED <<proc, nextId, waiting, late, buffer>>

\* A log line or a notification.
Noise == Writes([id |-> 0, said |-> "noise"])

Die ==
  /\ proc = "up"
  /\ proc' = "dead"
  /\ UNCHANGED <<nextId, waiting, late, lines>>
==================================================================================
