---------------------------- MODULE ChildCommands ----------------------------
(* One command that albert runs as a child process: by the bash tool          *)
(* (runtime/src/bash.rs), the PowerShell and REPL tools (tools/src/lib.rs) or *)
(* a hook (runtime/src/hooks.rs).  The command may leave a descendant behind  *)
(* that has inherited its pipes, and each may close or redirect its ends of   *)
(* them and live on; pipes are bounded; the deadline may pass at any time.    *)
(* What the command writes is a sequence of characters of one byte ("a") or   *)
(* of two ("w1", "w2").                                                       *)
EXTENDS Naturals, Sequences

CONSTANTS
  PipeSize,    \* bytes a pipe holds (64 KiB on Linux)
  BufferSize,  \* bytes one read of execute_bash_async takes (4096)
  Payload,     \* bytes of the JSON a hook is given on stdin
  MaxBytes     \* bound: bytes the command writes

ASSUME SizesAssumption ==
  /\ PipeSize \in Nat /\ 2 <= PipeSize    \* a character is written at once
  /\ BufferSize \in Nat \ {0} /\ Payload \in Nat /\ MaxBytes \in Nat

Streams == {"stdout", "stderr"}
Ends == Streams \union {"stdin"}           \* of the pipes, on the side of the command
Processes == {"child", "descendant"}
Characters == {<<"a">>, <<"w1", "w2">>}
Bytes == {"a", "w1", "w2"}
Killed == 137                             \* ended by a signal: code() is None
Codes == {0, 1, 2, Killed}

(* pwshTimed is PowerShell with a timeout, background either tool with        *)
(* run_in_background; bash has a timeout always.                              *)
Kinds == {"bash", "pwshTimed", "pwsh", "repl", "hook", "background"}
Timed == {"bash", "pwshTimed"}

VARIABLES
  kind,        \* who runs the command
  at,          \* where that caller is; "returned" at the end
  process,     \* what a process is doing; a writer with stream and character
  ends,        \* process -> the ends of pipes it holds
  pipe,        \* stream -> bytes in the pipe
  read,        \* stream -> bytes read and not yet decoded (read_to_end)
  text,        \* stream -> what was collected, decoded
  written,     \* stream -> all the command wrote (history)
  sent, taken, \* bytes of the payload written to stdin, and read from it
  expired,     \* the deadline has passed
  code,        \* exit status of the child
  outcome      \* what the caller returns

vars == <<kind, at, process, ends, pipe, read, text, written, sent, taken, expired, code, outcome>>
pipes == <<pipe, read, text, written>>
stdin == <<sent, taken>>

Doing(what) == [is |-> what, stream |-> "", char |-> <<>>]
Writing(s, c) == [is |-> "writing", stream |-> s, char |-> c]
States ==
  {Doing(what) : what \in {"none", "free", "reading", "dead"}}
    \union {Writing(s, c) : s \in Streams, c \in Characters}

Alive(p) == process[p].is \in {"free", "reading", "writing"}
Running == at \notin {"start", "returned"}
EndOfFile(s) == pipe[s] = <<>> /\ \A p \in Processes : s \notin ends[p]

Outcome(how, c) == [how |-> how, code |-> c]

(* Child::kill, on a child that may have ended: the descendant lives on.      *)
Kill ==
  IF Alive("child")
  THEN /\ process' = [process EXCEPT !["child"] = Doing("dead")]
       /\ ends' = [ends EXCEPT !["child"] = {}]
       /\ code' = Killed
  ELSE UNCHANGED <<process, ends, code>>

(* String::from_utf8_lossy: half a character becomes the replacement mark.    *)
Decode(bytes) ==
  [i \in DOMAIN bytes |->
     IF \/ bytes[i] = "w1" /\ i = Len(bytes)
        \/ bytes[i] = "w2" /\ i = 1
     THEN "?" ELSE bytes[i]]

Init ==
  /\ kind \in Kinds /\ at = "start"
  /\ process = [p \in Processes |-> Doing("none")] /\ ends = [p \in Processes |-> {}]
  /\ pipe = [s \in Streams |-> <<>>] /\ read = pipe /\ text = pipe /\ written = pipe
  /\ sent = 0 /\ taken = 0
  /\ expired = FALSE /\ code = 0 /\ outcome = Outcome("none", 0)

Return(result) == at' = "returned" /\ outcome' = result

--------------------------------------------------------------------------------
(* What the code makes of an exit status.  PowerShell mentions neither a      *)
(* success nor a signal, and a REPL reports a signal as 1.                    *)

Verdict(c) == CASE c = 0 -> "allow" [] c = 2 -> "deny" [] OTHER -> "warn"

Interpretation ==
  CASE kind = "hook"                -> Outcome(Verdict(code), code)
    [] kind = "bash"                -> Outcome(IF code = Killed THEN "unsaid" ELSE "exit", code)
    [] kind \in {"pwsh", "pwshTimed"}
                                    -> Outcome(IF code \in {0, Killed} THEN "unsaid" ELSE "exit", code)
    [] OTHER                        -> Outcome("exit", IF code = Killed THEN 1 ELSE code)

Failure == Outcome(IF kind = "hook" THEN "warn" ELSE "failed", 0)

--------------------------------------------------------------------------------
(* The caller.                                                                *)

(* validate_bash_ast turns the command down: state 0.                         *)
Blocked ==
  /\ at = "start" /\ kind \in {"bash", "background"}
  /\ Return(Outcome("blocked", 0))
  /\ UNCHANGED <<kind, process, ends, pipes, stdin, expired, code>>

CannotStart ==
  /\ at = "start"
  /\ Return(Failure)
  /\ UNCHANGED <<kind, process, ends, pipes, stdin, expired, code>>

Start ==
  /\ at = "start"
  /\ process' = [process EXCEPT !["child"] = Doing("free")]
  /\ ends' = [ends EXCEPT !["child"] = IF kind = "hook" THEN Ends ELSE Streams]
  /\ \/ kind = "background" /\ Return(Outcome("background", 0))
     \/ /\ kind # "background"
        /\ at' = CASE kind = "bash" -> "select" [] kind = "pwshTimed" -> "poll"
                   [] kind = "hook" -> "feed"   [] OTHER -> "collect"
        /\ UNCHANGED outcome
  /\ UNCHANGED <<kind, pipes, stdin, expired, code>>

Least(m, n) == IF m < n THEN m ELSE n

(* Mutant: the branch that lost the race had read as well. *)
ReadChunkRacing(s) ==
  /\ at = "select" /\ pipe[s] # <<>>
  /\ LET n == Least(Len(pipe[s]), BufferSize) IN
     /\ text' = [text EXCEPT ![s] = @ \o Decode(SubSeq(pipe[s], 1, n))]
     /\ pipe' = [t \in Streams |-> IF t = s THEN SubSeq(pipe[s], n + 1, Len(pipe[s])) ELSE <<>>]
  /\ UNCHANGED <<kind, at, process, ends, read, written, stdin, expired, code, outcome>>

(* A branch of select!: a chunk that is decoded by itself.                    *)
ReadChunk(s) ==
  /\ at = "select" /\ pipe[s] # <<>>
  /\ LET n == Least(Len(pipe[s]), BufferSize) IN
     /\ text' = [text EXCEPT ![s] = @ \o Decode(SubSeq(pipe[s], 1, n))]
     /\ pipe' = [pipe EXCEPT ![s] = SubSeq(@, n + 1, Len(@))]
  /\ UNCHANGED <<kind, at, process, ends, read, written, stdin, expired, code, outcome>>

(* child.wait() is ready: the final drain, which no deadline interrupts.      *)
SeeExit ==
  /\ at = "select" /\ ~Alive("child")
  /\ at' = "drain stdout"
  /\ UNCHANGED <<kind, process, ends, pipes, stdin, expired, code, outcome>>

(* sleep is ready, whatever else is: kill and wait, nothing more is read.     *)
TimesOut ==
  /\ at = "select" /\ expired
  /\ Kill
  /\ Return(Outcome("timeout", 0))
  /\ UNCHANGED <<kind, pipes, stdin, expired>>

(* try_wait, the clock, sleep.                                                *)
Poll ==
  /\ at = "poll"
  /\ at' = IF Alive("child") THEN "clock" ELSE "collect"
  /\ UNCHANGED <<kind, process, ends, pipes, stdin, expired, code, outcome>>

(* Mutant: the command that took too long is left running. *)
LookAtClockOnly ==
  /\ at = "clock"
  /\ IF expired
     THEN Return(Outcome("timeout", 0))
     ELSE at' = "poll" /\ UNCHANGED outcome
  /\ UNCHANGED <<kind, process, ends, pipes, stdin, expired, code>>

LookAtClock ==
  /\ at = "clock"
  /\ IF expired
     THEN Kill /\ at' = "collect" /\ outcome' = Outcome("timeout", 0)
     ELSE at' = "poll" /\ UNCHANGED <<process, ends, code, outcome>>
  /\ UNCHANGED <<kind, pipes, stdin, expired>>

(* write_all to the stdin of a hook, byte by byte; the error of a pipe that   *)
(* nobody can read any more ends the call without waiting for the child.      *)
Feed ==
  /\ at = "feed" /\ sent < Payload /\ \E p \in Processes : "stdin" \in ends[p]
  /\ sent - taken < PipeSize
  /\ sent' = sent + 1
  /\ UNCHANGED <<kind, at, process, ends, pipes, taken, expired, code, outcome>>

FeedFails ==
  /\ at = "feed" /\ sent < Payload /\ \A p \in Processes : "stdin" \notin ends[p]
  /\ Return(Failure)
  /\ UNCHANGED <<kind, process, ends, pipes, stdin, expired, code>>

Fed ==
  /\ at = "feed" /\ sent = Payload
  /\ at' = "collect"
  /\ UNCHANGED <<kind, process, ends, pipes, stdin, expired, code, outcome>>

(* Mutant: stderr is read after the end of stdout, as in the drain of bash. *)
CollectsInTurn(s) ==
  \/ at = (IF s = "stdout" THEN "drain stdout" ELSE "drain stderr")
  \/ at = "collect" /\ (s = "stdout" \/ EndOfFile("stdout"))

(* Which stream is read to its end: output() and wait_with_output() read both *)
(* as they come, the final drain of bash one after the other.                 *)
Collects(s) ==
  \/ at = "collect"
  \/ at = (IF s = "stdout" THEN "drain stdout" ELSE "drain stderr")

CollectSome(s) ==
  /\ Collects(s) /\ pipe[s] # <<>>
  /\ read' = [read EXCEPT ![s] = @ \o pipe[s]]
  /\ pipe' = [pipe EXCEPT ![s] = <<>>]
  /\ UNCHANGED <<kind, at, process, ends, text, written, stdin, expired, code, outcome>>

NextStream ==
  /\ at = "drain stdout" /\ EndOfFile("stdout")
  /\ at' = "drain stderr"
  /\ UNCHANGED <<kind, process, ends, pipes, stdin, expired, code, outcome>>

(* output() and wait_with_output() wait for the child after the two ends.     *)
Collected ==
  /\ \/ at = "collect" /\ ~Alive("child") /\ \A s \in Streams : EndOfFile(s)
     \/ at = "drain stderr" /\ EndOfFile("stderr")
  /\ text' = [s \in Streams |-> text[s] \o Decode(read[s])]
  /\ read' = [s \in Streams |-> <<>>]
  /\ Return(IF outcome.how = "timeout" THEN outcome ELSE Interpretation)
  /\ UNCHANGED <<kind, process, ends, pipe, written, stdin, expired, code>>

Caller ==
  \/ Start \/ SeeExit \/ TimesOut \/ Poll \/ LookAtClock
  \/ Feed \/ FeedFails \/ Fed \/ NextStream \/ Collected
  \/ \E s \in Streams : ReadChunk(s) \/ CollectSome(s)

--------------------------------------------------------------------------------
(* The processes of the command, as long as the caller waits for them.        *)
Becomes(p, what) == process' = [process EXCEPT ![p] = what]

WantToWrite(p, s, c) ==
  /\ Running /\ process[p].is = "free" /\ s \in ends[p]
  /\ Len(written["stdout"]) + Len(written["stderr"]) + Len(c) <= MaxBytes
  /\ Becomes(p, Writing(s, c))
  /\ UNCHANGED <<kind, at, ends, pipes, stdin, expired, code, outcome>>

Put(p) ==
  /\ Running /\ process[p].is = "writing"
  /\ LET s == process[p].stream
         c == process[p].char IN
     /\ Len(pipe[s]) + Len(c) <= PipeSize
     /\ pipe' = [pipe EXCEPT ![s] = @ \o c]
     /\ written' = [written EXCEPT ![s] = @ \o c]
  /\ Becomes(p, Doing("free"))
  /\ UNCHANGED <<kind, at, ends, read, text, stdin, expired, code, outcome>>

(* Only the stdin of a hook holds anything.                                   *)
WantToRead(p) ==
  /\ Running /\ process[p].is = "free" /\ "stdin" \in ends[p]
  /\ Becomes(p, Doing("reading"))
  /\ UNCHANGED <<kind, at, ends, pipes, stdin, expired, code, outcome>>

Take(p) ==
  /\ Running /\ process[p].is = "reading"
  /\ taken < sent \/ at # "feed"
  /\ taken' = sent
  /\ Becomes(p, Doing("free"))
  /\ UNCHANGED <<kind, at, ends, pipes, sent, expired, code, outcome>>

Fork ==
  /\ Running /\ process["child"].is = "free" /\ process["descendant"].is = "none"
  /\ Becomes("descendant", Doing("free"))
  /\ ends' = [ends EXCEPT !["descendant"] = ends["child"]]
  /\ UNCHANGED <<kind, at, pipes, stdin, expired, code, outcome>>

(* A process closes an end of a pipe, or redirects it.                        *)
CloseEnd(p, e) ==
  /\ Running /\ e \in ends[p] /\ process[p].is = "free"
  /\ ends' = [ends EXCEPT ![p] = @ \ {e}]
  /\ UNCHANGED <<kind, at, process, pipes, stdin, expired, code, outcome>>

Exit(p, c) ==
  /\ Running /\ process[p].is = "free"
  /\ Becomes(p, Doing("dead"))
  /\ ends' = [ends EXCEPT ![p] = {}]
  /\ code' = IF p = "child" THEN c ELSE code
  /\ UNCHANGED <<kind, at, pipes, stdin, expired, outcome>>

Expire ==
  /\ Running /\ kind \in Timed /\ ~expired
  /\ expired' = TRUE
  /\ UNCHANGED <<kind, at, process, ends, pipes, stdin, code, outcome>>

Moves(p) ==
  \/ Put(p) \/ WantToRead(p) \/ Take(p)
  \/ \E s \in Streams, c \in Characters : WantToWrite(p, s, c)
  \/ \E e \in Ends : CloseEnd(p, e)
  \/ \E c \in Codes : Exit(p, c)

Next == Blocked \/ CannotStart \/ Caller \/ Fork \/ Expire \/ \E p \in Processes : Moves(p)

(* The caller's thread runs, the kernel completes what can be completed, time *)
(* passes.  Nothing makes a command exit, or read what it is given.           *)
Spec ==
  /\ Init /\ [][Next]_vars
  /\ WF_vars(Caller) /\ WF_vars(Expire)
  /\ \A p \in Processes : WF_vars(Put(p)) /\ WF_vars(Take(p))

--------------------------------------------------------------------------------
TypeOK ==
  /\ kind \in Kinds
  /\ at \in {"start", "select", "drain stdout", "drain stderr", "poll", "clock", "feed",
             "collect", "returned"}
  /\ process \in [Processes -> States] /\ ends \in [Processes -> SUBSET Ends]
  /\ pipe \in [Streams -> Seq(Bytes)]
  /\ read \in [Streams -> Seq(Bytes)] /\ written \in [Streams -> Seq(Bytes)]
  /\ text \in [Streams -> Seq(Bytes \union {"?"})]
  /\ \A s \in Streams : Len(pipe[s]) <= PipeSize
  /\ sent \in 0 .. Payload /\ taken \in 0 .. sent /\ sent - taken <= PipeSize
  /\ expired \in BOOLEAN /\ code \in Codes
  /\ outcome \in [how : {"none", "blocked", "failed", "background", "timeout", "exit", "unsaid",
                         "allow", "deny", "warn"}, code : Codes]

(* What a call leaves running it could not hear of any more: a descendant     *)
(* that gave up its output, all of a hook that will not take its payload, or  *)
(* the descendant of a bash command that was killed at its deadline.  In      *)
(* every other case the call waited, or killed and waited.                    *)
OnlyDetachedSurvive ==
  at = "returned" /\ kind # "background" =>
    \A p \in Processes : Alive(p) =>
      \/ kind = "hook" /\ outcome.how = "warn" /\ sent < Payload /\ "stdin" \notin ends[p]
      \/ p = "descendant" /\ ends[p] \intersect Streams = {}
      \/ p = "descendant" /\ kind = "bash" /\ outcome.how = "timeout"

(* What the model is told is what happened: a hook that exits with 2 denies   *)
(* and one that exits with 0 allows, if they took their payload; a success is *)
(* reported only for an exit with 0, a timeout only past the deadline.        *)
OutcomeIsTrue ==
  at = "returned" =>
    /\ outcome.how \in {"allow", "deny"} => sent = Payload
    /\ kind = "hook" /\ process["child"].is = "dead" /\ sent = Payload =>
         (outcome.how = "allow") = (code = 0) /\ (outcome.how = "deny") = (code = 2)
    /\ outcome = Outcome("exit", 0) => process["child"].is = "dead" /\ code = 0
    /\ outcome.how = "timeout" => expired

Inv == TypeOK /\ OnlyDetachedSurvive /\ OutcomeIsTrue

(* The output a tool returns is what the command wrote, in order and without  *)
(* a gap: all of it if the command ended or PowerShell was killed, a prefix   *)
(* if bash timed out.  Only bash, which decodes chunk by chunk, may show a    *)
(* replacement mark for half a character.                                     *)
Shows(shown, wrote) ==
  /\ Len(shown) = Len(wrote)
  /\ \A i \in DOMAIN wrote :
       \/ shown[i] = wrote[i]
       \/ kind = "bash" /\ shown[i] = "?" /\ wrote[i] # "a"

OutputIsWhole ==
  \A s \in Streams :
    /\ Shows(text[s] \o read[s] \o pipe[s], written[s])
    /\ at = "returned" /\ outcome.how \in {"exit", "unsaid", "allow", "deny"}
         => Shows(text[s], written[s])
    /\ at = "returned" /\ kind = "pwshTimed" /\ outcome.how = "timeout"
         => text[s] = written[s]

(* The two ways a writer may be left waiting: a hook that does not read its   *)
(* payload while its caller does not read its output, and a descendant that   *)
(* fills stderr while bash's last drain is at stdout.                         *)
Crossed == at = "feed" /\ sent < Payload
Behind == at = "drain stdout" /\ pipe["stderr"] # <<>>

(* The ends the caller waits for, unless what it waits for is the child.      *)
Awaited == IF at = "feed" THEN {"stdin"} ELSE Streams

(* Every call returns.  With a deadline the only excuse is a descendant that  *)
(* keeps its end of such a pipe for ever (the final drain of bash and         *)
(* wait_with_output wait for it); without one, also a child that lives for    *)
(* ever.  And nobody the caller reads from is left in a write for ever.       *)
CommandReturns ==
  /\ \/ <>(at = "returned")
     \/ <>[](ends["descendant"] \intersect Awaited # {})
     \/ kind \notin Timed /\ <>[](Alive("child"))
  /\ \A p \in Processes : []<>(process[p].is # "writing" \/ ~Running) \/ <>[](Crossed \/ Behind)
================================================================================
